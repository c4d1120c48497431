------------------------ MODULE InferenceCoordinator ------------------------
(***************************************************************************)
(* Admission of inference requests to one provider.  The provider's        *)
(* capacity, its slots and the queue of waiting requests are database      *)
(* tables; every process polls for its own requests.  A waiting request    *)
(* and a slot are both held by leases that expire at the database's clock, *)
(* so there is no clock here: a lease expires whenever ExpireRow or        *)
(* ExpireSlot says so, and the background interval passes with BecomeDue.  *)
(* An action is one transaction, together with what its caller does next   *)
(* without waiting.                                                        *)
(***************************************************************************)
EXTENDS Naturals, FiniteSets

CONSTANTS
    Requests,       \* calls of run(); an id is free again once it left no trace
    Background,     \* those whose workload is not interactive
    Processes,      \* coordinators
    MaxCapacity,    \* bound: capacities an administrator may set
    MaxVersion,     \* bound: settings changes
    NoRequest

CoordinatorAssumption ==
    /\ Background \subseteq Requests /\ NoRequest \notin Requests
    /\ MaxCapacity \in Nat \ {0} /\ MaxVersion \in Nat

VARIABLES
    version,    \* application_settings.version
    wanted,     \* the capacity these settings ask for; 0: provider not listed
    capacity,   \* inference_limits of the provider, 0 when there is no row
    due,        \* the background progress interval has passed
    slots,      \* inference_slots: an owner and whether its lease is unexpired
    queue,      \* inference_queue of the provider: the requests with a row
    ahead,      \* request -> the rows whose queued_at is earlier
    expired,    \* requests whose queue row has expired
    configured, \* settingsVersion of each coordinator
    req         \* what a caller of run() has reached

queueRows == <<queue, ahead, expired>>
vars == <<version, wanted, capacity, due, slots, queueRows, configured, req>>
db == <<version, wanted, capacity, due, configured>>

Slots == 1 .. MaxCapacity
FreeSlot == [owner |-> NoRequest, live |-> FALSE]
NewRequest == [pc |-> "new", ver |-> 0, slot |-> 0, lost |-> FALSE]

Init ==
    /\ version = 1 /\ wanted = MaxCapacity /\ capacity = 0 /\ due = FALSE
    /\ slots = [n \in Slots |-> FreeSlot]
    /\ queue = {} /\ ahead = [r \in Requests |-> {}] /\ expired = {}
    /\ configured = [p \in Processes |-> 0]
    /\ req = [r \in Requests |-> NewRequest]

Queued(r) == r \in queue
LiveQueue == queue \ expired

\* The rows in S are deleted, and with them what is known to have expired among them.
Delete(S) ==
    /\ queue' = queue \ S /\ expired' = expired \ S
    /\ ahead' = [r \in Requests |-> IF r \in S THEN {} ELSE ahead[r] \ S]
-----------------------------------------------------------------------------
(* Settings.                                                                *)

\* An administrator saves settings with another capacity, or without the provider.
ChangeSettings ==
    /\ version < MaxVersion
    /\ version' = version + 1
    /\ wanted' \in 0 .. MaxCapacity
    /\ UNCHANGED <<capacity, due, slots, queueRows, configured, req>>

NoActiveSlot == \A n \in Slots : ~slots[n].live

OneMore == wanted + 1
MaxParallelRequests == wanted

\* A process takes the current settings; older ones are refused.  A provider
\* with an active request is not removed.
Configure(p) ==
    /\ configured[p] # version
    /\ configured' = [configured EXCEPT ![p] = version]
    /\ \/ /\ wanted > 0
          /\ capacity' = MaxParallelRequests
          /\ due' = (due /\ capacity > 0)
          /\ UNCHANGED <<slots, queueRows>>
       \/ /\ wanted = 0 /\ NoActiveSlot
          /\ capacity' = 0 /\ due' = FALSE
          /\ slots' = [n \in Slots |-> FreeSlot]
          /\ Delete(queue)
    /\ UNCHANGED <<version, wanted, req>>
-----------------------------------------------------------------------------
(* The life of a request.                                                   *)

At(r, pc) == req[r].pc = pc
Goes(r, pc) == req' = [req EXCEPT ![r].pc = pc]

Enqueue(r, p) ==
    /\ At(r, "new") /\ configured[p] > 0
    /\ queue' = queue \cup {r} /\ ahead' = [ahead EXCEPT ![r] = queue]
    /\ req' = [req EXCEPT ![r] = [NewRequest EXCEPT !.pc = "waiting", !.ver = configured[p]]]
    /\ UNCHANGED <<db, slots, expired>>

\* Renewing the queue lease fails once the row is expired or gone.
RenewRow(r) ==
    /\ At(r, "waiting") /\ (~Queued(r) \/ r \in expired)
    /\ Goes(r, "leaving")
    /\ UNCHANGED <<db, slots, queueRows>>

IsFirst(r, S) == r \in S /\ ahead[r] \cap S = {}
Primary(r) ==
    IF LiveQueue \subseteq Background THEN IsFirst(r, LiveQueue)
    ELSE IsFirst(r, LiveQueue \ Background)
PrimaryOnly(r) == Primary(r)
\* readAdmissionCandidate: interactive work first, unless background work is due.
Candidate(r) ==
    IF due /\ LiveQueue \cap Background # {} THEN IsFirst(r, LiveQueue \cap Background)
    ELSE Primary(r)

Available == {n \in 1 .. capacity : ~slots[n].live}
LowestOf(S) == CHOOSE n \in S : \A k \in S : n <= k
KeepRow(r) == expired
Admitted(r) == expired \cup {r}

OnlyWithoutProvider(r) == capacity = 0
Outdated(r) == req[r].ver # version \/ capacity = 0

\* The settings changed, or the provider is gone: tryAcquire throws.
Refused(r) ==
    /\ At(r, "waiting") /\ Outdated(r)
    /\ Goes(r, "leaving")
    /\ UNCHANGED <<db, slots, queueRows>>

\* The transaction commits without admitting the request; expired rows go.
Poll(r) ==
    /\ At(r, "waiting") /\ ~Outdated(r)
    /\ Available = {} \/ ~Candidate(r)
    /\ Delete(expired)
    /\ UNCHANGED <<db, slots, req>>

\* A poll for another provider deletes the expired rows of every provider.
PurgeExpired ==
    /\ expired # {} /\ Delete(expired)
    /\ UNCHANGED <<db, slots, req>>

\* The request gets the lowest free slot; if the answer is lost the caller
\* sees an error while the slot stays taken.
Admit(r) ==
    /\ At(r, "waiting") /\ ~Outdated(r)
    /\ Available # {} /\ Candidate(r)
    /\ LET n == LowestOf(Available) IN
       /\ slots' = [slots EXCEPT ![n] = [owner |-> r, live |-> TRUE]]
       /\ \E answer \in {"running", "leaving"} :
             req' = [req EXCEPT ![r].pc = answer, ![r].slot = n]
    /\ Delete(Admitted(r))
    /\ due' = (due /\ r \notin Background)
    /\ UNCHANGED <<version, wanted, capacity, configured>>

\* The caller aborts while it waits.
AbortWaiting(r) ==
    /\ At(r, "waiting") /\ Goes(r, "leaving")
    /\ UNCHANGED <<db, slots, queueRows>>

\* removeQueuedRequest, which may fail and then leaves the row to expire.
Leave(r) ==
    /\ At(r, "leaving") /\ Goes(r, "done")
    /\ \/ Delete({r})
       \/ UNCHANGED queueRows
    /\ UNCHANGED <<db, slots>>

Owns(r) == slots[req[r].slot] = [owner |-> r, live |-> TRUE]

\* The heartbeat loses the lease: a renewal finds it expired or taken over, or no
\* renewal was confirmed before the local deadline.
LoseLease(r) ==
    /\ At(r, "running") /\ ~req[r].lost
    /\ req' = [req EXCEPT ![r].lost = TRUE]
    /\ UNCHANGED <<db, slots, queueRows>>

\* The task ends, well or not, or obeys the caller's abort or a lost lease.
EndTask(r) ==
    /\ At(r, "running") /\ Goes(r, "releasing")
    /\ UNCHANGED <<db, slots, queueRows>>

ReleasedAnyway(r) == TRUE
Releases(r) == Owns(r)

\* release(): only the owner of an unexpired lease frees its slot.  A failing
\* call leaves the slot to expire.
Release(r) ==
    /\ At(r, "releasing") /\ Goes(r, "done")
    /\ \/ Releases(r) /\ slots' = [slots EXCEPT ![req[r].slot] = FreeSlot]
       \/ UNCHANGED slots
    /\ UNCHANGED <<db, queueRows>>

\* The process of a request dies.
Crash(r) ==
    /\ ~At(r, "new") /\ ~At(r, "done") /\ Goes(r, "done")
    /\ UNCHANGED <<db, slots, queueRows>>

\* A new call takes a request id that no row mentions any more.
Again(r) ==
    /\ At(r, "done") /\ ~Queued(r) /\ \A n \in Slots : slots[n].owner # r
    /\ req' = [req EXCEPT ![r] = NewRequest]
    /\ UNCHANGED <<db, slots, queueRows>>
-----------------------------------------------------------------------------
(* Time.                                                                    *)

\* A waiting request renews its row, so only a stalled or dead one expires.
ExpireRow(r) ==
    /\ Queued(r) /\ r \notin expired /\ expired' = expired \cup {r}
    /\ UNCHANGED <<db, slots, queue, ahead, req>>
ExpireSlot(n) ==
    /\ slots[n].live /\ slots' = [slots EXCEPT ![n].live = FALSE]
    /\ UNCHANGED <<db, queueRows, req>>
BecomeDue ==
    /\ ~due /\ capacity > 0 /\ due' = TRUE
    /\ UNCHANGED <<version, wanted, capacity, slots, queueRows, configured, req>>
-----------------------------------------------------------------------------
Step(r) ==
    \/ \E p \in Processes : Enqueue(r, p)
    \/ RenewRow(r) \/ Refused(r) \/ Poll(r) \/ Admit(r) \/ AbortWaiting(r) \/ Leave(r)
    \/ LoseLease(r) \/ EndTask(r) \/ Release(r) \/ Crash(r) \/ Again(r)
Next ==
    \/ ChangeSettings \/ BecomeDue \/ PurgeExpired
    \/ \E p \in Processes : Configure(p)
    \/ \E r \in Requests : Step(r) \/ ExpireRow(r)
    \/ \E n \in Slots : ExpireSlot(n)

Spec == Init /\ [][Next]_vars

\* Polls recur and tasks end; what nobody renews expires; the interval passes.
Fairness ==
    /\ WF_vars(BecomeDue) /\ WF_vars(PurgeExpired)
    /\ \A r \in Requests :
          /\ WF_vars(RenewRow(r) \/ Refused(r)) /\ WF_vars(Admit(r)) /\ WF_vars(Leave(r))
          /\ WF_vars(EndTask(r)) /\ WF_vars(Release(r))
          /\ WF_vars(At(r, "done") /\ ExpireRow(r))
    /\ \A n \in Slots : WF_vars(slots[n].live /\ At(slots[n].owner, "done") /\ ExpireSlot(n))

FairSpec == Spec /\ Fairness
-----------------------------------------------------------------------------
(* Properties.                                                              *)

RequestRecords ==
    [pc : {"new", "waiting", "leaving", "running", "releasing", "done"},
     ver : 0 .. MaxVersion + 1, slot : 0 .. MaxCapacity, lost : BOOLEAN]

\* Type invariant: tables and callers hold values of their types.
TypeOK ==
    /\ version \in 1 .. MaxVersion + 1 /\ wanted \in 0 .. MaxCapacity
    /\ capacity \in 0 .. MaxCapacity /\ due \in BOOLEAN
    /\ slots \in [Slots -> [owner : Requests \cup {NoRequest}, live : BOOLEAN]]
    /\ expired \subseteq queue /\ queue \subseteq Requests
    /\ ahead \in [Requests -> SUBSET queue]
    /\ configured \in [Processes -> 0 .. MaxVersion + 1]
    /\ req \in [Requests -> RequestRecords]

\* A request is never admitted a second time: while a slot names it, it is not
\* in the queue, whatever answers were lost.
AdmittedOnce ==
    \A n \in Slots : slots[n].owner # NoRequest =>
       /\ ~Queued(slots[n].owner)
       /\ \A k \in Slots \ {n} : slots[k].owner # slots[n].owner

\* While a slot's lease is unexpired only its owner, releasing it, ends it: no
\* late release, no admission and no removal of the provider touches it.
SlotsAreFenced ==
    [][\A n \in Slots : slots[n].live /\ slots'[n].owner # slots[n].owner =>
          At(slots[n].owner, "releasing") /\ slots'[n] = FreeSlot]_vars

\* No more requests run at a time than the provider allows.
ParallelLimit ==
    capacity > 0 => Cardinality({r \in Requests : At(r, "running") /\ ~req[r].lost}) <= capacity

\* A background request is admitted or gives up, however many interactive
\* requests keep arriving and even if they die in the queue.
BackgroundIsServed == \A r \in Background : At(r, "waiting") ~> ~At(r, "waiting")

\* A request whose settings, provider or queue row are gone does not wait for ever.
NobodyWaitsInVain ==
    \A r \in Requests : At(r, "waiting") /\ req[r].ver # version ~> ~At(r, "waiting")
=============================================================================
