--------------------- MODULE InferenceCoordinatorProofs ---------------------
(***************************************************************************)
(* Admission of inference requests, for any requests, processes, capacity  *)
(* and number of settings changes: a request that was admitted is never    *)
(* admitted again, and a slot whose lease is unexpired is ended by its     *)
(* owner only.  The queue is where both come from: a request leaves it in  *)
(* the transaction that gives it a slot, and enters it only as a new call, *)
(* whose id no slot names.                                                 *)
(***************************************************************************)
EXTENDS InferenceCoordinator, FiniteSetTheorems, WellFoundedInduction, TLAPS

Pcs == {"new", "waiting", "leaving", "running", "releasing", "done"}
SlotRecords == [owner : Requests \cup {NoRequest}, live : BOOLEAN]

Typed ==
    /\ version \in 1 .. MaxVersion + 1 /\ wanted \in 0 .. MaxCapacity
    /\ capacity \in 0 .. MaxCapacity /\ due \in BOOLEAN
    /\ slots \in [Slots -> SlotRecords]
    /\ expired \subseteq queue /\ queue \subseteq Requests
    /\ ahead \in [Requests -> SUBSET queue]
    /\ configured \in [Processes -> 0 .. MaxVersion + 1]
    /\ req \in [Requests -> RequestRecords]

\* An owner has left the queue for good, is no new call, and owns one slot.
OwnerOK(n, S, Q, R) ==
    S[n].owner # NoRequest =>
       /\ S[n].owner \notin Q
       /\ R[S[n].owner].pc # "new"
       /\ \A k \in Slots \ {n} : S[k].owner # S[n].owner
Owned == \A n \in Slots : OwnerOK(n, slots, queue, req)

Inv == Typed /\ Owned

\* What a step may do to a slot whose lease is unexpired.
FencedStep ==
    \A n \in Slots : slots[n].live /\ slots'[n].owner # slots[n].owner =>
       At(slots[n].owner, "releasing") /\ slots'[n] = FreeSlot

StepOK == Inv' /\ FencedStep
-----------------------------------------------------------------------------
(* Slots, rows and requests.                                                *)

\* A set of slot numbers that is not empty has a lowest one.
LEMMA LowestIsIn ==
    ASSUME NEW S \in SUBSET Nat, S # {}
    PROVE  LowestOf(S) \in S
  <1> DEFINE R == OpToRel(<, Nat)
  <1>1. IsWellFoundedOn(R, Nat)
    BY NatLessThanWellFounded, Zenon
  <1>2. \A d, e \in Nat : <<e, d>> \in R <=> e < d
    BY DEF OpToRel
  <1> HIDE DEF R
  <1>3. PICK d \in S : \A e \in S : ~ (<<e, d>> \in R)
    BY <1>1, WFMin
  <1>4. \A e \in S : ~ (e < d)
    BY <1>2, <1>3, Zenon
  <1>5. \A e \in S : d <= e
    BY <1>4
  <1>6. QED
    BY <1>5, Zenon DEF LowestOf

\* Deleting rows keeps the tables of the queue in order.
LEMMA DeleteTyped ==
    ASSUME Typed, NEW S, Delete(S)
    PROVE  /\ expired' \subseteq queue' /\ queue' \subseteq queue /\ queue' \subseteq Requests
           /\ ahead' \in [Requests -> SUBSET queue']
           /\ queue' = queue \ S
  <1>1. queue' = queue \ S /\ expired' = expired \ S
    BY DEF Delete
  <1>2. ahead' \in [Requests -> SUBSET queue']
    <2>1. ahead' = [r \in Requests |-> IF r \in S THEN {} ELSE ahead[r] \ S]
      BY DEF Delete
    <2>2. \A r \in Requests : ahead[r] \subseteq queue
      BY DEF Typed
    <2>3. \A r \in Requests : (IF r \in S THEN {} ELSE ahead[r] \ S) \in SUBSET queue'
      BY <1>1, <2>2
    <2>4. QED
      BY <2>1, <2>3
  <1>3. QED
    BY <1>1, <1>2 DEF Typed

\* A candidate waits in the queue.
LEMMA CandidateIsQueued ==
    ASSUME NEW r, Candidate(r)
    PROVE  r \in queue
  BY DEF Candidate, Primary, IsFirst, LiveQueue

\* A request that moves on keeps its type, and only its own record changes.
LEMMA GoesTyped ==
    ASSUME Typed, NEW r \in Requests, NEW pc \in Pcs, Goes(r, pc)
    PROVE  /\ req' \in [Requests -> RequestRecords]
           /\ req'[r].pc = pc
           /\ \A q \in Requests \ {r} : req'[q] = req[q]
  <1>1. req \in [Requests -> RequestRecords] /\ req' = [req EXCEPT ![r].pc = pc]
    BY DEF Typed, Goes
  <1>2. [req[r] EXCEPT !.pc = pc] \in RequestRecords
    BY <1>1 DEF RequestRecords, Pcs
  <1>3. [req[r] EXCEPT !.pc = pc].pc = pc
    BY <1>1 DEF RequestRecords
  <1>4. req' = [req EXCEPT ![r] = [req[r] EXCEPT !.pc = pc]]
    BY <1>1, Zenon
  <1>5. QED
    BY <1>1, <1>2, <1>3, <1>4

\* A step that leaves the slots alone, adds no row, and makes no call new again.
LEMMA QuietStep ==
    ASSUME Inv, Typed', slots' = slots, queue' \subseteq queue,
           \A q \in Requests : req[q].pc # "new" => req'[q].pc # "new"
    PROVE  StepOK
  <1>1. Owned'
    <2>1. SUFFICES ASSUME NEW n \in Slots
                   PROVE  OwnerOK(n, slots', queue', req')
      BY DEF Owned
    <2>2. slots[n].owner \in Requests \cup {NoRequest}
      BY DEF Inv, Typed, SlotRecords
    <2>3. OwnerOK(n, slots, queue, req)
      BY DEF Inv, Owned
    <2>4. QED
      BY <2>2, <2>3 DEF OwnerOK
  <1>2. FencedStep
    BY DEF FencedStep
  <1>3. QED
    BY <1>1, <1>2 DEF StepOK, Inv

\* A step of one request that touches neither the slots nor the settings, and that
\* may only delete rows.
LEMMA MoveStep ==
    ASSUME Inv, NEW r \in Requests, NEW pc \in Pcs \ {"new"}, Goes(r, pc),
           UNCHANGED <<db, slots>>,
           UNCHANGED queueRows \/ \E S : Delete(S)
    PROVE  StepOK
  <1>1. Typed
    BY DEF Inv
  <1>2. /\ req' \in [Requests -> RequestRecords] /\ req'[r].pc = pc
        /\ \A q \in Requests \ {r} : req'[q] = req[q]
    BY <1>1, GoesTyped
  <1>3. /\ expired' \subseteq queue' /\ queue' \subseteq queue /\ queue' \subseteq Requests
        /\ ahead' \in [Requests -> SUBSET queue']
    BY <1>1, DeleteTyped DEF queueRows, Typed
  <1>4. Typed'
    BY <1>1, <1>2, <1>3 DEF Typed, db
  <1>5. \A q \in Requests : req[q].pc # "new" => req'[q].pc # "new"
    BY <1>2
  <1>6. QED
    BY <1>3, <1>4, <1>5, QuietStep
-----------------------------------------------------------------------------
(* The initial state and the settings.                                      *)

LEMMA InitInv ==
    ASSUME CoordinatorAssumption, Init
    PROVE  Inv
  <1>1. MaxCapacity \in Nat /\ MaxCapacity >= 1 /\ MaxVersion \in Nat
    BY DEF CoordinatorAssumption
  <1>2. version \in 1 .. MaxVersion + 1 /\ wanted \in 0 .. MaxCapacity /\ capacity \in 0 .. MaxCapacity
    BY <1>1 DEF Init
  <1>3. slots \in [Slots -> SlotRecords] /\ \A n \in Slots : slots[n].owner = NoRequest
    BY DEF Init, SlotRecords, FreeSlot
  <1>4. NewRequest \in RequestRecords
    BY <1>1 DEF NewRequest, RequestRecords
  <1>5. req \in [Requests -> RequestRecords]
    BY <1>4 DEF Init
  <1>6. configured \in [Processes -> 0 .. MaxVersion + 1]
    BY <1>1 DEF Init
  <1>7. Typed
    BY <1>2, <1>3, <1>5, <1>6 DEF Init, Typed
  <1>8. Owned
    BY <1>3 DEF Owned, OwnerOK
  <1>9. QED
    BY <1>7, <1>8 DEF Inv

LEMMA ChangeSettingsOK ==
    ASSUME CoordinatorAssumption, Inv, ChangeSettings
    PROVE  StepOK
  <1>1. version' \in 1 .. MaxVersion + 1
    BY DEF CoordinatorAssumption, ChangeSettings, Inv, Typed
  <1>2. Typed'
    BY <1>1 DEF ChangeSettings, Inv, Typed, queueRows
  <1>3. slots' = slots /\ queue' = queue /\ req' = req
    BY DEF ChangeSettings, queueRows
  <1>4. QED
    BY <1>2, <1>3, QuietStep

\* A provider is removed only when none of its slots is live.
LEMMA ConfigureOK ==
    ASSUME CoordinatorAssumption, Inv, NEW p \in Processes, Configure(p)
    PROVE  StepOK
  <1>1. /\ version' = version /\ wanted' = wanted /\ req' = req
        /\ configured' = [configured EXCEPT ![p] = version]
    BY DEF Configure
  <1>2. configured' \in [Processes -> 0 .. MaxVersion + 1]
    BY <1>1 DEF CoordinatorAssumption, Inv, Typed
  <1>3. CASE wanted > 0 /\ capacity' = MaxParallelRequests /\ due' = (due /\ capacity > 0)
             /\ UNCHANGED <<slots, queueRows>>
    <2>1. capacity' \in 0 .. MaxCapacity /\ due' \in BOOLEAN
      BY <1>3 DEF MaxParallelRequests, Inv, Typed
    <2>2. slots' = slots /\ queue' = queue /\ ahead' = ahead /\ expired' = expired
      BY <1>3 DEF queueRows
    <2>3. Typed'
      BY <1>1, <1>2, <2>1, <2>2 DEF Inv, Typed
    <2>4. QED
      BY <1>1, <2>2, <2>3, QuietStep
  <1>4. CASE wanted = 0 /\ NoActiveSlot /\ capacity' = 0 /\ due' = FALSE
             /\ slots' = [n \in Slots |-> FreeSlot] /\ Delete(queue)
    <2>1. capacity' \in 0 .. MaxCapacity
      BY <1>4 DEF CoordinatorAssumption
    <2>2. slots' \in [Slots -> SlotRecords] /\ \A n \in Slots : slots'[n].owner = NoRequest
      BY <1>4 DEF SlotRecords, FreeSlot
    <2>3. Typed'
      BY <1>1, <1>2, <1>4, <2>1, <2>2, DeleteTyped DEF Inv, Typed
    <2>4. Owned'
      BY <2>2 DEF Owned, OwnerOK
    <2>5. FencedStep
      <3>1. \A n \in Slots : ~slots[n].live
        BY <1>4 DEF NoActiveSlot
      <3>2. DOMAIN slots = Slots
        BY DEF Inv, Typed
      <3>3. QED
        BY <3>1 DEF FencedStep
    <2>6. QED
      BY <2>3, <2>4, <2>5 DEF StepOK, Inv
  <1>5. QED
    BY <1>3, <1>4 DEF Configure
-----------------------------------------------------------------------------
(* The life of a request.                                                   *)

\* A new call owns no slot, so its row may enter the queue.
LEMMA EnqueueOK ==
    ASSUME CoordinatorAssumption, Inv, NEW r \in Requests, NEW p \in Processes, Enqueue(r, p)
    PROVE  StepOK
  <1> DEFINE Waiting == [NewRequest EXCEPT !.pc = "waiting", !.ver = configured[p]]
  <1>1. /\ req[r].pc = "new" /\ slots' = slots /\ expired' = expired
        /\ queue' = queue \cup {r} /\ ahead' = [ahead EXCEPT ![r] = queue]
        /\ req' = [req EXCEPT ![r] = Waiting]
        /\ UNCHANGED <<version, wanted, capacity, due, configured>>
    BY DEF Enqueue, At, db
  <1>2. configured[p] \in 0 .. MaxVersion + 1 /\ MaxCapacity \in Nat
    BY DEF Inv, Typed, CoordinatorAssumption
  <1>3. Waiting \in RequestRecords /\ Waiting.pc = "waiting"
    <2>1. NewRequest \in RequestRecords /\ configured[p] \in 0 .. MaxVersion + 1
      BY <1>2 DEF NewRequest, RequestRecords, CoordinatorAssumption
    <2>2. QED
      BY <2>1 DEF RequestRecords
  <1> HIDE DEF Waiting
  <1>4. req' \in [Requests -> RequestRecords]
    BY <1>1, <1>3 DEF Inv, Typed
  <1>5. ahead' \in [Requests -> SUBSET queue'] /\ expired' \subseteq queue' /\ queue' \subseteq Requests
    BY <1>1 DEF Inv, Typed
  <1>6. Typed'
    BY <1>1, <1>4, <1>5 DEF Inv, Typed
  <1>7. Owned'
    <2>1. SUFFICES ASSUME NEW n \in Slots
                   PROVE  OwnerOK(n, slots', queue', req')
      BY DEF Owned
    <2>2. OwnerOK(n, slots, queue, req) /\ slots[n].owner \in Requests \cup {NoRequest}
      BY DEF Inv, Owned, Typed, SlotRecords
    <2>3. CASE slots[n].owner = NoRequest
      BY <1>1, <2>3 DEF OwnerOK
    <2>4. CASE slots[n].owner # NoRequest
      <3>1. slots[n].owner # r
        BY <1>1, <2>2, <2>4 DEF OwnerOK
      <3>2. req'[slots[n].owner] = req[slots[n].owner]
        BY <1>1, <2>2, <2>4, <3>1 DEF Inv, Typed
      <3>3. QED
        BY <1>1, <2>2, <3>1, <3>2 DEF OwnerOK
    <2>5. QED
      BY <2>3, <2>4
  <1>8. FencedStep
    BY <1>1 DEF FencedStep
  <1>9. QED
    BY <1>6, <1>7, <1>8 DEF StepOK, Inv

\* Whoever deletes the expired rows.
LEMMA PurgeStep ==
    ASSUME Inv, UNCHANGED <<db, slots, req>>, Delete(expired)
    PROVE  StepOK
  <1>1. UNCHANGED <<db, slots, req>> /\ Delete(expired)
    OBVIOUS
  <1>2. Typed'
    BY <1>1, DeleteTyped DEF Inv, Typed, db
  <1>3. queue' \subseteq queue
    BY <1>1, DeleteTyped DEF Inv
  <1>4. QED
    BY <1>1, <1>2, <1>3, QuietStep

\* The candidate is still in the queue, so no slot names it; its new slot is not live.
LEMMA AdmitOK ==
    ASSUME CoordinatorAssumption, Inv, NEW r \in Requests, Admit(r)
    PROVE  StepOK
  <1> DEFINE n == LowestOf(Available)
  <1> DEFINE Taken == [owner |-> r, live |-> TRUE]
  <1>1. n \in Slots /\ n \in 0 .. MaxCapacity /\ ~slots[n].live
    <2>1. Available \in SUBSET Nat /\ Available # {}
      BY DEF Available, Admit, Inv, Typed
    <2>2. n \in Available
      BY <2>1, LowestIsIn
    <2>3. QED
      BY <2>2 DEF Available, Slots, Inv, Typed, CoordinatorAssumption
  <1>2. /\ slots' = [slots EXCEPT ![n] = Taken]
        /\ Delete(expired \cup {r}) /\ r \in queue
        /\ due' = (due /\ r \notin Background)
        /\ UNCHANGED <<version, wanted, capacity, configured>>
    BY CandidateIsQueued DEF Admit, Admitted
  <1>3. PICK answer \in {"running", "leaving"} :
           req' = [req EXCEPT ![r].pc = answer, ![r].slot = n]
    BY DEF Admit
  <1> HIDE DEF n
  <1> DEFINE Served == [req[r] EXCEPT !.pc = answer, !.slot = n]
  <1>4. Served \in RequestRecords /\ Served.pc = answer
    <2>1. req[r] \in RequestRecords
      BY DEF Inv, Typed
    <2>2. QED
      BY <1>1, <2>1 DEF RequestRecords
  <1>5. req' = [req EXCEPT ![r] = Served]
    BY <1>3, Zenon
  <1> HIDE DEF Served
  <1>6. req' \in [Requests -> RequestRecords] /\ req'[r].pc # "new"
        /\ \A q \in Requests \ {r} : req'[q] = req[q]
    BY <1>4, <1>5 DEF Inv, Typed
  <1>7. slots' \in [Slots -> SlotRecords] /\ slots'[n].owner = r
        /\ \A k \in Slots \ {n} : slots'[k] = slots[k]
    <2>1. Taken \in SlotRecords /\ Taken.owner = r
      BY DEF SlotRecords
    <2>2. QED
      BY <1>1, <1>2, <2>1 DEF Inv, Typed
  <1>8. Typed'
    BY <1>2, <1>6, <1>7, DeleteTyped DEF Inv, Typed
  <1>9. Owned'
    <2>1. queue' \subseteq queue /\ r \notin queue'
      BY <1>2, DeleteTyped DEF Inv
    <2>2. \A k \in Slots : slots[k].owner # r /\ slots[k].owner \in Requests \cup {NoRequest}
      BY <1>2 DEF Inv, Owned, OwnerOK, Typed, SlotRecords, CoordinatorAssumption
    <2>3. SUFFICES ASSUME NEW k \in Slots
                   PROVE  OwnerOK(k, slots', queue', req')
      BY DEF Owned
    <2>4. CASE k = n
      BY <1>6, <1>7, <2>1, <2>2, <2>4 DEF OwnerOK
    <2>5. CASE k # n
      <3>1. OwnerOK(k, slots, queue, req)
        BY DEF Inv, Owned
      <3>2. slots'[k] = slots[k]
        BY <1>7, <2>5
      <3>3. QED
        BY <1>6, <1>7, <2>1, <2>2, <3>1, <3>2 DEF OwnerOK
    <2>6. QED
      BY <2>4, <2>5
  <1>10. FencedStep
    BY <1>1, <1>7 DEF FencedStep
  <1>11. QED
    BY <1>8, <1>9, <1>10 DEF StepOK, Inv

\* Renewals that fail, refusals, aborts and the ends of tasks move the caller only;
\* leaving may delete its row.
LEMMA MoveOK ==
    ASSUME Inv, NEW r \in Requests,
           \/ RenewRow(r) \/ Refused(r) \/ AbortWaiting(r)
           \/ Leave(r) \/ EndTask(r) \/ Crash(r)
    PROVE  StepOK
  <1>1. CASE RenewRow(r) \/ Refused(r) \/ AbortWaiting(r)
    <2>1. Goes(r, "leaving") /\ UNCHANGED <<db, slots, queueRows>>
      BY <1>1 DEF RenewRow, Refused, AbortWaiting
    <2>2. "leaving" \in Pcs \ {"new"}
      BY DEF Pcs
    <2>3. QED
      BY <2>1, <2>2, MoveStep
  <1>2. CASE Leave(r)
    <2>1. Goes(r, "done") /\ UNCHANGED <<db, slots>> /\ (UNCHANGED queueRows \/ Delete({r}))
      BY <1>2 DEF Leave
    <2>2. "done" \in Pcs \ {"new"}
      BY DEF Pcs
    <2>3. QED
      BY <2>1, <2>2, MoveStep
  <1>3. CASE EndTask(r)
    <2>1. Goes(r, "releasing") /\ UNCHANGED <<db, slots, queueRows>>
      BY <1>3 DEF EndTask
    <2>2. "releasing" \in Pcs \ {"new"}
      BY DEF Pcs
    <2>3. QED
      BY <2>1, <2>2, MoveStep
  <1>4. CASE Crash(r)
    <2>1. Goes(r, "done") /\ UNCHANGED <<db, slots, queueRows>>
      BY <1>4 DEF Crash
    <2>2. "done" \in Pcs \ {"new"}
      BY DEF Pcs
    <2>3. QED
      BY <2>1, <2>2, MoveStep
  <1>5. QED
    BY <1>1, <1>2, <1>3, <1>4

LEMMA LoseLeaseOK ==
    ASSUME Inv, NEW r \in Requests, LoseLease(r)
    PROVE  StepOK
  <1>1. req' = [req EXCEPT ![r].lost = TRUE] /\ UNCHANGED <<db, slots, queueRows>>
    BY DEF LoseLease
  <1> DEFINE Lost == [req[r] EXCEPT !.lost = TRUE]
  <1>2. Lost \in RequestRecords /\ Lost.pc = req[r].pc
    BY DEF Inv, Typed, RequestRecords
  <1>3. req' = [req EXCEPT ![r] = Lost]
    BY <1>1, Zenon
  <1> HIDE DEF Lost
  <1>4. req' \in [Requests -> RequestRecords] /\ \A q \in Requests : req'[q].pc = req[q].pc
    BY <1>2, <1>3 DEF Inv, Typed
  <1>5. Typed' /\ queue' = queue
    BY <1>1, <1>4 DEF Inv, Typed, db, queueRows
  <1>6. QED
    BY <1>1, <1>4, <1>5, QuietStep

\* release() frees the slot of its own unexpired lease.
LEMMA ReleaseOK ==
    ASSUME Inv, NEW r \in Requests, Release(r)
    PROVE  StepOK
  <1>1. Goes(r, "done") /\ At(r, "releasing") /\ UNCHANGED <<db, queueRows>>
    BY DEF Release
  <1>2. "done" \in Pcs \ {"new"}
    BY DEF Pcs
  <1>3. CASE UNCHANGED slots
    BY <1>1, <1>2, <1>3, MoveStep
  <1>4. CASE Owns(r) /\ slots' = [slots EXCEPT ![req[r].slot] = FreeSlot]
    <2> DEFINE n == req[r].slot
    <2>1. FreeSlot \in SlotRecords /\ FreeSlot.owner = NoRequest
      BY DEF FreeSlot, SlotRecords
    <2>2. slots' \in [Slots -> SlotRecords]
      BY <1>4, <2>1 DEF Inv, Typed
    <2>3. \A k \in Slots : slots'[k] = (IF k = n THEN FreeSlot ELSE slots[k])
      BY <1>4 DEF Inv, Typed
    <2>4. /\ req' \in [Requests -> RequestRecords] /\ req'[r].pc = "done"
          /\ \A q \in Requests \ {r} : req'[q] = req[q]
      BY <1>1, <1>2, GoesTyped DEF Inv
    <2>5. Typed' /\ queue' = queue
      BY <1>1, <2>2, <2>4 DEF Inv, Typed, db, queueRows
    <2>6. Owned'
      <3>1. SUFFICES ASSUME NEW k \in Slots
                     PROVE  OwnerOK(k, slots', queue', req')
        BY DEF Owned
      <3>2. OwnerOK(k, slots, queue, req) /\ slots[k].owner \in Requests \cup {NoRequest}
        BY DEF Inv, Owned, Typed, SlotRecords
      <3>3. \A q \in Requests : req[q].pc # "new" => req'[q].pc # "new"
        BY <2>4
      <3>4. QED
        BY <2>1, <2>3, <2>5, <3>2, <3>3 DEF OwnerOK
    <2>7. FencedStep
      <3>1. SUFFICES ASSUME NEW k \in Slots, slots[k].live, slots'[k].owner # slots[k].owner
                     PROVE  At(slots[k].owner, "releasing") /\ slots'[k] = FreeSlot
        BY DEF FencedStep
      <3>2. k = n /\ slots'[k] = FreeSlot
        BY <2>3, <3>1
      <3>3. slots[k].owner = r
        BY <1>4, <3>2 DEF Owns
      <3>4. QED
        BY <1>1, <3>2, <3>3
    <2>8. QED
      BY <2>5, <2>6, <2>7 DEF StepOK, Inv
  <1>5. QED
    BY <1>3, <1>4 DEF Release, Releases

\* An id is free for a new call once no slot names it.
LEMMA AgainOK ==
    ASSUME CoordinatorAssumption, Inv, NEW r \in Requests, Again(r)
    PROVE  StepOK
  <1>1. /\ req' = [req EXCEPT ![r] = NewRequest] /\ UNCHANGED <<db, slots, queueRows>>
        /\ \A n \in Slots : slots[n].owner # r
    BY DEF Again
  <1>2. NewRequest \in RequestRecords
    BY DEF CoordinatorAssumption, NewRequest, RequestRecords
  <1>3. req' \in [Requests -> RequestRecords] /\ \A q \in Requests \ {r} : req'[q] = req[q]
    BY <1>1, <1>2 DEF Inv, Typed
  <1>4. Typed' /\ slots' = slots /\ queue' = queue
    BY <1>1, <1>3 DEF Inv, Typed, db, queueRows
  <1>5. Owned'
    <2>1. SUFFICES ASSUME NEW n \in Slots
                   PROVE  OwnerOK(n, slots', queue', req')
      BY DEF Owned
    <2>2. OwnerOK(n, slots, queue, req) /\ slots[n].owner \in Requests \cup {NoRequest}
      BY DEF Inv, Owned, Typed, SlotRecords
    <2>3. QED
      BY <1>1, <1>3, <1>4, <2>2 DEF OwnerOK
  <1>6. FencedStep
    BY <1>4 DEF FencedStep
  <1>7. QED
    BY <1>4, <1>5, <1>6 DEF StepOK, Inv
-----------------------------------------------------------------------------
(* Time.                                                                    *)

LEMMA ExpireRowOK ==
    ASSUME Inv, NEW r \in Requests, ExpireRow(r)
    PROVE  StepOK
  <1>1. r \in queue /\ expired' = expired \cup {r} /\ UNCHANGED <<db, slots, queue, ahead, req>>
    BY DEF ExpireRow, Queued
  <1>2. Typed'
    BY <1>1 DEF Inv, Typed, db
  <1>3. QED
    BY <1>1, <1>2, QuietStep

\* A slot that expires keeps its owner.
LEMMA ExpireSlotOK ==
    ASSUME Inv, NEW n \in Slots, ExpireSlot(n)
    PROVE  StepOK
  <1>1. slots' = [slots EXCEPT ![n].live = FALSE] /\ UNCHANGED <<db, queueRows, req>>
    BY DEF ExpireSlot
  <1> DEFINE Expired == [slots[n] EXCEPT !.live = FALSE]
  <1>2. Expired \in SlotRecords /\ Expired.owner = slots[n].owner
    BY DEF Inv, Typed, SlotRecords
  <1>3. slots' = [slots EXCEPT ![n] = Expired]
    BY <1>1, Zenon
  <1> HIDE DEF Expired
  <1>4. slots' \in [Slots -> SlotRecords] /\ \A k \in Slots : slots'[k].owner = slots[k].owner
    BY <1>2, <1>3 DEF Inv, Typed
  <1>5. Typed' /\ queue' = queue /\ req' = req
    BY <1>1, <1>4 DEF Inv, Typed, db, queueRows
  <1>6. Owned'
    BY <1>4, <1>5 DEF Inv, Owned, OwnerOK
  <1>7. FencedStep
    BY <1>4 DEF FencedStep
  <1>8. QED
    BY <1>5, <1>6, <1>7 DEF StepOK, Inv

LEMMA BecomeDueOK ==
    ASSUME Inv, BecomeDue
    PROVE  StepOK
  <1>1. Typed' /\ slots' = slots /\ queue' = queue /\ req' = req
    BY DEF BecomeDue, queueRows, Inv, Typed
  <1>2. QED
    BY <1>1, QuietStep

LEMMA StutterOK ==
    ASSUME Inv, UNCHANGED vars
    PROVE  StepOK
  <1>1. Typed' /\ slots' = slots /\ queue' = queue /\ req' = req
    BY DEF vars, queueRows, Inv, Typed
  <1>2. QED
    BY <1>1, QuietStep

LEMMA EveryStepOK ==
    ASSUME CoordinatorAssumption, Inv, [Next]_vars
    PROVE  StepOK
  <1>1. CASE ChangeSettings
    BY <1>1, ChangeSettingsOK
  <1>2. CASE BecomeDue
    BY <1>2, BecomeDueOK
  <1>3. CASE PurgeExpired
    BY <1>3, PurgeStep DEF PurgeExpired
  <1>4. CASE \E p \in Processes : Configure(p)
    BY <1>4, ConfigureOK
  <1>5. ASSUME NEW r \in Requests, Step(r)
        PROVE  StepOK
    <2>1. CASE \E p \in Processes : Enqueue(r, p)
      BY <2>1, EnqueueOK
    <2>2. CASE Poll(r)
      BY <2>2, PurgeStep DEF Poll
    <2>3. CASE Admit(r)
      BY <2>3, AdmitOK
    <2>4. CASE LoseLease(r)
      BY <2>4, LoseLeaseOK
    <2>5. CASE Release(r)
      BY <2>5, ReleaseOK
    <2>6. CASE Again(r)
      BY <2>6, AgainOK
    <2>7. QED
      BY <1>5, <2>1, <2>2, <2>3, <2>4, <2>5, <2>6, MoveOK DEF Step
  <1>6. CASE \E r \in Requests : ExpireRow(r)
    BY <1>6, ExpireRowOK
  <1>7. CASE \E n \in Slots : ExpireSlot(n)
    BY <1>7, ExpireSlotOK
  <1>8. CASE UNCHANGED vars
    BY <1>8, StutterOK
  <1>9. QED
    BY <1>1, <1>2, <1>3, <1>4, <1>5, <1>6, <1>7, <1>8 DEF Next
-----------------------------------------------------------------------------
(* The theorems.                                                            *)

\* Type correctness of the tables and the callers.
THEOREM TypeCorrect ==
    ASSUME CoordinatorAssumption
    PROVE  Spec => []TypeOK
  <1>1. Init => Inv
    BY InitInv
  <1>2. Inv /\ [Next]_vars => Inv'
    BY EveryStepOK DEF StepOK
  <1>3. Inv => TypeOK
    BY DEF Inv, Typed, TypeOK, SlotRecords
  <1>4. QED
    BY <1>1, <1>2, <1>3, PTL DEF Spec

\* A request is never admitted a second time, whatever answers are lost, leases
\* expire and callers crash: the slot that names it is the only one, and its row
\* has left the queue.
THEOREM RequestsAreAdmittedOnce ==
    ASSUME CoordinatorAssumption
    PROVE  Spec => []AdmittedOnce
  <1>1. Init => Inv
    BY InitInv
  <1>2. Inv /\ [Next]_vars => Inv'
    BY EveryStepOK DEF StepOK
  <1>3. Inv => AdmittedOnce
    BY DEF Inv, Owned, OwnerOK, AdmittedOnce, Queued
  <1>4. QED
    BY <1>1, <1>2, <1>3, PTL DEF Spec

\* A slot whose lease is unexpired changes hands in no step, and is freed by the
\* release of its owner only: not by a late release, not by the next admission, not
\* by the removal of its provider.
THEOREM LiveSlotsAreFenced ==
    ASSUME CoordinatorAssumption
    PROVE  Spec => SlotsAreFenced
  <1>1. Init => Inv
    BY InitInv
  <1>2. Inv /\ [Next]_vars => Inv'
    BY EveryStepOK DEF StepOK
  <1>3. Inv /\ [Next]_vars => [FencedStep]_vars
    BY EveryStepOK DEF StepOK
  <1>4. QED
    BY <1>1, <1>2, <1>3, PTL DEF Spec, FencedStep, SlotsAreFenced
-----------------------------------------------------------------------------
(* The dispatcher of a worker process (WorkerDispatch), for any jobs,     *)
(* services, settings and faults.  A job that is claimed has a task, the   *)
(* tasks and what reports their end are counted (Tasked, Worked), and what *)
(* the dispatcher goes on with was read after the last revision.           *)

CONSTANTS Jobs, Assigned, Services, NoService, Concurrency, MaxFaults, MaxOutages
VARIABLES job, service, settings, processor, pending, dispatcher, claim, delayed, task, ending,
          registry, migration, retention, worker, aborted, unseen, missed, faults, outages

Dispatch == INSTANCE WorkerDispatch

Channels == {"jobs", "settings"}
ClaimsUnderWay ==
    [at : {"plain", "demand", "probe", "docling"}, verify : BOOLEAN,
     wanted : SUBSET (Services \cup {NoService}), available : SUBSET Services, probeFailed : BOOLEAN]

DispatchTyped ==
    /\ job \in [Jobs -> {"absent", "due", "claimed", "over"}]
    /\ service \in [up : SUBSET Services, failed : SUBSET Services]
    /\ settings \in Dispatch!Versions /\ processor \in Dispatch!Versions /\ pending \subseteq Channels
    /\ dispatcher \in [at : Dispatch!Points, once : BOOLEAN, read : Dispatch!Versions, wake : SUBSET Channels]
    /\ IF dispatcher.at = "claiming" THEN claim \in ClaimsUnderWay ELSE claim = Dispatch!NoClaim
    /\ delayed \in BOOLEAN /\ task \in [Jobs -> {"none", "starting", "working"}]
    /\ ending \in Nat /\ registry \in Nat
    /\ migration \in {"polling", "working", "ended", "failed"}
    /\ retention \in [closed : BOOLEAN, running : BOOLEAN, timer : BOOLEAN]
    /\ worker \in {"up", "closing", "closed"} /\ aborted \in BOOLEAN /\ missed \in BOOLEAN
    /\ unseen \subseteq Jobs /\ faults \in Nat /\ outages \in Nat

\* A dispatcher that was told of everything has read what it goes on with: the settings
\* before it claims, the queue before it rests.
ReadsFirst ==
    pending = {} /\ ~missed =>
        /\ dispatcher.at \in {"install", "installAgain"} => dispatcher.read = settings
        /\ \/ dispatcher.at \in {"claims", "claiming", "again"}
           \/ dispatcher.at = "wait" /\ dispatcher.wake = {}
           => processor = settings
        /\ claim.at = "demand" => unseen \subseteq Dispatch!DoclingJobs
        /\ claim.at \in {"probe", "docling"} \/ dispatcher.at = "again" => unseen = {}
        /\ dispatcher.at = "wait" /\ dispatcher.wake = {} => Dispatch!Full \/ unseen = {}

\* A dispatcher that has nothing to wait for has no task.
RestsAlone == dispatcher.at \in {"again", "returned"} => Dispatch!Active = 0

\* A loop ends early only by a failure, and without one the worker ends after both.
EndsInOrder ==
    /\ dispatcher.at = "failed" \/ migration = "failed" => faults # 0
    /\ worker # "up" => retention.closed /\ ~retention.timer
    /\ worker = "closed" => ~retention.running
    /\ worker # "up" /\ faults = 0 => dispatcher.at = "returned" /\ migration = "ended"

TaskAt == {"none", "starting", "working"}
Tasked(t) == Cardinality({j \in Jobs : t[j] # "none"})
Worked(t) == Cardinality({j \in Jobs : t[j] = "working"})

\* Dispatch!CountsItsTasks in these terms.
Counted ==
    LET working == Worked(task) + ending + (IF migration = "working" THEN 1 ELSE 0)
    IN registry >= working /\ (faults = 0 => registry = working)

\* A task holds the claim of its job.
TasksHoldClaims == \A j \in Jobs : task[j] # "none" => job[j] = "claimed"

DispatchInv ==
    /\ DispatchTyped /\ ReadsFirst /\ RestsAlone /\ EndsInOrder
    /\ Dispatch!ClaimedIsHeld /\ TasksHoldClaims /\ Counted

DispatchFinite == Dispatch!DispatchAssumption /\ IsFiniteSet(Jobs)

LEMMA DispatchCardinality ==
    ASSUME NEW S
    PROVE  Dispatch!Cardinality(S) = Cardinality(S)
  BY DEF Dispatch!Cardinality, Cardinality

LEMMA ActiveIs ==
    /\ Dispatch!Active = Tasked(task) + ending
    /\ Dispatch!Active' = Tasked(task') + ending'
  BY DispatchCardinality DEF Dispatch!Active, Tasked

LEMMA LargerOfTwo ==
    ASSUME NEW n \in Int
    PROVE  Dispatch!Max({0, n}) = IF n > 0 THEN n ELSE 0
  <1>1. PICK m \in {0, n} : \A y \in {0, n} : m >= y
    <2>1. CASE n > 0
      BY <2>1
    <2>2. CASE ~(n > 0)
      BY <2>2
    <2>3. QED
      BY <2>1, <2>2
  <1>2. Dispatch!Max({0, n}) \in {0, n} /\ \A y \in {0, n} : Dispatch!Max({0, n}) >= y
    BY <1>1 DEF Dispatch!Max
  <1>3. QED
    BY <1>2

LEMMA TaskCounts ==
    ASSUME IsFiniteSet(Jobs), NEW t
    PROVE  Tasked(t) \in Nat /\ Worked(t) \in Nat
  <1>1. IsFiniteSet({j \in Jobs : t[j] # "none"}) /\ IsFiniteSet({j \in Jobs : t[j] = "working"})
    BY FS_Subset
  <1>2. QED
    BY <1>1, FS_CardinalityType DEF Tasked, Worked

\* A set that gains or loses one element counts one more or less.
LEMMA CountsOne ==
    ASSUME NEW S, NEW T, NEW e, IsFiniteSet(S), T \ {e} = S \ {e}
    PROVE  /\ (e \in S <=> e \in T) => Cardinality(T) = Cardinality(S)
           /\ e \notin S /\ e \in T => Cardinality(T) = Cardinality(S) + 1
           /\ e \in S /\ e \notin T => Cardinality(T) = Cardinality(S) - 1
  <1>1. CASE T = S
    BY <1>1
  <1>2. CASE e \notin S /\ e \in T
    <2>1. T = S \cup {e}
      BY <1>2
    <2>2. QED
      BY <1>2, <2>1, FS_AddElement
  <1>3. CASE e \in S /\ e \notin T
    <2>1. T = S \ {e}
      BY <1>3
    <2>2. QED
      BY <1>3, <2>1, FS_RemoveElement
  <1>4. QED
    BY <1>1, <1>2, <1>3

LEMMA Recounted ==
    ASSUME IsFiniteSet(Jobs), NEW t \in [Jobs -> TaskAt], NEW j \in Jobs, NEW x \in TaskAt
    PROVE  /\ Tasked([t EXCEPT ![j] = x]) =
                Tasked(t) + (IF x = "none" THEN 0 ELSE 1) - (IF t[j] = "none" THEN 0 ELSE 1)
           /\ Worked([t EXCEPT ![j] = x]) =
                Worked(t) + (IF x = "working" THEN 1 ELSE 0) - (IF t[j] = "working" THEN 1 ELSE 0)
  <1> DEFINE u == [t EXCEPT ![j] = x]
             Busy(v) == {k \in Jobs : v[k] # "none"}
             Works(v) == {k \in Jobs : v[k] = "working"}
  <1>1. \A k \in Jobs : u[k] = IF k = j THEN x ELSE t[k]
    OBVIOUS
  <1>2. IsFiniteSet(Busy(t)) /\ IsFiniteSet(Works(t))
    BY FS_Subset
  <1>3. /\ Busy(u) \ {j} = Busy(t) \ {j} /\ (j \in Busy(t) <=> t[j] # "none") /\ (j \in Busy(u) <=> x # "none")
        /\ Works(u) \ {j} = Works(t) \ {j} /\ (j \in Works(t) <=> t[j] = "working")
        /\ (j \in Works(u) <=> x = "working")
    BY <1>1
  <1>4. Tasked(t) \in Nat /\ Worked(t) \in Nat
    BY TaskCounts
  <1>5. Tasked(u) = Cardinality(Busy(u)) /\ Tasked(t) = Cardinality(Busy(t))
    BY DEF Tasked
  <1>6. Worked(u) = Cardinality(Works(u)) /\ Worked(t) = Cardinality(Works(t))
    BY DEF Worked
  <1> HIDE DEF u, Busy, Works
  <1>7. Tasked(u) = Tasked(t) + (IF x = "none" THEN 0 ELSE 1) - (IF t[j] = "none" THEN 0 ELSE 1)
    <2>1. /\ (j \in Busy(t) <=> j \in Busy(u)) => Cardinality(Busy(u)) = Cardinality(Busy(t))
          /\ j \notin Busy(t) /\ j \in Busy(u) => Cardinality(Busy(u)) = Cardinality(Busy(t)) + 1
          /\ j \in Busy(t) /\ j \notin Busy(u) => Cardinality(Busy(u)) = Cardinality(Busy(t)) - 1
      BY <1>2, <1>3, CountsOne
    <2>2. QED
      BY <1>3, <1>4, <1>5, <2>1
  <1>8. Worked(u) = Worked(t) + (IF x = "working" THEN 1 ELSE 0) - (IF t[j] = "working" THEN 1 ELSE 0)
    <2>1. /\ (j \in Works(t) <=> j \in Works(u)) => Cardinality(Works(u)) = Cardinality(Works(t))
          /\ j \notin Works(t) /\ j \in Works(u) => Cardinality(Works(u)) = Cardinality(Works(t)) + 1
          /\ j \in Works(t) /\ j \notin Works(u) => Cardinality(Works(u)) = Cardinality(Works(t)) - 1
      BY <1>2, <1>3, CountsOne
    <2>2. QED
      BY <1>3, <1>4, <1>6, <2>1
  <1>9. QED
    BY <1>7, <1>8 DEF u

LEMMA DispatchEnqueue ==
    ASSUME DispatchFinite, DispatchInv, NEW j \in Jobs, Dispatch!Enqueue(j)
    PROVE  DispatchInv'
  <1>1. /\ Tasked(task) \in Nat /\ Worked(task) \in Nat /\ Tasked(task') \in Nat /\ Worked(task') \in Nat
        /\ Dispatch!Active = Tasked(task) + ending /\ Dispatch!Active' = Tasked(task') + ending'
    BY TaskCounts, ActiveIs DEF DispatchFinite
  <1> USE <1>1
  <1>2. DispatchTyped'
    <2>1. job' \in [Jobs -> {"absent", "due", "claimed", "over"}] /\ unseen' \subseteq Jobs
      BY DEF Dispatch!Enqueue, Dispatch!Announce, Dispatch!Told, Dispatch!others,
             Dispatch!bounds, DispatchInv, DispatchTyped, Dispatch!Versions, Channels,
             Dispatch!Points, ClaimsUnderWay, Dispatch!NoClaim
    <2>2. service' \in [up : SUBSET Services, failed : SUBSET Services]
      BY DEF Dispatch!Enqueue, Dispatch!Announce, Dispatch!Told, Dispatch!others,
             Dispatch!bounds, DispatchInv, DispatchTyped, Dispatch!Versions, Channels,
             Dispatch!Points, ClaimsUnderWay, Dispatch!NoClaim
    <2>3. settings' \in Dispatch!Versions /\ processor' \in Dispatch!Versions /\ pending' \subseteq Channels
      BY DEF Dispatch!Enqueue, Dispatch!Announce, Dispatch!Told, Dispatch!others,
             Dispatch!bounds, DispatchInv, DispatchTyped, Dispatch!Versions, Channels,
             Dispatch!Points, ClaimsUnderWay, Dispatch!NoClaim
    <2>4. dispatcher' \in [at : Dispatch!Points, once : BOOLEAN, read : Dispatch!Versions, wake : SUBSET Channels]
      BY DEF Dispatch!Enqueue, Dispatch!Announce, Dispatch!Told, Dispatch!others,
             Dispatch!bounds, DispatchInv, DispatchTyped, Dispatch!Versions, Channels,
             Dispatch!Points, ClaimsUnderWay, Dispatch!NoClaim
    <2>5. IF dispatcher'.at = "claiming" THEN claim' \in ClaimsUnderWay ELSE claim' = Dispatch!NoClaim
      BY DEF Dispatch!Enqueue, Dispatch!Announce, Dispatch!Told, Dispatch!others,
             Dispatch!bounds, DispatchInv, DispatchTyped, Dispatch!Versions, Channels,
             Dispatch!Points, ClaimsUnderWay, Dispatch!NoClaim
    <2>6. task' \in [Jobs -> {"none", "starting", "working"}] /\ delayed' \in BOOLEAN
      BY DEF Dispatch!Enqueue, Dispatch!Announce, Dispatch!Told, Dispatch!others,
             Dispatch!bounds, DispatchInv, DispatchTyped, Dispatch!Versions, Channels,
             Dispatch!Points, ClaimsUnderWay, Dispatch!NoClaim
    <2>7. ending' \in Nat /\ registry' \in Nat /\ faults' \in Nat /\ outages' \in Nat
      BY DEF Dispatch!Enqueue, Dispatch!Announce, Dispatch!Told, Dispatch!others,
             Dispatch!bounds, DispatchInv, DispatchTyped, Dispatch!Versions, Channels,
             Dispatch!Points, ClaimsUnderWay, Dispatch!NoClaim
    <2>8. /\ migration' \in {"polling", "working", "ended", "failed"}
          /\ retention' \in [closed : BOOLEAN, running : BOOLEAN, timer : BOOLEAN]
          /\ worker' \in {"up", "closing", "closed"} /\ aborted' \in BOOLEAN /\ missed' \in BOOLEAN
      BY DEF Dispatch!Enqueue, Dispatch!Announce, Dispatch!Told, Dispatch!others,
             Dispatch!bounds, DispatchInv, DispatchTyped, Dispatch!Versions, Channels,
             Dispatch!Points, ClaimsUnderWay, Dispatch!NoClaim
    <2>9. QED
      BY <2>1, <2>2, <2>3, <2>4, <2>5, <2>6, <2>7, <2>8 DEF DispatchTyped
  <1>3. ReadsFirst'
    BY DEF Dispatch!Enqueue, Dispatch!Announce, Dispatch!Told, Dispatch!others, Dispatch!bounds,
           DispatchInv, ReadsFirst, Dispatch!Full, Dispatch!NoClaim
  <1>4. RestsAlone'
    BY DEF Dispatch!Enqueue, Dispatch!Announce, Dispatch!Told, Dispatch!others, Dispatch!bounds,
           DispatchInv, RestsAlone, Dispatch!NoClaim
  <1>5. EndsInOrder'
    BY DEF Dispatch!Enqueue, Dispatch!Announce, Dispatch!Told, Dispatch!others, Dispatch!bounds,
           DispatchInv, EndsInOrder, Dispatch!NoClaim
  <1>6. Dispatch!ClaimedIsHeld'
    BY DEF Dispatch!Enqueue, Dispatch!Announce, Dispatch!Told, Dispatch!others, Dispatch!bounds,
           DispatchInv, Dispatch!ClaimedIsHeld, Dispatch!NoClaim
  <1>7. Counted'
    BY DEF Dispatch!Enqueue, Dispatch!Announce, Dispatch!Told, Dispatch!others, Dispatch!bounds,
           DispatchInv, Counted, Dispatch!NoClaim
  <1>8. TasksHoldClaims'
    BY DEF Dispatch!Enqueue, Dispatch!Announce, Dispatch!Told, Dispatch!others, Dispatch!bounds,
           DispatchInv, TasksHoldClaims, Dispatch!NoClaim
  <1>9. QED
    BY <1>2, <1>3, <1>4, <1>5, <1>6, <1>7, <1>8 DEF DispatchInv

LEMMA DispatchLeaseExpires ==
    ASSUME DispatchFinite, DispatchInv, NEW j \in Jobs, Dispatch!LeaseExpires(j)
    PROVE  DispatchInv'
  <1>1. /\ Tasked(task) \in Nat /\ Worked(task) \in Nat /\ Tasked(task') \in Nat /\ Worked(task') \in Nat
        /\ Dispatch!Active = Tasked(task) + ending /\ Dispatch!Active' = Tasked(task') + ending'
    BY TaskCounts, ActiveIs DEF DispatchFinite
  <1> USE <1>1
  <1>2. DispatchTyped'
    BY DEF Dispatch!LeaseExpires, Dispatch!others, Dispatch!bounds, DispatchInv, DispatchTyped,
           Dispatch!NoClaim
  <1>3. ReadsFirst'
    BY DEF Dispatch!LeaseExpires, Dispatch!others, Dispatch!bounds, DispatchInv, ReadsFirst,
           Dispatch!Full, Dispatch!NoClaim
  <1>4. RestsAlone'
    BY DEF Dispatch!LeaseExpires, Dispatch!others, Dispatch!bounds, DispatchInv, RestsAlone,
           Dispatch!NoClaim
  <1>5. EndsInOrder'
    BY DEF Dispatch!LeaseExpires, Dispatch!others, Dispatch!bounds, DispatchInv, EndsInOrder,
           Dispatch!NoClaim
  <1>6. Dispatch!ClaimedIsHeld'
    BY DEF Dispatch!LeaseExpires, Dispatch!others, Dispatch!bounds, DispatchInv,
           Dispatch!ClaimedIsHeld, Dispatch!NoClaim
  <1>7. Counted'
    BY DEF Dispatch!LeaseExpires, Dispatch!others, Dispatch!bounds, DispatchInv, Counted,
           Dispatch!NoClaim
  <1>8. TasksHoldClaims'
    BY DEF Dispatch!LeaseExpires, Dispatch!others, Dispatch!bounds, DispatchInv,
           TasksHoldClaims, Dispatch!NoClaim
  <1>9. QED
    BY <1>2, <1>3, <1>4, <1>5, <1>6, <1>7, <1>8 DEF DispatchInv

LEMMA DispatchTakenElsewhere ==
    ASSUME DispatchFinite, DispatchInv, NEW j \in Jobs, Dispatch!TakenElsewhere(j)
    PROVE  DispatchInv'
  <1>1. /\ Tasked(task) \in Nat /\ Worked(task) \in Nat /\ Tasked(task') \in Nat /\ Worked(task') \in Nat
        /\ Dispatch!Active = Tasked(task) + ending /\ Dispatch!Active' = Tasked(task') + ending'
    BY TaskCounts, ActiveIs DEF DispatchFinite
  <1> USE <1>1
  <1>2. DispatchTyped'
    BY DEF Dispatch!TakenElsewhere, Dispatch!Told, Dispatch!others, Dispatch!bounds,
           DispatchInv, DispatchTyped, Dispatch!Versions, Channels, Dispatch!Points,
           ClaimsUnderWay, Dispatch!NoClaim
  <1>3. ReadsFirst'
    BY DEF Dispatch!TakenElsewhere, Dispatch!Told, Dispatch!others, Dispatch!bounds,
           DispatchInv, ReadsFirst, Dispatch!Full, Dispatch!NoClaim
  <1>4. RestsAlone'
    BY DEF Dispatch!TakenElsewhere, Dispatch!Told, Dispatch!others, Dispatch!bounds,
           DispatchInv, RestsAlone, Dispatch!NoClaim
  <1>5. EndsInOrder'
    BY DEF Dispatch!TakenElsewhere, Dispatch!Told, Dispatch!others, Dispatch!bounds,
           DispatchInv, EndsInOrder, Dispatch!NoClaim
  <1>6. Dispatch!ClaimedIsHeld'
    BY DEF Dispatch!TakenElsewhere, Dispatch!Told, Dispatch!others, Dispatch!bounds,
           DispatchInv, Dispatch!ClaimedIsHeld, Dispatch!NoClaim
  <1>7. Counted'
    BY DEF Dispatch!TakenElsewhere, Dispatch!Told, Dispatch!others, Dispatch!bounds,
           DispatchInv, Counted, Dispatch!NoClaim
  <1>8. TasksHoldClaims'
    BY DEF Dispatch!TakenElsewhere, Dispatch!Told, Dispatch!others, Dispatch!bounds,
           DispatchInv, TasksHoldClaims, Dispatch!NoClaim
  <1>9. QED
    BY <1>2, <1>3, <1>4, <1>5, <1>6, <1>7, <1>8 DEF DispatchInv

LEMMA DispatchSaveSettings ==
    ASSUME DispatchFinite, DispatchInv, Dispatch!SaveSettings
    PROVE  DispatchInv'
  <1>1. /\ Tasked(task) \in Nat /\ Worked(task) \in Nat /\ Tasked(task') \in Nat /\ Worked(task') \in Nat
        /\ Dispatch!Active = Tasked(task) + ending /\ Dispatch!Active' = Tasked(task') + ending'
    BY TaskCounts, ActiveIs DEF DispatchFinite
  <1> USE <1>1
  <1>2. DispatchTyped'
    <2>1. job' \in [Jobs -> {"absent", "due", "claimed", "over"}] /\ unseen' \subseteq Jobs
      BY DEF Dispatch!SaveSettings, Dispatch!Versions, Dispatch!Announce, Dispatch!Told,
             Dispatch!others, Dispatch!bounds, DispatchInv, DispatchTyped, Channels,
             Dispatch!Points, ClaimsUnderWay, Dispatch!NoClaim
    <2>2. service' \in [up : SUBSET Services, failed : SUBSET Services]
      BY DEF Dispatch!SaveSettings, Dispatch!Versions, Dispatch!Announce, Dispatch!Told,
             Dispatch!others, Dispatch!bounds, DispatchInv, DispatchTyped, Channels,
             Dispatch!Points, ClaimsUnderWay, Dispatch!NoClaim
    <2>3. settings' \in Dispatch!Versions /\ processor' \in Dispatch!Versions /\ pending' \subseteq Channels
      BY DEF Dispatch!SaveSettings, Dispatch!Versions, Dispatch!Announce, Dispatch!Told,
             Dispatch!others, Dispatch!bounds, DispatchInv, DispatchTyped, Channels,
             Dispatch!Points, ClaimsUnderWay, Dispatch!NoClaim
    <2>4. dispatcher' \in [at : Dispatch!Points, once : BOOLEAN, read : Dispatch!Versions, wake : SUBSET Channels]
      BY DEF Dispatch!SaveSettings, Dispatch!Versions, Dispatch!Announce, Dispatch!Told,
             Dispatch!others, Dispatch!bounds, DispatchInv, DispatchTyped, Channels,
             Dispatch!Points, ClaimsUnderWay, Dispatch!NoClaim
    <2>5. IF dispatcher'.at = "claiming" THEN claim' \in ClaimsUnderWay ELSE claim' = Dispatch!NoClaim
      BY DEF Dispatch!SaveSettings, Dispatch!Versions, Dispatch!Announce, Dispatch!Told,
             Dispatch!others, Dispatch!bounds, DispatchInv, DispatchTyped, Channels,
             Dispatch!Points, ClaimsUnderWay, Dispatch!NoClaim
    <2>6. task' \in [Jobs -> {"none", "starting", "working"}] /\ delayed' \in BOOLEAN
      BY DEF Dispatch!SaveSettings, Dispatch!Versions, Dispatch!Announce, Dispatch!Told,
             Dispatch!others, Dispatch!bounds, DispatchInv, DispatchTyped, Channels,
             Dispatch!Points, ClaimsUnderWay, Dispatch!NoClaim
    <2>7. ending' \in Nat /\ registry' \in Nat /\ faults' \in Nat /\ outages' \in Nat
      BY DEF Dispatch!SaveSettings, Dispatch!Versions, Dispatch!Announce, Dispatch!Told,
             Dispatch!others, Dispatch!bounds, DispatchInv, DispatchTyped, Channels,
             Dispatch!Points, ClaimsUnderWay, Dispatch!NoClaim
    <2>8. /\ migration' \in {"polling", "working", "ended", "failed"}
          /\ retention' \in [closed : BOOLEAN, running : BOOLEAN, timer : BOOLEAN]
          /\ worker' \in {"up", "closing", "closed"} /\ aborted' \in BOOLEAN /\ missed' \in BOOLEAN
      BY DEF Dispatch!SaveSettings, Dispatch!Versions, Dispatch!Announce, Dispatch!Told,
             Dispatch!others, Dispatch!bounds, DispatchInv, DispatchTyped, Channels,
             Dispatch!Points, ClaimsUnderWay, Dispatch!NoClaim
    <2>9. QED
      BY <2>1, <2>2, <2>3, <2>4, <2>5, <2>6, <2>7, <2>8 DEF DispatchTyped
  <1>3. ReadsFirst'
    BY DEF Dispatch!SaveSettings, Dispatch!Announce, Dispatch!Told, Dispatch!others,
           Dispatch!bounds, DispatchInv, ReadsFirst, Dispatch!Full, Dispatch!NoClaim
  <1>4. RestsAlone'
    BY DEF Dispatch!SaveSettings, Dispatch!Announce, Dispatch!Told, Dispatch!others,
           Dispatch!bounds, DispatchInv, RestsAlone, Dispatch!NoClaim
  <1>5. EndsInOrder'
    BY DEF Dispatch!SaveSettings, Dispatch!Announce, Dispatch!Told, Dispatch!others,
           Dispatch!bounds, DispatchInv, EndsInOrder, Dispatch!NoClaim
  <1>6. Dispatch!ClaimedIsHeld'
    BY DEF Dispatch!SaveSettings, Dispatch!Announce, Dispatch!Told, Dispatch!others,
           Dispatch!bounds, DispatchInv, Dispatch!ClaimedIsHeld, Dispatch!NoClaim
  <1>7. Counted'
    BY DEF Dispatch!SaveSettings, Dispatch!Announce, Dispatch!Told, Dispatch!others,
           Dispatch!bounds, DispatchInv, Counted, Dispatch!NoClaim
  <1>8. TasksHoldClaims'
    BY DEF Dispatch!SaveSettings, Dispatch!Announce, Dispatch!Told, Dispatch!others,
           Dispatch!bounds, DispatchInv, TasksHoldClaims, Dispatch!NoClaim
  <1>9. QED
    BY <1>2, <1>3, <1>4, <1>5, <1>6, <1>7, <1>8 DEF DispatchInv

LEMMA DispatchOutage ==
    ASSUME DispatchFinite, DispatchInv, NEW s \in Services, Dispatch!Outage(s)
    PROVE  DispatchInv'
  <1>1. /\ Tasked(task) \in Nat /\ Worked(task) \in Nat /\ Tasked(task') \in Nat /\ Worked(task') \in Nat
        /\ Dispatch!Active = Tasked(task) + ending /\ Dispatch!Active' = Tasked(task') + ending'
    BY TaskCounts, ActiveIs DEF DispatchFinite
  <1> USE <1>1
  <1>2. DispatchTyped'
    <2>1. job' \in [Jobs -> {"absent", "due", "claimed", "over"}] /\ unseen' \subseteq Jobs
      BY DEF Dispatch!Outage, Dispatch!others, DispatchInv, DispatchTyped, Dispatch!Versions,
             Channels, Dispatch!Points, ClaimsUnderWay, Dispatch!NoClaim, Dispatch!SymDiff
    <2>2. service' \in [up : SUBSET Services, failed : SUBSET Services]
      BY DEF Dispatch!Outage, Dispatch!others, DispatchInv, DispatchTyped, Dispatch!Versions,
             Channels, Dispatch!Points, ClaimsUnderWay, Dispatch!NoClaim, Dispatch!SymDiff
    <2>3. settings' \in Dispatch!Versions /\ processor' \in Dispatch!Versions /\ pending' \subseteq Channels
      BY DEF Dispatch!Outage, Dispatch!others, DispatchInv, DispatchTyped, Dispatch!Versions,
             Channels, Dispatch!Points, ClaimsUnderWay, Dispatch!NoClaim, Dispatch!SymDiff
    <2>4. dispatcher' \in [at : Dispatch!Points, once : BOOLEAN, read : Dispatch!Versions, wake : SUBSET Channels]
      BY DEF Dispatch!Outage, Dispatch!others, DispatchInv, DispatchTyped, Dispatch!Versions,
             Channels, Dispatch!Points, ClaimsUnderWay, Dispatch!NoClaim, Dispatch!SymDiff
    <2>5. IF dispatcher'.at = "claiming" THEN claim' \in ClaimsUnderWay ELSE claim' = Dispatch!NoClaim
      BY DEF Dispatch!Outage, Dispatch!others, DispatchInv, DispatchTyped, Dispatch!Versions,
             Channels, Dispatch!Points, ClaimsUnderWay, Dispatch!NoClaim, Dispatch!SymDiff
    <2>6. task' \in [Jobs -> {"none", "starting", "working"}] /\ delayed' \in BOOLEAN
      BY DEF Dispatch!Outage, Dispatch!others, DispatchInv, DispatchTyped, Dispatch!Versions,
             Channels, Dispatch!Points, ClaimsUnderWay, Dispatch!NoClaim, Dispatch!SymDiff
    <2>7. ending' \in Nat /\ registry' \in Nat /\ faults' \in Nat /\ outages' \in Nat
      BY DEF Dispatch!Outage, Dispatch!others, DispatchInv, DispatchTyped, Dispatch!Versions,
             Channels, Dispatch!Points, ClaimsUnderWay, Dispatch!NoClaim, Dispatch!SymDiff
    <2>8. /\ migration' \in {"polling", "working", "ended", "failed"}
          /\ retention' \in [closed : BOOLEAN, running : BOOLEAN, timer : BOOLEAN]
          /\ worker' \in {"up", "closing", "closed"} /\ aborted' \in BOOLEAN /\ missed' \in BOOLEAN
      BY DEF Dispatch!Outage, Dispatch!others, DispatchInv, DispatchTyped, Dispatch!Versions,
             Channels, Dispatch!Points, ClaimsUnderWay, Dispatch!NoClaim, Dispatch!SymDiff
    <2>9. QED
      BY <2>1, <2>2, <2>3, <2>4, <2>5, <2>6, <2>7, <2>8 DEF DispatchTyped
  <1>3. ReadsFirst'
    BY DEF Dispatch!Outage, Dispatch!others, DispatchInv, ReadsFirst, Dispatch!Full,
           Dispatch!NoClaim
  <1>4. RestsAlone'
    BY DEF Dispatch!Outage, Dispatch!others, DispatchInv, RestsAlone, Dispatch!NoClaim
  <1>5. EndsInOrder'
    BY DEF Dispatch!Outage, Dispatch!others, DispatchInv, EndsInOrder, Dispatch!NoClaim
  <1>6. Dispatch!ClaimedIsHeld'
    BY DEF Dispatch!Outage, Dispatch!others, DispatchInv, Dispatch!ClaimedIsHeld,
           Dispatch!NoClaim
  <1>7. Counted'
    BY DEF Dispatch!Outage, Dispatch!others, DispatchInv, Counted, Dispatch!NoClaim
  <1>8. TasksHoldClaims'
    BY DEF Dispatch!Outage, Dispatch!others, DispatchInv, TasksHoldClaims, Dispatch!NoClaim
  <1>9. QED
    BY <1>2, <1>3, <1>4, <1>5, <1>6, <1>7, <1>8 DEF DispatchInv

LEMMA DispatchDelayEnds ==
    ASSUME DispatchFinite, DispatchInv, Dispatch!DelayEnds
    PROVE  DispatchInv'
  <1>1. /\ Tasked(task) \in Nat /\ Worked(task) \in Nat /\ Tasked(task') \in Nat /\ Worked(task') \in Nat
        /\ Dispatch!Active = Tasked(task) + ending /\ Dispatch!Active' = Tasked(task') + ending'
    BY TaskCounts, ActiveIs DEF DispatchFinite
  <1> USE <1>1
  <1>2. DispatchTyped'
    BY DEF Dispatch!DelayEnds, Dispatch!database, Dispatch!others, Dispatch!bounds, DispatchInv,
           DispatchTyped, Dispatch!NoClaim
  <1>3. ReadsFirst'
    BY DEF Dispatch!DelayEnds, Dispatch!database, Dispatch!others, Dispatch!bounds, DispatchInv,
           ReadsFirst, Dispatch!Full, Dispatch!NoClaim
  <1>4. RestsAlone'
    BY DEF Dispatch!DelayEnds, Dispatch!database, Dispatch!others, Dispatch!bounds, DispatchInv,
           RestsAlone, Dispatch!NoClaim
  <1>5. EndsInOrder'
    BY DEF Dispatch!DelayEnds, Dispatch!database, Dispatch!others, Dispatch!bounds, DispatchInv,
           EndsInOrder, Dispatch!NoClaim
  <1>6. Dispatch!ClaimedIsHeld'
    BY DEF Dispatch!DelayEnds, Dispatch!database, Dispatch!others, Dispatch!bounds, DispatchInv,
           Dispatch!ClaimedIsHeld, Dispatch!NoClaim
  <1>7. Counted'
    BY DEF Dispatch!DelayEnds, Dispatch!database, Dispatch!others, Dispatch!bounds, DispatchInv,
           Counted, Dispatch!NoClaim
  <1>8. TasksHoldClaims'
    BY DEF Dispatch!DelayEnds, Dispatch!database, Dispatch!others, Dispatch!bounds, DispatchInv,
           TasksHoldClaims, Dispatch!NoClaim
  <1>9. QED
    BY <1>2, <1>3, <1>4, <1>5, <1>6, <1>7, <1>8 DEF DispatchInv

LEMMA DispatchAbort ==
    ASSUME DispatchFinite, DispatchInv, Dispatch!Abort
    PROVE  DispatchInv'
  <1>1. /\ Tasked(task) \in Nat /\ Worked(task) \in Nat /\ Tasked(task') \in Nat /\ Worked(task') \in Nat
        /\ Dispatch!Active = Tasked(task) + ending /\ Dispatch!Active' = Tasked(task') + ending'
    BY TaskCounts, ActiveIs DEF DispatchFinite
  <1> USE <1>1
  <1>2. DispatchTyped'
    BY DEF Dispatch!Abort, Dispatch!Beside, Dispatch!database, Dispatch!bounds, DispatchInv,
           DispatchTyped, Dispatch!NoClaim
  <1>3. ReadsFirst'
    BY DEF Dispatch!Abort, Dispatch!Beside, Dispatch!database, Dispatch!bounds, DispatchInv,
           ReadsFirst, Dispatch!Full, Dispatch!NoClaim
  <1>4. RestsAlone'
    BY DEF Dispatch!Abort, Dispatch!Beside, Dispatch!database, Dispatch!bounds, DispatchInv,
           RestsAlone, Dispatch!NoClaim
  <1>5. EndsInOrder'
    BY DEF Dispatch!Abort, Dispatch!Beside, Dispatch!database, Dispatch!bounds, DispatchInv,
           EndsInOrder, Dispatch!NoClaim
  <1>6. Dispatch!ClaimedIsHeld'
    BY DEF Dispatch!Abort, Dispatch!Beside, Dispatch!database, Dispatch!bounds, DispatchInv,
           Dispatch!ClaimedIsHeld, Dispatch!NoClaim
  <1>7. Counted'
    BY DEF Dispatch!Abort, Dispatch!Beside, Dispatch!database, Dispatch!bounds, DispatchInv,
           Counted, Dispatch!NoClaim
  <1>8. TasksHoldClaims'
    BY DEF Dispatch!Abort, Dispatch!Beside, Dispatch!database, Dispatch!bounds, DispatchInv,
           TasksHoldClaims, Dispatch!NoClaim
  <1>9. QED
    BY <1>2, <1>3, <1>4, <1>5, <1>6, <1>7, <1>8 DEF DispatchInv

LEMMA DispatchRefresh ==
    ASSUME DispatchFinite, DispatchInv, Dispatch!Refresh
    PROVE  DispatchInv'
  <1>1. /\ Tasked(task) \in Nat /\ Worked(task) \in Nat /\ Tasked(task') \in Nat /\ Worked(task') \in Nat
        /\ Dispatch!Active = Tasked(task) + ending /\ Dispatch!Active' = Tasked(task') + ending'
    BY TaskCounts, ActiveIs DEF DispatchFinite
  <1> USE <1>1
  <1>2. DispatchTyped'
    BY DEF Dispatch!Refresh, Dispatch!Open, Dispatch!At, Dispatch!database, Dispatch!others,
           Dispatch!bounds, DispatchInv, DispatchTyped, Dispatch!Versions, Channels,
           Dispatch!Points, ClaimsUnderWay, Dispatch!NoClaim
  <1>3. ReadsFirst'
    BY DEF Dispatch!Refresh, Dispatch!Open, Dispatch!At, Dispatch!database, Dispatch!others,
           Dispatch!bounds, DispatchInv, ReadsFirst, Dispatch!Full, Dispatch!NoClaim
  <1>4. RestsAlone'
    BY DEF Dispatch!Refresh, Dispatch!Open, Dispatch!At, Dispatch!database, Dispatch!others,
           Dispatch!bounds, DispatchInv, RestsAlone, Dispatch!NoClaim
  <1>5. EndsInOrder'
    BY DEF Dispatch!Refresh, Dispatch!Open, Dispatch!At, Dispatch!database, Dispatch!others,
           Dispatch!bounds, DispatchInv, EndsInOrder, Dispatch!NoClaim
  <1>6. Dispatch!ClaimedIsHeld'
    BY DEF Dispatch!Refresh, Dispatch!Open, Dispatch!At, Dispatch!database, Dispatch!others,
           Dispatch!bounds, DispatchInv, Dispatch!ClaimedIsHeld, Dispatch!NoClaim
  <1>7. Counted'
    BY DEF Dispatch!Refresh, Dispatch!Open, Dispatch!At, Dispatch!database, Dispatch!others,
           Dispatch!bounds, DispatchInv, Counted, Dispatch!NoClaim
  <1>8. TasksHoldClaims'
    BY DEF Dispatch!Refresh, Dispatch!Open, Dispatch!At, Dispatch!database, Dispatch!others,
           Dispatch!bounds, DispatchInv, TasksHoldClaims, Dispatch!NoClaim
  <1>9. QED
    BY <1>2, <1>3, <1>4, <1>5, <1>6, <1>7, <1>8 DEF DispatchInv

LEMMA DispatchInstall ==
    ASSUME DispatchFinite, DispatchInv, Dispatch!Install
    PROVE  DispatchInv'
  <1>1. /\ Tasked(task) \in Nat /\ Worked(task) \in Nat /\ Tasked(task') \in Nat /\ Worked(task') \in Nat
        /\ Dispatch!Active = Tasked(task) + ending /\ Dispatch!Active' = Tasked(task') + ending'
    BY TaskCounts, ActiveIs DEF DispatchFinite
  <1> USE <1>1
  <1>2. DispatchTyped'
    BY DEF Dispatch!Install, Dispatch!Open, Dispatch!At, Dispatch!database, Dispatch!others,
           Dispatch!bounds, DispatchInv, DispatchTyped, Dispatch!Versions, Channels,
           Dispatch!Points, ClaimsUnderWay, Dispatch!NoClaim
  <1>3. ReadsFirst'
    BY DEF Dispatch!Install, Dispatch!Open, Dispatch!At, Dispatch!database, Dispatch!others,
           Dispatch!bounds, DispatchInv, ReadsFirst, Dispatch!Full, Dispatch!NoClaim
  <1>4. RestsAlone'
    BY DEF Dispatch!Install, Dispatch!Open, Dispatch!At, Dispatch!database, Dispatch!others,
           Dispatch!bounds, DispatchInv, RestsAlone, Dispatch!NoClaim
  <1>5. EndsInOrder'
    BY DEF Dispatch!Install, Dispatch!Open, Dispatch!At, Dispatch!database, Dispatch!others,
           Dispatch!bounds, DispatchInv, EndsInOrder, Dispatch!NoClaim
  <1>6. Dispatch!ClaimedIsHeld'
    BY DEF Dispatch!Install, Dispatch!Open, Dispatch!At, Dispatch!database, Dispatch!others,
           Dispatch!bounds, DispatchInv, Dispatch!ClaimedIsHeld, Dispatch!NoClaim
  <1>7. Counted'
    BY DEF Dispatch!Install, Dispatch!Open, Dispatch!At, Dispatch!database, Dispatch!others,
           Dispatch!bounds, DispatchInv, Counted, Dispatch!NoClaim
  <1>8. TasksHoldClaims'
    BY DEF Dispatch!Install, Dispatch!Open, Dispatch!At, Dispatch!database, Dispatch!others,
           Dispatch!bounds, DispatchInv, TasksHoldClaims, Dispatch!NoClaim
  <1>9. QED
    BY <1>2, <1>3, <1>4, <1>5, <1>6, <1>7, <1>8 DEF DispatchInv

LEMMA DispatchClaimNext ==
    ASSUME DispatchFinite, DispatchInv, Dispatch!ClaimNext
    PROVE  DispatchInv'
  <1>1. /\ Tasked(task) \in Nat /\ Worked(task) \in Nat /\ Tasked(task') \in Nat /\ Worked(task') \in Nat
        /\ Dispatch!Active = Tasked(task) + ending /\ Dispatch!Active' = Tasked(task') + ending'
    BY TaskCounts, ActiveIs DEF DispatchFinite
  <1> USE <1>1
  <1>2. DispatchTyped'
    <2>1. job' \in [Jobs -> {"absent", "due", "claimed", "over"}] /\ unseen' \subseteq Jobs
      BY DEF Dispatch!ClaimNext, Dispatch!At, Dispatch!Goes, Dispatch!NoClaim,
             Dispatch!database, Dispatch!others, Dispatch!bounds, DispatchInv, DispatchTyped,
             Dispatch!Versions, Channels, Dispatch!Points, ClaimsUnderWay
    <2>2. service' \in [up : SUBSET Services, failed : SUBSET Services]
      BY DEF Dispatch!ClaimNext, Dispatch!At, Dispatch!Goes, Dispatch!NoClaim,
             Dispatch!database, Dispatch!others, Dispatch!bounds, DispatchInv, DispatchTyped,
             Dispatch!Versions, Channels, Dispatch!Points, ClaimsUnderWay
    <2>3. settings' \in Dispatch!Versions /\ processor' \in Dispatch!Versions /\ pending' \subseteq Channels
      BY DEF Dispatch!ClaimNext, Dispatch!At, Dispatch!Goes, Dispatch!NoClaim,
             Dispatch!database, Dispatch!others, Dispatch!bounds, DispatchInv, DispatchTyped,
             Dispatch!Versions, Channels, Dispatch!Points, ClaimsUnderWay
    <2>4. dispatcher' \in [at : Dispatch!Points, once : BOOLEAN, read : Dispatch!Versions, wake : SUBSET Channels]
      BY DEF Dispatch!ClaimNext, Dispatch!At, Dispatch!Goes, Dispatch!NoClaim,
             Dispatch!database, Dispatch!others, Dispatch!bounds, DispatchInv, DispatchTyped,
             Dispatch!Versions, Channels, Dispatch!Points, ClaimsUnderWay
    <2>5. IF dispatcher'.at = "claiming" THEN claim' \in ClaimsUnderWay ELSE claim' = Dispatch!NoClaim
      BY DEF Dispatch!ClaimNext, Dispatch!At, Dispatch!Goes, Dispatch!NoClaim,
             Dispatch!database, Dispatch!others, Dispatch!bounds, DispatchInv, DispatchTyped,
             Dispatch!Versions, Channels, Dispatch!Points, ClaimsUnderWay
    <2>6. task' \in [Jobs -> {"none", "starting", "working"}] /\ delayed' \in BOOLEAN
      BY DEF Dispatch!ClaimNext, Dispatch!At, Dispatch!Goes, Dispatch!NoClaim,
             Dispatch!database, Dispatch!others, Dispatch!bounds, DispatchInv, DispatchTyped,
             Dispatch!Versions, Channels, Dispatch!Points, ClaimsUnderWay
    <2>7. ending' \in Nat /\ registry' \in Nat /\ faults' \in Nat /\ outages' \in Nat
      BY DEF Dispatch!ClaimNext, Dispatch!At, Dispatch!Goes, Dispatch!NoClaim,
             Dispatch!database, Dispatch!others, Dispatch!bounds, DispatchInv, DispatchTyped,
             Dispatch!Versions, Channels, Dispatch!Points, ClaimsUnderWay
    <2>8. /\ migration' \in {"polling", "working", "ended", "failed"}
          /\ retention' \in [closed : BOOLEAN, running : BOOLEAN, timer : BOOLEAN]
          /\ worker' \in {"up", "closing", "closed"} /\ aborted' \in BOOLEAN /\ missed' \in BOOLEAN
      BY DEF Dispatch!ClaimNext, Dispatch!At, Dispatch!Goes, Dispatch!NoClaim,
             Dispatch!database, Dispatch!others, Dispatch!bounds, DispatchInv, DispatchTyped,
             Dispatch!Versions, Channels, Dispatch!Points, ClaimsUnderWay
    <2>9. QED
      BY <2>1, <2>2, <2>3, <2>4, <2>5, <2>6, <2>7, <2>8 DEF DispatchTyped
  <1>3. ReadsFirst'
    <2>1. Dispatch!Full => Dispatch!Active > 0
      BY DEF DispatchInv, DispatchTyped, DispatchFinite, Dispatch!DispatchAssumption, Dispatch!Full,
             Dispatch!Versions
    <2>2. QED
      BY <2>1 DEF DispatchInv, ReadsFirst, DispatchTyped, Dispatch!ClaimNext, Dispatch!At, Dispatch!Goes,
             Dispatch!NoClaim, Dispatch!database, Dispatch!others, Dispatch!bounds, Dispatch!Full, Dispatch!Versions
  <1>4. RestsAlone'
    BY DEF Dispatch!ClaimNext, Dispatch!At, Dispatch!Goes, Dispatch!NoClaim, Dispatch!database,
           Dispatch!others, Dispatch!bounds, DispatchInv, RestsAlone, DispatchTyped
  <1>5. EndsInOrder'
    BY DEF Dispatch!ClaimNext, Dispatch!At, Dispatch!Goes, Dispatch!NoClaim, Dispatch!database,
           Dispatch!others, Dispatch!bounds, DispatchInv, EndsInOrder, DispatchTyped
  <1>6. Dispatch!ClaimedIsHeld'
    BY DEF Dispatch!ClaimNext, Dispatch!At, Dispatch!Goes, Dispatch!NoClaim, Dispatch!database,
           Dispatch!others, Dispatch!bounds, DispatchInv, Dispatch!ClaimedIsHeld
  <1>7. Counted'
    BY DEF Dispatch!ClaimNext, Dispatch!At, Dispatch!Goes, Dispatch!NoClaim, Dispatch!database,
           Dispatch!others, Dispatch!bounds, DispatchInv, Counted
  <1>8. TasksHoldClaims'
    BY DEF Dispatch!ClaimNext, Dispatch!At, Dispatch!Goes, Dispatch!NoClaim, Dispatch!database,
           Dispatch!others, Dispatch!bounds, DispatchInv, TasksHoldClaims
  <1>9. QED
    BY <1>2, <1>3, <1>4, <1>5, <1>6, <1>7, <1>8 DEF DispatchInv

LEMMA DispatchTakeRevisions ==
    ASSUME DispatchFinite, DispatchInv, Dispatch!TakeRevisions
    PROVE  DispatchInv'
  <1>1. /\ Tasked(task) \in Nat /\ Worked(task) \in Nat /\ Tasked(task') \in Nat /\ Worked(task') \in Nat
        /\ Dispatch!Active = Tasked(task) + ending /\ Dispatch!Active' = Tasked(task') + ending'
    BY TaskCounts, ActiveIs DEF DispatchFinite
  <1> USE <1>1
  <1>2. DispatchTyped'
    BY DEF Dispatch!TakeRevisions, Dispatch!At, Dispatch!database, Dispatch!others,
           Dispatch!bounds, DispatchInv, DispatchTyped, Dispatch!NoClaim
  <1>3. ReadsFirst'
    BY DEF Dispatch!TakeRevisions, Dispatch!At, Dispatch!database, Dispatch!others,
           Dispatch!bounds, DispatchInv, ReadsFirst, Dispatch!Full, DispatchTyped,
           Dispatch!NoClaim
  <1>4. RestsAlone'
    BY DEF Dispatch!TakeRevisions, Dispatch!At, Dispatch!database, Dispatch!others,
           Dispatch!bounds, DispatchInv, RestsAlone, Dispatch!NoClaim
  <1>5. EndsInOrder'
    BY DEF Dispatch!TakeRevisions, Dispatch!At, Dispatch!database, Dispatch!others,
           Dispatch!bounds, DispatchInv, EndsInOrder, Dispatch!NoClaim
  <1>6. Dispatch!ClaimedIsHeld'
    BY DEF Dispatch!TakeRevisions, Dispatch!At, Dispatch!database, Dispatch!others,
           Dispatch!bounds, DispatchInv, Dispatch!ClaimedIsHeld, Dispatch!NoClaim
  <1>7. Counted'
    BY DEF Dispatch!TakeRevisions, Dispatch!At, Dispatch!database, Dispatch!others,
           Dispatch!bounds, DispatchInv, Counted, Dispatch!NoClaim
  <1>8. TasksHoldClaims'
    BY DEF Dispatch!TakeRevisions, Dispatch!At, Dispatch!database, Dispatch!others,
           Dispatch!bounds, DispatchInv, TasksHoldClaims, Dispatch!NoClaim
  <1>9. QED
    BY <1>2, <1>3, <1>4, <1>5, <1>6, <1>7, <1>8 DEF DispatchInv

LEMMA DispatchWakeup ==
    ASSUME DispatchFinite, DispatchInv, Dispatch!Wakeup
    PROVE  DispatchInv'
  <1>1. /\ Tasked(task) \in Nat /\ Worked(task) \in Nat /\ Tasked(task') \in Nat /\ Worked(task') \in Nat
        /\ Dispatch!Active = Tasked(task) + ending /\ Dispatch!Active' = Tasked(task') + ending'
    BY TaskCounts, ActiveIs DEF DispatchFinite
  <1> USE <1>1
  <1>2. DispatchTyped'
    BY DEF Dispatch!Wakeup, Dispatch!At, Dispatch!Awake, Dispatch!database, Dispatch!others,
           Dispatch!bounds, DispatchInv, DispatchTyped, Dispatch!Versions, Channels,
           Dispatch!Points, ClaimsUnderWay, Dispatch!NoClaim
  <1>3. ReadsFirst'
    BY DEF Dispatch!Wakeup, Dispatch!At, Dispatch!Awake, Dispatch!database, Dispatch!others,
           Dispatch!bounds, DispatchInv, ReadsFirst, Dispatch!Full, Dispatch!NoClaim
  <1>4. RestsAlone'
    BY DEF Dispatch!Wakeup, Dispatch!At, Dispatch!Awake, Dispatch!database, Dispatch!others,
           Dispatch!bounds, DispatchInv, RestsAlone, Dispatch!NoClaim
  <1>5. EndsInOrder'
    BY DEF Dispatch!Wakeup, Dispatch!At, Dispatch!Awake, Dispatch!database, Dispatch!others,
           Dispatch!bounds, DispatchInv, EndsInOrder, Dispatch!NoClaim
  <1>6. Dispatch!ClaimedIsHeld'
    BY DEF Dispatch!Wakeup, Dispatch!At, Dispatch!Awake, Dispatch!database, Dispatch!others,
           Dispatch!bounds, DispatchInv, Dispatch!ClaimedIsHeld, Dispatch!NoClaim
  <1>7. Counted'
    BY DEF Dispatch!Wakeup, Dispatch!At, Dispatch!Awake, Dispatch!database, Dispatch!others,
           Dispatch!bounds, DispatchInv, Counted, Dispatch!NoClaim
  <1>8. TasksHoldClaims'
    BY DEF Dispatch!Wakeup, Dispatch!At, Dispatch!Awake, Dispatch!database, Dispatch!others,
           Dispatch!bounds, DispatchInv, TasksHoldClaims, Dispatch!NoClaim
  <1>9. QED
    BY <1>2, <1>3, <1>4, <1>5, <1>6, <1>7, <1>8 DEF DispatchInv

LEMMA DispatchTimeout ==
    ASSUME DispatchFinite, DispatchInv, Dispatch!Timeout
    PROVE  DispatchInv'
  <1>1. /\ Tasked(task) \in Nat /\ Worked(task) \in Nat /\ Tasked(task') \in Nat /\ Worked(task') \in Nat
        /\ Dispatch!Active = Tasked(task) + ending /\ Dispatch!Active' = Tasked(task') + ending'
    BY TaskCounts, ActiveIs DEF DispatchFinite
  <1> USE <1>1
  <1>2. DispatchTyped'
    BY DEF Dispatch!Timeout, Dispatch!At, Dispatch!Awake, Dispatch!others, Dispatch!bounds,
           DispatchInv, DispatchTyped, Dispatch!Versions, Channels, Dispatch!Points,
           ClaimsUnderWay, Dispatch!NoClaim
  <1>3. ReadsFirst'
    BY DEF Dispatch!Timeout, Dispatch!At, Dispatch!Awake, Dispatch!others, Dispatch!bounds,
           DispatchInv, ReadsFirst, Dispatch!Full, DispatchTyped, Dispatch!NoClaim
  <1>4. RestsAlone'
    BY DEF Dispatch!Timeout, Dispatch!At, Dispatch!Awake, Dispatch!others, Dispatch!bounds,
           DispatchInv, RestsAlone, Dispatch!NoClaim
  <1>5. EndsInOrder'
    BY DEF Dispatch!Timeout, Dispatch!At, Dispatch!Awake, Dispatch!others, Dispatch!bounds,
           DispatchInv, EndsInOrder, Dispatch!NoClaim
  <1>6. Dispatch!ClaimedIsHeld'
    BY DEF Dispatch!Timeout, Dispatch!At, Dispatch!Awake, Dispatch!others, Dispatch!bounds,
           DispatchInv, Dispatch!ClaimedIsHeld, Dispatch!NoClaim
  <1>7. Counted'
    BY DEF Dispatch!Timeout, Dispatch!At, Dispatch!Awake, Dispatch!others, Dispatch!bounds,
           DispatchInv, Counted, Dispatch!NoClaim
  <1>8. TasksHoldClaims'
    BY DEF Dispatch!Timeout, Dispatch!At, Dispatch!Awake, Dispatch!others, Dispatch!bounds,
           DispatchInv, TasksHoldClaims, Dispatch!NoClaim
  <1>9. QED
    BY <1>2, <1>3, <1>4, <1>5, <1>6, <1>7, <1>8 DEF DispatchInv

LEMMA DispatchInterrupted ==
    ASSUME DispatchFinite, DispatchInv, Dispatch!Interrupted
    PROVE  DispatchInv'
  <1>1. /\ Tasked(task) \in Nat /\ Worked(task) \in Nat /\ Tasked(task') \in Nat /\ Worked(task') \in Nat
        /\ Dispatch!Active = Tasked(task) + ending /\ Dispatch!Active' = Tasked(task') + ending'
    BY TaskCounts, ActiveIs DEF DispatchFinite
  <1> USE <1>1
  <1>2. DispatchTyped'
    BY DEF Dispatch!Interrupted, Dispatch!At, Dispatch!database, Dispatch!others,
           Dispatch!bounds, DispatchInv, DispatchTyped, Dispatch!Versions, Channels,
           Dispatch!Points, ClaimsUnderWay, Dispatch!NoClaim
  <1>3. ReadsFirst'
    BY DEF Dispatch!Interrupted, Dispatch!At, Dispatch!database, Dispatch!others,
           Dispatch!bounds, DispatchInv, ReadsFirst, Dispatch!Full, Dispatch!NoClaim
  <1>4. RestsAlone'
    BY DEF Dispatch!Interrupted, Dispatch!At, Dispatch!database, Dispatch!others,
           Dispatch!bounds, DispatchInv, RestsAlone, Dispatch!NoClaim
  <1>5. EndsInOrder'
    BY DEF Dispatch!Interrupted, Dispatch!At, Dispatch!database, Dispatch!others,
           Dispatch!bounds, DispatchInv, EndsInOrder, Dispatch!NoClaim
  <1>6. Dispatch!ClaimedIsHeld'
    BY DEF Dispatch!Interrupted, Dispatch!At, Dispatch!database, Dispatch!others,
           Dispatch!bounds, DispatchInv, Dispatch!ClaimedIsHeld, Dispatch!NoClaim
  <1>7. Counted'
    BY DEF Dispatch!Interrupted, Dispatch!At, Dispatch!database, Dispatch!others,
           Dispatch!bounds, DispatchInv, Counted, Dispatch!NoClaim
  <1>8. TasksHoldClaims'
    BY DEF Dispatch!Interrupted, Dispatch!At, Dispatch!database, Dispatch!others,
           Dispatch!bounds, DispatchInv, TasksHoldClaims, Dispatch!NoClaim
  <1>9. QED
    BY <1>2, <1>3, <1>4, <1>5, <1>6, <1>7, <1>8 DEF DispatchInv

LEMMA DispatchReturned ==
    ASSUME DispatchFinite, DispatchInv, Dispatch!Returned
    PROVE  DispatchInv'
  <1>1. /\ Tasked(task) \in Nat /\ Worked(task) \in Nat /\ Tasked(task') \in Nat /\ Worked(task') \in Nat
        /\ Dispatch!Active = Tasked(task) + ending /\ Dispatch!Active' = Tasked(task') + ending'
    BY TaskCounts, ActiveIs DEF DispatchFinite
  <1> USE <1>1
  <1>2. DispatchTyped'
    BY DEF Dispatch!Returned, Dispatch!At, Dispatch!Goes, Dispatch!database, Dispatch!others,
           Dispatch!bounds, DispatchInv, DispatchTyped, Dispatch!Versions, Channels,
           Dispatch!Points, ClaimsUnderWay, Dispatch!NoClaim
  <1>3. ReadsFirst'
    BY DEF Dispatch!Returned, Dispatch!At, Dispatch!Goes, Dispatch!database, Dispatch!others,
           Dispatch!bounds, DispatchInv, ReadsFirst, Dispatch!Full, Dispatch!NoClaim
  <1>4. RestsAlone'
    BY DEF Dispatch!Returned, Dispatch!At, Dispatch!Goes, Dispatch!database, Dispatch!others,
           Dispatch!bounds, DispatchInv, RestsAlone, Dispatch!NoClaim
  <1>5. EndsInOrder'
    BY DEF Dispatch!Returned, Dispatch!At, Dispatch!Goes, Dispatch!database, Dispatch!others,
           Dispatch!bounds, DispatchInv, EndsInOrder, Dispatch!NoClaim
  <1>6. Dispatch!ClaimedIsHeld'
    BY DEF Dispatch!Returned, Dispatch!At, Dispatch!Goes, Dispatch!database, Dispatch!others,
           Dispatch!bounds, DispatchInv, Dispatch!ClaimedIsHeld, Dispatch!NoClaim
  <1>7. Counted'
    BY DEF Dispatch!Returned, Dispatch!At, Dispatch!Goes, Dispatch!database, Dispatch!others,
           Dispatch!bounds, DispatchInv, Counted, Dispatch!NoClaim
  <1>8. TasksHoldClaims'
    BY DEF Dispatch!Returned, Dispatch!At, Dispatch!Goes, Dispatch!database, Dispatch!others,
           Dispatch!bounds, DispatchInv, TasksHoldClaims, Dispatch!NoClaim
  <1>9. QED
    BY <1>2, <1>3, <1>4, <1>5, <1>6, <1>7, <1>8 DEF DispatchInv

LEMMA DispatchClaimPlain ==
    ASSUME DispatchFinite, DispatchInv, Dispatch!ClaimPlain
    PROVE  DispatchInv'
  <1>1. /\ Tasked(task) \in Nat /\ Worked(task) \in Nat /\ Tasked(task') \in Nat /\ Worked(task') \in Nat
        /\ Dispatch!Active = Tasked(task) + ending /\ Dispatch!Active' = Tasked(task') + ending'
    BY TaskCounts, ActiveIs DEF DispatchFinite
  <1> USE <1>1
  <1>2. task \in [Jobs -> TaskAt] /\ ending \in Nat /\ registry \in Nat
    BY DEF DispatchInv, DispatchTyped, TaskAt
  <1>3. \/ task' = task
        \/ \E j \in Jobs : job[j] = "due" /\ task' = [task EXCEPT ![j] = "starting"]
    BY DEF Dispatch!ClaimPlain, Dispatch!Claimed, Dispatch!Unclaimed, Dispatch!Due, Dispatch!DoclingJobs,
           DispatchFinite, Dispatch!DispatchAssumption
  <1>4. ASSUME NEW j \in Jobs, job[j] = "due", task' = [task EXCEPT ![j] = "starting"]
        PROVE  Worked(task') = Worked(task)
    <2>1. task[j] = "none"
      BY <1>2, <1>4 DEF DispatchInv, TasksHoldClaims, TaskAt
    <2>2. QED
      <3>1. {"none", "starting", "working"} = TaskAt /\ IsFiniteSet(Jobs)
        BY DEF TaskAt, DispatchFinite
      <3>2. Worked([task EXCEPT ![j] = "starting"]) =
              Worked(task) + (IF "starting" = "working" THEN 1 ELSE 0) - (IF task[j] = "working" THEN 1 ELSE 0)
        BY <1>2, <3>1, Recounted
      <3>3. QED
        BY <1>1, <1>4, <2>1, <3>2
  <1>5. Worked(task') = Worked(task)
    BY <1>3, <1>4
  <1> USE <1>5
  <1>6. DispatchTyped'
    BY DEF Dispatch!ClaimPlain, Dispatch!ClaimAt, Dispatch!At, Dispatch!Open, Dispatch!Claimed,
           Dispatch!NoClaim, Dispatch!Goes, Dispatch!Told, Dispatch!Unclaimed, Dispatch!others,
           Dispatch!bounds, DispatchInv, DispatchTyped, Dispatch!Versions, Channels,
           Dispatch!Points, ClaimsUnderWay
  <1>7. ReadsFirst'
    BY DEF Dispatch!ClaimPlain, Dispatch!ClaimAt, Dispatch!At, Dispatch!Open, Dispatch!Due,
           Dispatch!DoclingJobs, Dispatch!Claimed, Dispatch!NoClaim, Dispatch!Goes,
           Dispatch!Told, Dispatch!Unclaimed, Dispatch!others, Dispatch!bounds, DispatchInv,
           ReadsFirst, Dispatch!Full, DispatchTyped, Dispatch!Versions, Channels,
           Dispatch!Points, ClaimsUnderWay, RestsAlone, EndsInOrder, Dispatch!ClaimedIsHeld,
           TasksHoldClaims, Counted
  <1>8. RestsAlone'
    BY DEF Dispatch!ClaimPlain, Dispatch!ClaimAt, Dispatch!At, Dispatch!Open, Dispatch!Claimed,
           Dispatch!NoClaim, Dispatch!Goes, Dispatch!Told, Dispatch!Unclaimed, Dispatch!others,
           Dispatch!bounds, DispatchInv, RestsAlone, DispatchTyped
  <1>9. EndsInOrder'
    BY DEF Dispatch!ClaimPlain, Dispatch!ClaimAt, Dispatch!At, Dispatch!Open, Dispatch!Claimed,
           Dispatch!NoClaim, Dispatch!Goes, Dispatch!Told, Dispatch!Unclaimed, Dispatch!others,
           Dispatch!bounds, DispatchInv, EndsInOrder, DispatchTyped
  <1>10. Dispatch!ClaimedIsHeld'
    BY DEF Dispatch!ClaimPlain, Dispatch!ClaimAt, Dispatch!At, Dispatch!Open, Dispatch!Claimed,
           Dispatch!NoClaim, Dispatch!Goes, Dispatch!Told, Dispatch!Unclaimed, Dispatch!others,
           Dispatch!bounds, DispatchInv, Dispatch!ClaimedIsHeld, DispatchTyped
  <1>11. Counted'
    BY DEF Dispatch!ClaimPlain, Dispatch!ClaimAt, Dispatch!At, Dispatch!Open, Dispatch!Claimed,
           Dispatch!NoClaim, Dispatch!Goes, Dispatch!Told, Dispatch!Unclaimed, Dispatch!others,
           Dispatch!bounds, DispatchInv, Counted
  <1>12. TasksHoldClaims'
    BY DEF Dispatch!ClaimPlain, Dispatch!ClaimAt, Dispatch!At, Dispatch!Open, Dispatch!Claimed,
           Dispatch!NoClaim, Dispatch!Goes, Dispatch!Told, Dispatch!Unclaimed, Dispatch!others,
           Dispatch!bounds, DispatchInv, TasksHoldClaims, DispatchTyped
  <1>13. QED
    BY <1>6, <1>7, <1>8, <1>9, <1>10, <1>11, <1>12 DEF DispatchInv

LEMMA DispatchReadDemand ==
    ASSUME DispatchFinite, DispatchInv, Dispatch!ReadDemand
    PROVE  DispatchInv'
  <1>1. /\ Tasked(task) \in Nat /\ Worked(task) \in Nat /\ Tasked(task') \in Nat /\ Worked(task') \in Nat
        /\ Dispatch!Active = Tasked(task) + ending /\ Dispatch!Active' = Tasked(task') + ending'
    BY TaskCounts, ActiveIs DEF DispatchFinite
  <1> USE <1>1
  <1>2. DispatchTyped'
    <2>1. job' \in [Jobs -> {"absent", "due", "claimed", "over"}] /\ unseen' \subseteq Jobs
      BY DEF Dispatch!ReadDemand, Dispatch!ClaimAt, Dispatch!At, Dispatch!Open,
             Dispatch!Unclaimed, Dispatch!Due, Dispatch!Idle, Dispatch!NoClaim, Dispatch!Goes,
             Dispatch!others, Dispatch!bounds, DispatchInv, DispatchTyped, Dispatch!Versions,
             Channels, Dispatch!Points, ClaimsUnderWay
    <2>2. service' \in [up : SUBSET Services, failed : SUBSET Services]
      BY DEF Dispatch!ReadDemand, Dispatch!ClaimAt, Dispatch!At, Dispatch!Open,
             Dispatch!Unclaimed, Dispatch!Due, Dispatch!Idle, Dispatch!NoClaim, Dispatch!Goes,
             Dispatch!others, Dispatch!bounds, DispatchInv, DispatchTyped, Dispatch!Versions,
             Channels, Dispatch!Points, ClaimsUnderWay
    <2>3. settings' \in Dispatch!Versions /\ processor' \in Dispatch!Versions /\ pending' \subseteq Channels
      BY DEF Dispatch!ReadDemand, Dispatch!ClaimAt, Dispatch!At, Dispatch!Open,
             Dispatch!Unclaimed, Dispatch!Due, Dispatch!Idle, Dispatch!NoClaim, Dispatch!Goes,
             Dispatch!others, Dispatch!bounds, DispatchInv, DispatchTyped, Dispatch!Versions,
             Channels, Dispatch!Points, ClaimsUnderWay
    <2>4. dispatcher' \in [at : Dispatch!Points, once : BOOLEAN, read : Dispatch!Versions, wake : SUBSET Channels]
      BY DEF Dispatch!ReadDemand, Dispatch!ClaimAt, Dispatch!At, Dispatch!Open,
             Dispatch!Unclaimed, Dispatch!Due, Dispatch!Idle, Dispatch!NoClaim, Dispatch!Goes,
             Dispatch!others, Dispatch!bounds, DispatchInv, DispatchTyped, Dispatch!Versions,
             Channels, Dispatch!Points, ClaimsUnderWay
    <2>5. IF dispatcher'.at = "claiming" THEN claim' \in ClaimsUnderWay ELSE claim' = Dispatch!NoClaim
      <3>1. {Assigned[j] : j \in Dispatch!Due(Dispatch!DoclingJobs)} \in SUBSET (Services \cup {NoService})
        BY DEF Dispatch!Due, Dispatch!DoclingJobs, DispatchFinite, Dispatch!DispatchAssumption
      <3>2. claim \in ClaimsUnderWay /\ dispatcher.at = "claiming"
        BY DEF Dispatch!ReadDemand, Dispatch!ClaimAt, Dispatch!At, DispatchInv, DispatchTyped
      <3>3. [claim EXCEPT !.at = "probe", !.wanted = {Assigned[j] : j \in Dispatch!Due(Dispatch!DoclingJobs)}]
              \in ClaimsUnderWay
        BY <3>1, <3>2 DEF ClaimsUnderWay
      <3>4. CASE Dispatch!Due(Dispatch!DoclingJobs) = {}
        BY <3>2, <3>4 DEF Dispatch!ReadDemand, Dispatch!Idle, Dispatch!Goes, DispatchInv, DispatchTyped
      <3>5. CASE Dispatch!Due(Dispatch!DoclingJobs) # {}
        BY <3>2, <3>3, <3>5 DEF Dispatch!ReadDemand
      <3>6. QED
        BY <3>4, <3>5
    <2>6. task' \in [Jobs -> {"none", "starting", "working"}] /\ delayed' \in BOOLEAN
      BY DEF Dispatch!ReadDemand, Dispatch!ClaimAt, Dispatch!At, Dispatch!Open,
             Dispatch!Unclaimed, Dispatch!Due, Dispatch!Idle, Dispatch!NoClaim, Dispatch!Goes,
             Dispatch!others, Dispatch!bounds, DispatchInv, DispatchTyped, Dispatch!Versions,
             Channels, Dispatch!Points, ClaimsUnderWay
    <2>7. ending' \in Nat /\ registry' \in Nat /\ faults' \in Nat /\ outages' \in Nat
      BY DEF Dispatch!ReadDemand, Dispatch!ClaimAt, Dispatch!At, Dispatch!Open,
             Dispatch!Unclaimed, Dispatch!Due, Dispatch!Idle, Dispatch!NoClaim, Dispatch!Goes,
             Dispatch!others, Dispatch!bounds, DispatchInv, DispatchTyped, Dispatch!Versions,
             Channels, Dispatch!Points, ClaimsUnderWay
    <2>8. /\ migration' \in {"polling", "working", "ended", "failed"}
          /\ retention' \in [closed : BOOLEAN, running : BOOLEAN, timer : BOOLEAN]
          /\ worker' \in {"up", "closing", "closed"} /\ aborted' \in BOOLEAN /\ missed' \in BOOLEAN
      BY DEF Dispatch!ReadDemand, Dispatch!ClaimAt, Dispatch!At, Dispatch!Open,
             Dispatch!Unclaimed, Dispatch!Due, Dispatch!Idle, Dispatch!NoClaim, Dispatch!Goes,
             Dispatch!others, Dispatch!bounds, DispatchInv, DispatchTyped, Dispatch!Versions,
             Channels, Dispatch!Points, ClaimsUnderWay
    <2>9. QED
      BY <2>1, <2>2, <2>3, <2>4, <2>5, <2>6, <2>7, <2>8 DEF DispatchTyped
  <1>3. ReadsFirst'
    BY DEF Dispatch!ReadDemand, Dispatch!ClaimAt, Dispatch!At, Dispatch!Open,
           Dispatch!Unclaimed, Dispatch!Idle, Dispatch!NoClaim, Dispatch!Goes, Dispatch!others,
           Dispatch!bounds, DispatchInv, ReadsFirst, Dispatch!Full, DispatchTyped
  <1>4. RestsAlone'
    BY DEF Dispatch!ReadDemand, Dispatch!ClaimAt, Dispatch!At, Dispatch!Open,
           Dispatch!Unclaimed, Dispatch!Idle, Dispatch!NoClaim, Dispatch!Goes, Dispatch!others,
           Dispatch!bounds, DispatchInv, RestsAlone, DispatchTyped
  <1>5. EndsInOrder'
    BY DEF Dispatch!ReadDemand, Dispatch!ClaimAt, Dispatch!At, Dispatch!Open,
           Dispatch!Unclaimed, Dispatch!Idle, Dispatch!NoClaim, Dispatch!Goes, Dispatch!others,
           Dispatch!bounds, DispatchInv, EndsInOrder, DispatchTyped
  <1>6. Dispatch!ClaimedIsHeld'
    BY DEF Dispatch!ReadDemand, Dispatch!ClaimAt, Dispatch!At, Dispatch!Open,
           Dispatch!Unclaimed, Dispatch!Idle, Dispatch!NoClaim, Dispatch!Goes, Dispatch!others,
           Dispatch!bounds, DispatchInv, Dispatch!ClaimedIsHeld
  <1>7. Counted'
    BY DEF Dispatch!ReadDemand, Dispatch!ClaimAt, Dispatch!At, Dispatch!Open,
           Dispatch!Unclaimed, Dispatch!Idle, Dispatch!NoClaim, Dispatch!Goes, Dispatch!others,
           Dispatch!bounds, DispatchInv, Counted
  <1>8. TasksHoldClaims'
    BY DEF Dispatch!ReadDemand, Dispatch!ClaimAt, Dispatch!At, Dispatch!Open,
           Dispatch!Unclaimed, Dispatch!Idle, Dispatch!NoClaim, Dispatch!Goes, Dispatch!others,
           Dispatch!bounds, DispatchInv, TasksHoldClaims
  <1>9. QED
    BY <1>2, <1>3, <1>4, <1>5, <1>6, <1>7, <1>8 DEF DispatchInv

LEMMA DispatchProbe ==
    ASSUME DispatchFinite, DispatchInv, Dispatch!Probe
    PROVE  DispatchInv'
  <1>1. /\ Tasked(task) \in Nat /\ Worked(task) \in Nat /\ Tasked(task') \in Nat /\ Worked(task') \in Nat
        /\ Dispatch!Active = Tasked(task) + ending /\ Dispatch!Active' = Tasked(task') + ending'
    BY TaskCounts, ActiveIs DEF DispatchFinite
  <1> USE <1>1
  <1>2. DispatchTyped'
    <2>1. job' \in [Jobs -> {"absent", "due", "claimed", "over"}] /\ unseen' \subseteq Jobs
      BY DEF Dispatch!Probe, Dispatch!ClaimAt, Dispatch!At, Dispatch!Open, Dispatch!Unclaimed,
             Dispatch!Probed, Dispatch!Required, Dispatch!Unavailable, Dispatch!NoClaim,
             Dispatch!Goes, Dispatch!others, Dispatch!bounds, DispatchInv, DispatchTyped,
             Dispatch!Versions, Channels, Dispatch!Points, ClaimsUnderWay
    <2>2. service' \in [up : SUBSET Services, failed : SUBSET Services]
      BY DEF Dispatch!Probe, Dispatch!ClaimAt, Dispatch!At, Dispatch!Open, Dispatch!Unclaimed,
             Dispatch!Probed, Dispatch!Required, Dispatch!Unavailable, Dispatch!NoClaim,
             Dispatch!Goes, Dispatch!others, Dispatch!bounds, DispatchInv, DispatchTyped,
             Dispatch!Versions, Channels, Dispatch!Points, ClaimsUnderWay
    <2>3. settings' \in Dispatch!Versions /\ processor' \in Dispatch!Versions /\ pending' \subseteq Channels
      BY DEF Dispatch!Probe, Dispatch!ClaimAt, Dispatch!At, Dispatch!Open, Dispatch!Unclaimed,
             Dispatch!Probed, Dispatch!Required, Dispatch!Unavailable, Dispatch!NoClaim,
             Dispatch!Goes, Dispatch!others, Dispatch!bounds, DispatchInv, DispatchTyped,
             Dispatch!Versions, Channels, Dispatch!Points, ClaimsUnderWay
    <2>4. dispatcher' \in [at : Dispatch!Points, once : BOOLEAN, read : Dispatch!Versions, wake : SUBSET Channels]
      BY DEF Dispatch!Probe, Dispatch!ClaimAt, Dispatch!At, Dispatch!Open, Dispatch!Unclaimed,
             Dispatch!Probed, Dispatch!Required, Dispatch!Unavailable, Dispatch!NoClaim,
             Dispatch!Goes, Dispatch!others, Dispatch!bounds, DispatchInv, DispatchTyped,
             Dispatch!Versions, Channels, Dispatch!Points, ClaimsUnderWay
    <2>5. IF dispatcher'.at = "claiming" THEN claim' \in ClaimsUnderWay ELSE claim' = Dispatch!NoClaim
      <3> DEFINE available == Dispatch!Probed \cap service.up
      <3>1. available \in SUBSET Services /\ (Dispatch!Probed # available) \in BOOLEAN
        BY DEF DispatchInv, DispatchTyped
      <3>2. claim \in ClaimsUnderWay /\ dispatcher.at = "claiming"
        BY DEF Dispatch!Probe, Dispatch!ClaimAt, Dispatch!At, DispatchInv, DispatchTyped
      <3>3. [claim EXCEPT !.at = "docling", !.available = available, !.probeFailed = Dispatch!Probed # available]
              \in ClaimsUnderWay
        BY <3>1, <3>2 DEF ClaimsUnderWay
      <3>4. CASE available = {}
        BY <3>2, <3>4 DEF Dispatch!Probe, Dispatch!Unavailable, Dispatch!Goes, DispatchInv, DispatchTyped
      <3>5. CASE available # {}
        BY <3>2, <3>3, <3>5 DEF Dispatch!Probe
      <3>6. QED
        BY <3>4, <3>5
    <2>6. task' \in [Jobs -> {"none", "starting", "working"}] /\ delayed' \in BOOLEAN
      BY DEF Dispatch!Probe, Dispatch!ClaimAt, Dispatch!At, Dispatch!Open, Dispatch!Unclaimed,
             Dispatch!Probed, Dispatch!Required, Dispatch!Unavailable, Dispatch!NoClaim,
             Dispatch!Goes, Dispatch!others, Dispatch!bounds, DispatchInv, DispatchTyped,
             Dispatch!Versions, Channels, Dispatch!Points, ClaimsUnderWay
    <2>7. ending' \in Nat /\ registry' \in Nat /\ faults' \in Nat /\ outages' \in Nat
      BY DEF Dispatch!Probe, Dispatch!ClaimAt, Dispatch!At, Dispatch!Open, Dispatch!Unclaimed,
             Dispatch!Probed, Dispatch!Required, Dispatch!Unavailable, Dispatch!NoClaim,
             Dispatch!Goes, Dispatch!others, Dispatch!bounds, DispatchInv, DispatchTyped,
             Dispatch!Versions, Channels, Dispatch!Points, ClaimsUnderWay
    <2>8. /\ migration' \in {"polling", "working", "ended", "failed"}
          /\ retention' \in [closed : BOOLEAN, running : BOOLEAN, timer : BOOLEAN]
          /\ worker' \in {"up", "closing", "closed"} /\ aborted' \in BOOLEAN /\ missed' \in BOOLEAN
      BY DEF Dispatch!Probe, Dispatch!ClaimAt, Dispatch!At, Dispatch!Open, Dispatch!Unclaimed,
             Dispatch!Probed, Dispatch!Required, Dispatch!Unavailable, Dispatch!NoClaim,
             Dispatch!Goes, Dispatch!others, Dispatch!bounds, DispatchInv, DispatchTyped,
             Dispatch!Versions, Channels, Dispatch!Points, ClaimsUnderWay
    <2>9. QED
      BY <2>1, <2>2, <2>3, <2>4, <2>5, <2>6, <2>7, <2>8 DEF DispatchTyped
  <1>3. ReadsFirst'
    BY DEF Dispatch!Probe, Dispatch!ClaimAt, Dispatch!At, Dispatch!Open, Dispatch!Unclaimed,
           Dispatch!Probed, Dispatch!Required, Dispatch!Unavailable, Dispatch!NoClaim,
           Dispatch!Goes, Dispatch!others, Dispatch!bounds, DispatchInv, ReadsFirst,
           Dispatch!Full, DispatchTyped
  <1>4. RestsAlone'
    BY DEF Dispatch!Probe, Dispatch!ClaimAt, Dispatch!At, Dispatch!Open, Dispatch!Unclaimed,
           Dispatch!Probed, Dispatch!Required, Dispatch!Unavailable, Dispatch!NoClaim,
           Dispatch!Goes, Dispatch!others, Dispatch!bounds, DispatchInv, RestsAlone,
           DispatchTyped
  <1>5. EndsInOrder'
    BY DEF Dispatch!Probe, Dispatch!ClaimAt, Dispatch!At, Dispatch!Open, Dispatch!Unclaimed,
           Dispatch!Probed, Dispatch!Required, Dispatch!Unavailable, Dispatch!NoClaim,
           Dispatch!Goes, Dispatch!others, Dispatch!bounds, DispatchInv, EndsInOrder,
           DispatchTyped
  <1>6. Dispatch!ClaimedIsHeld'
    BY DEF Dispatch!Probe, Dispatch!ClaimAt, Dispatch!At, Dispatch!Open, Dispatch!Unclaimed,
           Dispatch!Probed, Dispatch!Required, Dispatch!Unavailable, Dispatch!NoClaim,
           Dispatch!Goes, Dispatch!others, Dispatch!bounds, DispatchInv, Dispatch!ClaimedIsHeld
  <1>7. Counted'
    BY DEF Dispatch!Probe, Dispatch!ClaimAt, Dispatch!At, Dispatch!Open, Dispatch!Unclaimed,
           Dispatch!Probed, Dispatch!Required, Dispatch!Unavailable, Dispatch!NoClaim,
           Dispatch!Goes, Dispatch!others, Dispatch!bounds, DispatchInv, Counted
  <1>8. TasksHoldClaims'
    BY DEF Dispatch!Probe, Dispatch!ClaimAt, Dispatch!At, Dispatch!Open, Dispatch!Unclaimed,
           Dispatch!Probed, Dispatch!Required, Dispatch!Unavailable, Dispatch!NoClaim,
           Dispatch!Goes, Dispatch!others, Dispatch!bounds, DispatchInv, TasksHoldClaims
  <1>9. QED
    BY <1>2, <1>3, <1>4, <1>5, <1>6, <1>7, <1>8 DEF DispatchInv

LEMMA DispatchProbeIsStale ==
    ASSUME DispatchFinite, DispatchInv, Dispatch!ProbeIsStale
    PROVE  DispatchInv'
  <1>1. /\ Tasked(task) \in Nat /\ Worked(task) \in Nat /\ Tasked(task') \in Nat /\ Worked(task') \in Nat
        /\ Dispatch!Active = Tasked(task) + ending /\ Dispatch!Active' = Tasked(task') + ending'
    BY TaskCounts, ActiveIs DEF DispatchFinite
  <1> USE <1>1
  <1>2. DispatchTyped'
    BY DEF Dispatch!ProbeIsStale, Dispatch!ClaimAt, Dispatch!At, Dispatch!Open,
           Dispatch!Unclaimed, Dispatch!Unavailable, Dispatch!NoClaim, Dispatch!Goes,
           Dispatch!database, Dispatch!others, Dispatch!bounds, DispatchInv, DispatchTyped,
           Dispatch!Versions, Channels, Dispatch!Points, ClaimsUnderWay
  <1>3. ReadsFirst'
    BY DEF Dispatch!ProbeIsStale, Dispatch!ClaimAt, Dispatch!At, Dispatch!Open,
           Dispatch!Unclaimed, Dispatch!Unavailable, Dispatch!NoClaim, Dispatch!Goes,
           Dispatch!database, Dispatch!others, Dispatch!bounds, DispatchInv, ReadsFirst,
           Dispatch!Full
  <1>4. RestsAlone'
    BY DEF Dispatch!ProbeIsStale, Dispatch!ClaimAt, Dispatch!At, Dispatch!Open,
           Dispatch!Unclaimed, Dispatch!Unavailable, Dispatch!NoClaim, Dispatch!Goes,
           Dispatch!database, Dispatch!others, Dispatch!bounds, DispatchInv, RestsAlone,
           DispatchTyped
  <1>5. EndsInOrder'
    BY DEF Dispatch!ProbeIsStale, Dispatch!ClaimAt, Dispatch!At, Dispatch!Open,
           Dispatch!Unclaimed, Dispatch!Unavailable, Dispatch!NoClaim, Dispatch!Goes,
           Dispatch!database, Dispatch!others, Dispatch!bounds, DispatchInv, EndsInOrder
  <1>6. Dispatch!ClaimedIsHeld'
    BY DEF Dispatch!ProbeIsStale, Dispatch!ClaimAt, Dispatch!At, Dispatch!Open,
           Dispatch!Unclaimed, Dispatch!Unavailable, Dispatch!NoClaim, Dispatch!Goes,
           Dispatch!database, Dispatch!others, Dispatch!bounds, DispatchInv,
           Dispatch!ClaimedIsHeld
  <1>7. Counted'
    BY DEF Dispatch!ProbeIsStale, Dispatch!ClaimAt, Dispatch!At, Dispatch!Open,
           Dispatch!Unclaimed, Dispatch!Unavailable, Dispatch!NoClaim, Dispatch!Goes,
           Dispatch!database, Dispatch!others, Dispatch!bounds, DispatchInv, Counted
  <1>8. TasksHoldClaims'
    BY DEF Dispatch!ProbeIsStale, Dispatch!ClaimAt, Dispatch!At, Dispatch!Open,
           Dispatch!Unclaimed, Dispatch!Unavailable, Dispatch!NoClaim, Dispatch!Goes,
           Dispatch!database, Dispatch!others, Dispatch!bounds, DispatchInv, TasksHoldClaims
  <1>9. QED
    BY <1>2, <1>3, <1>4, <1>5, <1>6, <1>7, <1>8 DEF DispatchInv

LEMMA DispatchClaimDocling ==
    ASSUME DispatchFinite, DispatchInv, Dispatch!ClaimDocling
    PROVE  DispatchInv'
  <1>1. /\ Tasked(task) \in Nat /\ Worked(task) \in Nat /\ Tasked(task') \in Nat /\ Worked(task') \in Nat
        /\ Dispatch!Active = Tasked(task) + ending /\ Dispatch!Active' = Tasked(task') + ending'
    BY TaskCounts, ActiveIs DEF DispatchFinite
  <1> USE <1>1
  <1>2. task \in [Jobs -> TaskAt] /\ ending \in Nat /\ registry \in Nat
    BY DEF DispatchInv, DispatchTyped, TaskAt
  <1>3. \/ task' = task
        \/ \E j \in Jobs : job[j] = "due" /\ task' = [task EXCEPT ![j] = "starting"]
    BY DEF Dispatch!ClaimDocling, Dispatch!Claimed, Dispatch!Unclaimed, Dispatch!Due, Dispatch!DoclingJobs,
           DispatchFinite, Dispatch!DispatchAssumption
  <1>4. ASSUME NEW j \in Jobs, job[j] = "due", task' = [task EXCEPT ![j] = "starting"]
        PROVE  Worked(task') = Worked(task)
    <2>1. task[j] = "none"
      BY <1>2, <1>4 DEF DispatchInv, TasksHoldClaims, TaskAt
    <2>2. QED
      <3>1. {"none", "starting", "working"} = TaskAt /\ IsFiniteSet(Jobs)
        BY DEF TaskAt, DispatchFinite
      <3>2. Worked([task EXCEPT ![j] = "starting"]) =
              Worked(task) + (IF "starting" = "working" THEN 1 ELSE 0) - (IF task[j] = "working" THEN 1 ELSE 0)
        BY <1>2, <3>1, Recounted
      <3>3. QED
        BY <1>1, <1>4, <2>1, <3>2
  <1>5. Worked(task') = Worked(task)
    BY <1>3, <1>4
  <1> USE <1>5
  <1>6. DispatchTyped'
    <2>1. job' \in [Jobs -> {"absent", "due", "claimed", "over"}] /\ unseen' \subseteq Jobs
      BY DEF Dispatch!ClaimDocling, Dispatch!ClaimAt, Dispatch!At, Dispatch!Open, Dispatch!Due,
             Dispatch!Eligible, Dispatch!Claimed, Dispatch!NoClaim, Dispatch!Goes,
             Dispatch!Told, Dispatch!ServicesWaiting, Dispatch!Unavailable, Dispatch!Idle,
             Dispatch!Unclaimed, Dispatch!others, Dispatch!bounds, DispatchInv, DispatchTyped,
             Dispatch!Versions, Channels, Dispatch!Points, ClaimsUnderWay
    <2>2. service' \in [up : SUBSET Services, failed : SUBSET Services]
      BY DEF Dispatch!ClaimDocling, Dispatch!ClaimAt, Dispatch!At, Dispatch!Open, Dispatch!Due,
             Dispatch!Eligible, Dispatch!Claimed, Dispatch!NoClaim, Dispatch!Goes,
             Dispatch!Told, Dispatch!ServicesWaiting, Dispatch!Unavailable, Dispatch!Idle,
             Dispatch!Unclaimed, Dispatch!others, Dispatch!bounds, DispatchInv, DispatchTyped,
             Dispatch!Versions, Channels, Dispatch!Points, ClaimsUnderWay
    <2>3. settings' \in Dispatch!Versions /\ processor' \in Dispatch!Versions /\ pending' \subseteq Channels
      BY DEF Dispatch!ClaimDocling, Dispatch!ClaimAt, Dispatch!At, Dispatch!Open, Dispatch!Due,
             Dispatch!Eligible, Dispatch!Claimed, Dispatch!NoClaim, Dispatch!Goes,
             Dispatch!Told, Dispatch!ServicesWaiting, Dispatch!Unavailable, Dispatch!Idle,
             Dispatch!Unclaimed, Dispatch!others, Dispatch!bounds, DispatchInv, DispatchTyped,
             Dispatch!Versions, Channels, Dispatch!Points, ClaimsUnderWay
    <2>4. dispatcher' \in [at : Dispatch!Points, once : BOOLEAN, read : Dispatch!Versions, wake : SUBSET Channels]
      BY DEF Dispatch!ClaimDocling, Dispatch!ClaimAt, Dispatch!At, Dispatch!Open, Dispatch!Due,
             Dispatch!Eligible, Dispatch!Claimed, Dispatch!NoClaim, Dispatch!Goes,
             Dispatch!Told, Dispatch!ServicesWaiting, Dispatch!Unavailable, Dispatch!Idle,
             Dispatch!Unclaimed, Dispatch!others, Dispatch!bounds, DispatchInv, DispatchTyped,
             Dispatch!Versions, Channels, Dispatch!Points, ClaimsUnderWay
    <2>5. IF dispatcher'.at = "claiming" THEN claim' \in ClaimsUnderWay ELSE claim' = Dispatch!NoClaim
      BY DEF Dispatch!ClaimDocling, Dispatch!ClaimAt, Dispatch!At, Dispatch!Open, Dispatch!Due,
             Dispatch!Eligible, Dispatch!Claimed, Dispatch!NoClaim, Dispatch!Goes,
             Dispatch!Told, Dispatch!ServicesWaiting, Dispatch!Unavailable, Dispatch!Idle,
             Dispatch!Unclaimed, Dispatch!others, Dispatch!bounds, DispatchInv, DispatchTyped,
             Dispatch!Versions, Channels, Dispatch!Points, ClaimsUnderWay
    <2>6. task' \in [Jobs -> {"none", "starting", "working"}] /\ delayed' \in BOOLEAN
      BY DEF Dispatch!ClaimDocling, Dispatch!ClaimAt, Dispatch!At, Dispatch!Open, Dispatch!Due,
             Dispatch!Eligible, Dispatch!Claimed, Dispatch!NoClaim, Dispatch!Goes,
             Dispatch!Told, Dispatch!ServicesWaiting, Dispatch!Unavailable, Dispatch!Idle,
             Dispatch!Unclaimed, Dispatch!others, Dispatch!bounds, DispatchInv, DispatchTyped,
             Dispatch!Versions, Channels, Dispatch!Points, ClaimsUnderWay
    <2>7. ending' \in Nat /\ registry' \in Nat /\ faults' \in Nat /\ outages' \in Nat
      BY DEF Dispatch!ClaimDocling, Dispatch!ClaimAt, Dispatch!At, Dispatch!Open, Dispatch!Due,
             Dispatch!Eligible, Dispatch!Claimed, Dispatch!NoClaim, Dispatch!Goes,
             Dispatch!Told, Dispatch!ServicesWaiting, Dispatch!Unavailable, Dispatch!Idle,
             Dispatch!Unclaimed, Dispatch!others, Dispatch!bounds, DispatchInv, DispatchTyped,
             Dispatch!Versions, Channels, Dispatch!Points, ClaimsUnderWay
    <2>8. /\ migration' \in {"polling", "working", "ended", "failed"}
          /\ retention' \in [closed : BOOLEAN, running : BOOLEAN, timer : BOOLEAN]
          /\ worker' \in {"up", "closing", "closed"} /\ aborted' \in BOOLEAN /\ missed' \in BOOLEAN
      BY DEF Dispatch!ClaimDocling, Dispatch!ClaimAt, Dispatch!At, Dispatch!Open, Dispatch!Due,
             Dispatch!Eligible, Dispatch!Claimed, Dispatch!NoClaim, Dispatch!Goes,
             Dispatch!Told, Dispatch!ServicesWaiting, Dispatch!Unavailable, Dispatch!Idle,
             Dispatch!Unclaimed, Dispatch!others, Dispatch!bounds, DispatchInv, DispatchTyped,
             Dispatch!Versions, Channels, Dispatch!Points, ClaimsUnderWay
    <2>9. QED
      BY <2>1, <2>2, <2>3, <2>4, <2>5, <2>6, <2>7, <2>8 DEF DispatchTyped
  <1>7. ReadsFirst'
    BY DEF Dispatch!ClaimDocling, Dispatch!ClaimAt, Dispatch!At, Dispatch!Open,
           Dispatch!Eligible, Dispatch!Claimed, Dispatch!NoClaim, Dispatch!Goes, Dispatch!Told,
           Dispatch!ServicesWaiting, Dispatch!Unavailable, Dispatch!Idle, Dispatch!Unclaimed,
           Dispatch!others, Dispatch!bounds, DispatchInv, ReadsFirst, Dispatch!Full,
           DispatchTyped
  <1>8. RestsAlone'
    BY DEF Dispatch!ClaimDocling, Dispatch!ClaimAt, Dispatch!At, Dispatch!Open,
           Dispatch!Eligible, Dispatch!Claimed, Dispatch!NoClaim, Dispatch!Goes, Dispatch!Told,
           Dispatch!ServicesWaiting, Dispatch!Unavailable, Dispatch!Idle, Dispatch!Unclaimed,
           Dispatch!others, Dispatch!bounds, DispatchInv, RestsAlone, DispatchTyped
  <1>9. EndsInOrder'
    BY DEF Dispatch!ClaimDocling, Dispatch!ClaimAt, Dispatch!At, Dispatch!Open,
           Dispatch!Eligible, Dispatch!Claimed, Dispatch!NoClaim, Dispatch!Goes, Dispatch!Told,
           Dispatch!ServicesWaiting, Dispatch!Unavailable, Dispatch!Idle, Dispatch!Unclaimed,
           Dispatch!others, Dispatch!bounds, DispatchInv, EndsInOrder, DispatchTyped
  <1>10. Dispatch!ClaimedIsHeld'
    BY DEF Dispatch!ClaimDocling, Dispatch!ClaimAt, Dispatch!At, Dispatch!Open,
           Dispatch!Eligible, Dispatch!Claimed, Dispatch!NoClaim, Dispatch!Goes, Dispatch!Told,
           Dispatch!ServicesWaiting, Dispatch!Unavailable, Dispatch!Idle, Dispatch!Unclaimed,
           Dispatch!others, Dispatch!bounds, DispatchInv, Dispatch!ClaimedIsHeld, DispatchTyped
  <1>11. Counted'
    BY DEF Dispatch!ClaimDocling, Dispatch!ClaimAt, Dispatch!At, Dispatch!Open,
           Dispatch!Eligible, Dispatch!Claimed, Dispatch!NoClaim, Dispatch!Goes, Dispatch!Told,
           Dispatch!ServicesWaiting, Dispatch!Unavailable, Dispatch!Idle, Dispatch!Unclaimed,
           Dispatch!others, Dispatch!bounds, DispatchInv, Counted
  <1>12. TasksHoldClaims'
    BY DEF Dispatch!ClaimDocling, Dispatch!ClaimAt, Dispatch!At, Dispatch!Open,
           Dispatch!Eligible, Dispatch!Claimed, Dispatch!NoClaim, Dispatch!Goes, Dispatch!Told,
           Dispatch!ServicesWaiting, Dispatch!Unavailable, Dispatch!Idle, Dispatch!Unclaimed,
           Dispatch!others, Dispatch!bounds, DispatchInv, TasksHoldClaims, DispatchTyped
  <1>13. QED
    BY <1>6, <1>7, <1>8, <1>9, <1>10, <1>11, <1>12 DEF DispatchInv

LEMMA DispatchDispatcherFails ==
    ASSUME DispatchFinite, DispatchInv, Dispatch!DispatcherFails
    PROVE  DispatchInv'
  <1>1. /\ Tasked(task) \in Nat /\ Worked(task) \in Nat /\ Tasked(task') \in Nat /\ Worked(task') \in Nat
        /\ Dispatch!Active = Tasked(task) + ending /\ Dispatch!Active' = Tasked(task') + ending'
    BY TaskCounts, ActiveIs DEF DispatchFinite
  <1> USE <1>1
  <1>2. DispatchTyped'
    BY DEF Dispatch!DispatcherFails, Dispatch!Open, Dispatch!Fault, Dispatch!bounds,
           Dispatch!Goes, Dispatch!NoClaim, Dispatch!others, DispatchInv, DispatchTyped,
           Dispatch!Versions, Channels, Dispatch!Points, ClaimsUnderWay
  <1>3. ReadsFirst'
    BY DEF Dispatch!DispatcherFails, Dispatch!Open, Dispatch!Fault, Dispatch!bounds,
           Dispatch!Goes, Dispatch!NoClaim, Dispatch!others, DispatchInv, ReadsFirst,
           Dispatch!Full
  <1>4. RestsAlone'
    BY DEF Dispatch!DispatcherFails, Dispatch!Open, Dispatch!Fault, Dispatch!bounds,
           Dispatch!Goes, Dispatch!NoClaim, Dispatch!others, DispatchInv, RestsAlone
  <1>5. EndsInOrder'
    BY DEF Dispatch!DispatcherFails, Dispatch!Open, Dispatch!Fault, Dispatch!bounds,
           Dispatch!Goes, Dispatch!NoClaim, Dispatch!others, DispatchInv, EndsInOrder,
           DispatchTyped
  <1>6. Dispatch!ClaimedIsHeld'
    BY DEF Dispatch!DispatcherFails, Dispatch!Open, Dispatch!Fault, Dispatch!bounds,
           Dispatch!Goes, Dispatch!NoClaim, Dispatch!others, DispatchInv,
           Dispatch!ClaimedIsHeld, DispatchTyped
  <1>7. Counted'
    BY DEF Dispatch!DispatcherFails, Dispatch!Open, Dispatch!Fault, Dispatch!bounds,
           Dispatch!Goes, Dispatch!NoClaim, Dispatch!others, DispatchInv, Counted, DispatchTyped
  <1>8. TasksHoldClaims'
    BY DEF Dispatch!DispatcherFails, Dispatch!Open, Dispatch!Fault, Dispatch!bounds,
           Dispatch!Goes, Dispatch!NoClaim, Dispatch!others, DispatchInv, TasksHoldClaims,
           DispatchTyped
  <1>9. QED
    BY <1>2, <1>3, <1>4, <1>5, <1>6, <1>7, <1>8 DEF DispatchInv

LEMMA DispatchJobStarted ==
    ASSUME DispatchFinite, DispatchInv, NEW j \in Jobs, Dispatch!JobStarted(j)
    PROVE  DispatchInv'
  <1>1. /\ Tasked(task) \in Nat /\ Worked(task) \in Nat /\ Tasked(task') \in Nat /\ Worked(task') \in Nat
        /\ Dispatch!Active = Tasked(task) + ending /\ Dispatch!Active' = Tasked(task') + ending'
    BY TaskCounts, ActiveIs DEF DispatchFinite
  <1> USE <1>1
  <1>2. task \in [Jobs -> TaskAt] /\ ending \in Nat /\ registry \in Nat
    BY DEF DispatchInv, DispatchTyped, TaskAt
  <1>3. task[j] = "starting" /\ task' = [task EXCEPT ![j] = "working"]
    BY DEF Dispatch!JobStarted
  <1>4. Tasked(task') = Tasked(task) /\ Worked(task') = Worked(task) + 1
    <2>1. {"none", "starting", "working"} = TaskAt /\ IsFiniteSet(Jobs)
      BY DEF TaskAt, DispatchFinite
    <2>2. /\ Tasked([task EXCEPT ![j] = "working"]) =
                Tasked(task) + (IF "working" = "none" THEN 0 ELSE 1) - (IF task[j] = "none" THEN 0 ELSE 1)
          /\ Worked([task EXCEPT ![j] = "working"]) =
                Worked(task) + (IF "working" = "working" THEN 1 ELSE 0) - (IF task[j] = "working" THEN 1 ELSE 0)
      BY <1>2, <2>1, Recounted
    <2>3. QED
      BY <1>1, <1>3, <2>2
  <1> USE <1>4
  <1>5. DispatchTyped'
    BY DEF Dispatch!JobStarted, Dispatch!Open, Dispatch!TasksOnly, Dispatch!bounds, DispatchInv,
           DispatchTyped, Dispatch!NoClaim
  <1>6. ReadsFirst'
    BY DEF Dispatch!JobStarted, Dispatch!Open, Dispatch!TasksOnly, Dispatch!bounds, DispatchInv,
           ReadsFirst, Dispatch!Full, Dispatch!NoClaim
  <1>7. RestsAlone'
    BY DEF Dispatch!JobStarted, Dispatch!Open, Dispatch!TasksOnly, Dispatch!bounds, DispatchInv,
           RestsAlone, Dispatch!NoClaim
  <1>8. EndsInOrder'
    BY DEF Dispatch!JobStarted, Dispatch!Open, Dispatch!TasksOnly, Dispatch!bounds, DispatchInv,
           EndsInOrder, Dispatch!NoClaim
  <1>9. Dispatch!ClaimedIsHeld'
    BY DEF Dispatch!JobStarted, Dispatch!Open, Dispatch!TasksOnly, Dispatch!bounds, DispatchInv,
           Dispatch!ClaimedIsHeld, Dispatch!NoClaim
  <1>10. Counted'
    <2>1. registry' = registry + 1 /\ ending' = ending /\ migration' = migration /\ faults' = faults
      BY DEF Dispatch!JobStarted, Dispatch!TasksOnly, Dispatch!bounds
    <2>2. QED
      BY <1>2, <2>1 DEF DispatchInv, Counted
  <1>11. TasksHoldClaims'
    BY DEF Dispatch!JobStarted, Dispatch!Open, Dispatch!TasksOnly, Dispatch!bounds, DispatchInv,
           TasksHoldClaims, Dispatch!NoClaim
  <1>12. QED
    BY <1>5, <1>6, <1>7, <1>8, <1>9, <1>10, <1>11 DEF DispatchInv

LEMMA DispatchProcess ==
    ASSUME DispatchFinite, DispatchInv, NEW j \in Jobs, Dispatch!Process(j)
    PROVE  DispatchInv'
  <1>1. /\ Tasked(task) \in Nat /\ Worked(task) \in Nat /\ Tasked(task') \in Nat /\ Worked(task') \in Nat
        /\ Dispatch!Active = Tasked(task) + ending /\ Dispatch!Active' = Tasked(task') + ending'
    BY TaskCounts, ActiveIs DEF DispatchFinite
  <1> USE <1>1
  <1>2. task \in [Jobs -> TaskAt] /\ ending \in Nat /\ registry \in Nat
    BY DEF DispatchInv, DispatchTyped, TaskAt
  <1>3. task[j] = "working" /\ task' = [task EXCEPT ![j] = "none"]
    BY DEF Dispatch!Process, Dispatch!Processed
  <1>4. Tasked(task') = Tasked(task) - 1 /\ Worked(task') = Worked(task) - 1
    <2>1. {"none", "starting", "working"} = TaskAt /\ IsFiniteSet(Jobs)
      BY DEF TaskAt, DispatchFinite
    <2>2. /\ Tasked([task EXCEPT ![j] = "none"]) =
                Tasked(task) + (IF "none" = "none" THEN 0 ELSE 1) - (IF task[j] = "none" THEN 0 ELSE 1)
          /\ Worked([task EXCEPT ![j] = "none"]) =
                Worked(task) + (IF "none" = "working" THEN 1 ELSE 0) - (IF task[j] = "working" THEN 1 ELSE 0)
      BY <1>2, <2>1, Recounted
    <2>3. QED
      BY <1>1, <1>3, <2>2
  <1> USE <1>4
  <1>5. DispatchTyped'
    <2>1. job' \in [Jobs -> {"absent", "due", "claimed", "over"}] /\ unseen' \subseteq Jobs
      BY DEF Dispatch!Process, Dispatch!Open, Dispatch!Processed, Dispatch!Told,
             Dispatch!bounds, Dispatch!Fault, Dispatch!TasksOnly, DispatchInv, DispatchTyped,
             Dispatch!Versions, Channels, Dispatch!Points, ClaimsUnderWay, Dispatch!NoClaim
    <2>2. service' \in [up : SUBSET Services, failed : SUBSET Services]
      BY DEF Dispatch!Process, Dispatch!Open, Dispatch!Processed, Dispatch!Told,
             Dispatch!bounds, Dispatch!Fault, Dispatch!TasksOnly, DispatchInv, DispatchTyped,
             Dispatch!Versions, Channels, Dispatch!Points, ClaimsUnderWay, Dispatch!NoClaim
    <2>3. settings' \in Dispatch!Versions /\ processor' \in Dispatch!Versions /\ pending' \subseteq Channels
      BY DEF Dispatch!Process, Dispatch!Open, Dispatch!Processed, Dispatch!Told,
             Dispatch!bounds, Dispatch!Fault, Dispatch!TasksOnly, DispatchInv, DispatchTyped,
             Dispatch!Versions, Channels, Dispatch!Points, ClaimsUnderWay, Dispatch!NoClaim
    <2>4. dispatcher' \in [at : Dispatch!Points, once : BOOLEAN, read : Dispatch!Versions, wake : SUBSET Channels]
      BY DEF Dispatch!Process, Dispatch!Open, Dispatch!Processed, Dispatch!Told,
             Dispatch!bounds, Dispatch!Fault, Dispatch!TasksOnly, DispatchInv, DispatchTyped,
             Dispatch!Versions, Channels, Dispatch!Points, ClaimsUnderWay, Dispatch!NoClaim
    <2>5. IF dispatcher'.at = "claiming" THEN claim' \in ClaimsUnderWay ELSE claim' = Dispatch!NoClaim
      BY DEF Dispatch!Process, Dispatch!Open, Dispatch!Processed, Dispatch!Told,
             Dispatch!bounds, Dispatch!Fault, Dispatch!TasksOnly, DispatchInv, DispatchTyped,
             Dispatch!Versions, Channels, Dispatch!Points, ClaimsUnderWay, Dispatch!NoClaim
    <2>6. task' \in [Jobs -> {"none", "starting", "working"}] /\ delayed' \in BOOLEAN
      BY DEF Dispatch!Process, Dispatch!Open, Dispatch!Processed, Dispatch!Told,
             Dispatch!bounds, Dispatch!Fault, Dispatch!TasksOnly, DispatchInv, DispatchTyped,
             Dispatch!Versions, Channels, Dispatch!Points, ClaimsUnderWay, Dispatch!NoClaim
    <2>7. ending' \in Nat /\ registry' \in Nat /\ faults' \in Nat /\ outages' \in Nat
      BY DEF Dispatch!Process, Dispatch!Open, Dispatch!Processed, Dispatch!Told,
             Dispatch!bounds, Dispatch!Fault, Dispatch!TasksOnly, DispatchInv, DispatchTyped,
             Dispatch!Versions, Channels, Dispatch!Points, ClaimsUnderWay, Dispatch!NoClaim
    <2>8. /\ migration' \in {"polling", "working", "ended", "failed"}
          /\ retention' \in [closed : BOOLEAN, running : BOOLEAN, timer : BOOLEAN]
          /\ worker' \in {"up", "closing", "closed"} /\ aborted' \in BOOLEAN /\ missed' \in BOOLEAN
      BY DEF Dispatch!Process, Dispatch!Open, Dispatch!Processed, Dispatch!Told,
             Dispatch!bounds, Dispatch!Fault, Dispatch!TasksOnly, DispatchInv, DispatchTyped,
             Dispatch!Versions, Channels, Dispatch!Points, ClaimsUnderWay, Dispatch!NoClaim
    <2>9. QED
      BY <2>1, <2>2, <2>3, <2>4, <2>5, <2>6, <2>7, <2>8 DEF DispatchTyped
  <1>6. ReadsFirst'
    BY DEF Dispatch!Process, Dispatch!Open, Dispatch!Processed, Dispatch!Told, Dispatch!bounds,
           Dispatch!Fault, Dispatch!TasksOnly, DispatchInv, ReadsFirst, Dispatch!Full,
           DispatchTyped, Dispatch!NoClaim
  <1>7. RestsAlone'
    BY DEF Dispatch!Process, Dispatch!Open, Dispatch!Processed, Dispatch!Told, Dispatch!bounds,
           Dispatch!Fault, Dispatch!TasksOnly, DispatchInv, RestsAlone, DispatchTyped,
           Dispatch!NoClaim
  <1>8. EndsInOrder'
    BY DEF Dispatch!Process, Dispatch!Open, Dispatch!Processed, Dispatch!Told, Dispatch!bounds,
           Dispatch!Fault, Dispatch!TasksOnly, DispatchInv, EndsInOrder, DispatchTyped,
           Dispatch!NoClaim
  <1>9. Dispatch!ClaimedIsHeld'
    BY DEF Dispatch!Process, Dispatch!Open, Dispatch!Processed, Dispatch!Told, Dispatch!bounds,
           Dispatch!Fault, Dispatch!TasksOnly, DispatchInv, Dispatch!ClaimedIsHeld,
           DispatchTyped, Dispatch!NoClaim, Dispatch!DoclingJobs, RestsAlone, EndsInOrder
  <1>10. Counted'
    BY DEF Dispatch!Process, Dispatch!Open, Dispatch!Processed, Dispatch!Told, Dispatch!bounds,
           Dispatch!Fault, Dispatch!TasksOnly, DispatchInv, Counted, DispatchTyped,
           Dispatch!NoClaim
  <1>11. TasksHoldClaims'
    BY DEF Dispatch!Process, Dispatch!Open, Dispatch!Processed, Dispatch!Told, Dispatch!bounds,
           Dispatch!Fault, Dispatch!TasksOnly, DispatchInv, TasksHoldClaims, DispatchTyped,
           Dispatch!NoClaim
  <1>12. QED
    BY <1>5, <1>6, <1>7, <1>8, <1>9, <1>10, <1>11 DEF DispatchInv

LEMMA DispatchProgress ==
    ASSUME DispatchFinite, DispatchInv, NEW j \in Jobs, Dispatch!Progress(j)
    PROVE  DispatchInv'
  <1>1. /\ Tasked(task) \in Nat /\ Worked(task) \in Nat /\ Tasked(task') \in Nat /\ Worked(task') \in Nat
        /\ Dispatch!Active = Tasked(task) + ending /\ Dispatch!Active' = Tasked(task') + ending'
    BY TaskCounts, ActiveIs DEF DispatchFinite
  <1> USE <1>1
  <1>2. DispatchTyped'
    BY DEF Dispatch!Progress, Dispatch!Open, Dispatch!Told, Dispatch!TasksOnly, Dispatch!bounds,
           DispatchInv, DispatchTyped, Dispatch!Versions, Channels, Dispatch!Points,
           ClaimsUnderWay, Dispatch!NoClaim
  <1>3. ReadsFirst'
    BY DEF Dispatch!Progress, Dispatch!Open, Dispatch!Told, Dispatch!TasksOnly, Dispatch!bounds,
           DispatchInv, ReadsFirst, Dispatch!Full, Dispatch!NoClaim
  <1>4. RestsAlone'
    BY DEF Dispatch!Progress, Dispatch!Open, Dispatch!Told, Dispatch!TasksOnly, Dispatch!bounds,
           DispatchInv, RestsAlone, Dispatch!NoClaim
  <1>5. EndsInOrder'
    BY DEF Dispatch!Progress, Dispatch!Open, Dispatch!Told, Dispatch!TasksOnly, Dispatch!bounds,
           DispatchInv, EndsInOrder, Dispatch!NoClaim
  <1>6. Dispatch!ClaimedIsHeld'
    BY DEF Dispatch!Progress, Dispatch!Open, Dispatch!Told, Dispatch!TasksOnly, Dispatch!bounds,
           DispatchInv, Dispatch!ClaimedIsHeld, Dispatch!NoClaim
  <1>7. Counted'
    BY DEF Dispatch!Progress, Dispatch!Open, Dispatch!Told, Dispatch!TasksOnly, Dispatch!bounds,
           DispatchInv, Counted, Dispatch!NoClaim
  <1>8. TasksHoldClaims'
    BY DEF Dispatch!Progress, Dispatch!Open, Dispatch!Told, Dispatch!TasksOnly, Dispatch!bounds,
           DispatchInv, TasksHoldClaims, Dispatch!NoClaim
  <1>9. QED
    BY <1>2, <1>3, <1>4, <1>5, <1>6, <1>7, <1>8 DEF DispatchInv

LEMMA DispatchJobStartFails ==
    ASSUME DispatchFinite, DispatchInv, NEW j \in Jobs, Dispatch!JobStartFails(j)
    PROVE  DispatchInv'
  <1>1. /\ Tasked(task) \in Nat /\ Worked(task) \in Nat /\ Tasked(task') \in Nat /\ Worked(task') \in Nat
        /\ Dispatch!Active = Tasked(task) + ending /\ Dispatch!Active' = Tasked(task') + ending'
    BY TaskCounts, ActiveIs DEF DispatchFinite
  <1> USE <1>1
  <1>2. task \in [Jobs -> TaskAt] /\ ending \in Nat /\ registry \in Nat
    BY DEF DispatchInv, DispatchTyped, TaskAt
  <1>3. task[j] = "starting" /\ task' = [task EXCEPT ![j] = "none"]
    BY DEF Dispatch!JobStartFails
  <1>4. Tasked(task') = Tasked(task) - 1 /\ Worked(task') = Worked(task)
    <2>1. {"none", "starting", "working"} = TaskAt /\ IsFiniteSet(Jobs)
      BY DEF TaskAt, DispatchFinite
    <2>2. /\ Tasked([task EXCEPT ![j] = "none"]) =
                Tasked(task) + (IF "none" = "none" THEN 0 ELSE 1) - (IF task[j] = "none" THEN 0 ELSE 1)
          /\ Worked([task EXCEPT ![j] = "none"]) =
                Worked(task) + (IF "none" = "working" THEN 1 ELSE 0) - (IF task[j] = "working" THEN 1 ELSE 0)
      BY <1>2, <2>1, Recounted
    <2>3. QED
      BY <1>1, <1>3, <2>2
  <1> USE <1>4
  <1>5. DispatchTyped'
    <2>1. job' \in [Jobs -> {"absent", "due", "claimed", "over"}] /\ unseen' \subseteq Jobs
      BY DEF Dispatch!JobStartFails, Dispatch!Open, Dispatch!Fault, Dispatch!bounds,
             Dispatch!TaskEnds, Dispatch!At, Dispatch!Awake, Dispatch!TasksOnly, DispatchInv,
             DispatchTyped, Dispatch!Versions, Channels, Dispatch!Points, ClaimsUnderWay,
             Dispatch!NoClaim
    <2>2. service' \in [up : SUBSET Services, failed : SUBSET Services]
      BY DEF Dispatch!JobStartFails, Dispatch!Open, Dispatch!Fault, Dispatch!bounds,
             Dispatch!TaskEnds, Dispatch!At, Dispatch!Awake, Dispatch!TasksOnly, DispatchInv,
             DispatchTyped, Dispatch!Versions, Channels, Dispatch!Points, ClaimsUnderWay,
             Dispatch!NoClaim
    <2>3. settings' \in Dispatch!Versions /\ processor' \in Dispatch!Versions /\ pending' \subseteq Channels
      BY DEF Dispatch!JobStartFails, Dispatch!Open, Dispatch!Fault, Dispatch!bounds,
             Dispatch!TaskEnds, Dispatch!At, Dispatch!Awake, Dispatch!TasksOnly, DispatchInv,
             DispatchTyped, Dispatch!Versions, Channels, Dispatch!Points, ClaimsUnderWay,
             Dispatch!NoClaim
    <2>4. dispatcher' \in [at : Dispatch!Points, once : BOOLEAN, read : Dispatch!Versions, wake : SUBSET Channels]
      BY DEF Dispatch!JobStartFails, Dispatch!Open, Dispatch!Fault, Dispatch!bounds,
             Dispatch!TaskEnds, Dispatch!At, Dispatch!Awake, Dispatch!TasksOnly, DispatchInv,
             DispatchTyped, Dispatch!Versions, Channels, Dispatch!Points, ClaimsUnderWay,
             Dispatch!NoClaim
    <2>5. IF dispatcher'.at = "claiming" THEN claim' \in ClaimsUnderWay ELSE claim' = Dispatch!NoClaim
      BY DEF Dispatch!JobStartFails, Dispatch!Open, Dispatch!Fault, Dispatch!bounds,
             Dispatch!TaskEnds, Dispatch!At, Dispatch!Awake, Dispatch!TasksOnly, DispatchInv,
             DispatchTyped, Dispatch!Versions, Channels, Dispatch!Points, ClaimsUnderWay,
             Dispatch!NoClaim
    <2>6. task' \in [Jobs -> {"none", "starting", "working"}] /\ delayed' \in BOOLEAN
      BY DEF Dispatch!JobStartFails, Dispatch!Open, Dispatch!Fault, Dispatch!bounds,
             Dispatch!TaskEnds, Dispatch!At, Dispatch!Awake, Dispatch!TasksOnly, DispatchInv,
             DispatchTyped, Dispatch!Versions, Channels, Dispatch!Points, ClaimsUnderWay,
             Dispatch!NoClaim
    <2>7. ending' \in Nat /\ registry' \in Nat /\ faults' \in Nat /\ outages' \in Nat
      BY DEF Dispatch!JobStartFails, Dispatch!Open, Dispatch!Fault, Dispatch!bounds,
             Dispatch!TaskEnds, Dispatch!At, Dispatch!Awake, Dispatch!TasksOnly, DispatchInv,
             DispatchTyped, Dispatch!Versions, Channels, Dispatch!Points, ClaimsUnderWay,
             Dispatch!NoClaim
    <2>8. /\ migration' \in {"polling", "working", "ended", "failed"}
          /\ retention' \in [closed : BOOLEAN, running : BOOLEAN, timer : BOOLEAN]
          /\ worker' \in {"up", "closing", "closed"} /\ aborted' \in BOOLEAN /\ missed' \in BOOLEAN
      BY DEF Dispatch!JobStartFails, Dispatch!Open, Dispatch!Fault, Dispatch!bounds,
             Dispatch!TaskEnds, Dispatch!At, Dispatch!Awake, Dispatch!TasksOnly, DispatchInv,
             DispatchTyped, Dispatch!Versions, Channels, Dispatch!Points, ClaimsUnderWay,
             Dispatch!NoClaim
    <2>9. QED
      BY <2>1, <2>2, <2>3, <2>4, <2>5, <2>6, <2>7, <2>8 DEF DispatchTyped
  <1>6. ReadsFirst'
    BY DEF Dispatch!JobStartFails, Dispatch!Open, Dispatch!Fault, Dispatch!bounds,
           Dispatch!TaskEnds, Dispatch!At, Dispatch!Awake, Dispatch!TasksOnly, DispatchInv,
           ReadsFirst, Dispatch!Full, Dispatch!NoClaim
  <1>7. RestsAlone'
    BY DEF Dispatch!JobStartFails, Dispatch!Open, Dispatch!Fault, Dispatch!bounds,
           Dispatch!TaskEnds, Dispatch!At, Dispatch!Awake, Dispatch!TasksOnly, DispatchInv,
           RestsAlone, DispatchTyped, Dispatch!NoClaim
  <1>8. EndsInOrder'
    BY DEF Dispatch!JobStartFails, Dispatch!Open, Dispatch!Fault, Dispatch!bounds,
           Dispatch!TaskEnds, Dispatch!At, Dispatch!Awake, Dispatch!TasksOnly, DispatchInv,
           EndsInOrder, DispatchTyped, Dispatch!NoClaim
  <1>9. Dispatch!ClaimedIsHeld'
    BY DEF Dispatch!JobStartFails, Dispatch!Open, Dispatch!Fault, Dispatch!bounds,
           Dispatch!TaskEnds, Dispatch!At, Dispatch!Awake, Dispatch!TasksOnly, DispatchInv,
           Dispatch!ClaimedIsHeld, DispatchTyped, Dispatch!NoClaim, Dispatch!DoclingJobs,
           RestsAlone, EndsInOrder
  <1>10. Counted'
    BY DEF Dispatch!JobStartFails, Dispatch!Open, Dispatch!Fault, Dispatch!bounds,
           Dispatch!TaskEnds, Dispatch!At, Dispatch!Awake, Dispatch!TasksOnly, DispatchInv,
           Counted, DispatchTyped, Dispatch!NoClaim, ReadsFirst, Dispatch!DoclingJobs,
           Dispatch!Full, RestsAlone, EndsInOrder, Dispatch!ClaimedIsHeld, TasksHoldClaims
  <1>11. TasksHoldClaims'
    BY DEF Dispatch!JobStartFails, Dispatch!Open, Dispatch!Fault, Dispatch!bounds,
           Dispatch!TaskEnds, Dispatch!At, Dispatch!Awake, Dispatch!TasksOnly, DispatchInv,
           TasksHoldClaims, Dispatch!NoClaim
  <1>12. QED
    BY <1>5, <1>6, <1>7, <1>8, <1>9, <1>10, <1>11 DEF DispatchInv

LEMMA DispatchJobFinished ==
    ASSUME DispatchFinite, DispatchInv, Dispatch!JobFinished
    PROVE  DispatchInv'
  <1>1. /\ Tasked(task) \in Nat /\ Worked(task) \in Nat /\ Tasked(task') \in Nat /\ Worked(task') \in Nat
        /\ Dispatch!Active = Tasked(task) + ending /\ Dispatch!Active' = Tasked(task') + ending'
    BY TaskCounts, ActiveIs DEF DispatchFinite
  <1> USE <1>1
  <1>2. registry \in Nat /\ registry + -1 \in Int /\ registry - 1 \in Int /\ registry + -1 = registry - 1
    BY DEF DispatchInv, DispatchTyped
  <1>3. Dispatch!Max({0, registry - 1}) = IF registry > 0 THEN registry - 1 ELSE 0
    BY <1>2, LargerOfTwo
  <1>4. registry' = (IF registry > 0 THEN registry - 1 ELSE 0) /\ ending' = ending - 1 /\ ending > 0
    BY <1>2, <1>3 DEF Dispatch!JobFinished, Dispatch!Finished
  <1> USE <1>2, <1>4
  <1>5. DispatchTyped'
    <2>1. job' \in [Jobs -> {"absent", "due", "claimed", "over"}] /\ unseen' \subseteq Jobs
      BY DEF Dispatch!JobFinished, Dispatch!Finished, Dispatch!TaskEnds, Dispatch!At,
             Dispatch!Awake, Dispatch!TasksOnly, Dispatch!bounds, DispatchInv, DispatchTyped,
             Dispatch!Versions, Channels, Dispatch!Points, ClaimsUnderWay, Dispatch!NoClaim
    <2>2. service' \in [up : SUBSET Services, failed : SUBSET Services]
      BY DEF Dispatch!JobFinished, Dispatch!Finished, Dispatch!TaskEnds, Dispatch!At,
             Dispatch!Awake, Dispatch!TasksOnly, Dispatch!bounds, DispatchInv, DispatchTyped,
             Dispatch!Versions, Channels, Dispatch!Points, ClaimsUnderWay, Dispatch!NoClaim
    <2>3. settings' \in Dispatch!Versions /\ processor' \in Dispatch!Versions /\ pending' \subseteq Channels
      BY DEF Dispatch!JobFinished, Dispatch!Finished, Dispatch!TaskEnds, Dispatch!At,
             Dispatch!Awake, Dispatch!TasksOnly, Dispatch!bounds, DispatchInv, DispatchTyped,
             Dispatch!Versions, Channels, Dispatch!Points, ClaimsUnderWay, Dispatch!NoClaim
    <2>4. dispatcher' \in [at : Dispatch!Points, once : BOOLEAN, read : Dispatch!Versions, wake : SUBSET Channels]
      BY DEF Dispatch!JobFinished, Dispatch!Finished, Dispatch!TaskEnds, Dispatch!At,
             Dispatch!Awake, Dispatch!TasksOnly, Dispatch!bounds, DispatchInv, DispatchTyped,
             Dispatch!Versions, Channels, Dispatch!Points, ClaimsUnderWay, Dispatch!NoClaim
    <2>5. IF dispatcher'.at = "claiming" THEN claim' \in ClaimsUnderWay ELSE claim' = Dispatch!NoClaim
      BY DEF Dispatch!JobFinished, Dispatch!Finished, Dispatch!TaskEnds, Dispatch!At,
             Dispatch!Awake, Dispatch!TasksOnly, Dispatch!bounds, DispatchInv, DispatchTyped,
             Dispatch!Versions, Channels, Dispatch!Points, ClaimsUnderWay, Dispatch!NoClaim
    <2>6. task' \in [Jobs -> {"none", "starting", "working"}] /\ delayed' \in BOOLEAN
      BY DEF Dispatch!JobFinished, Dispatch!Finished, Dispatch!TaskEnds, Dispatch!At,
             Dispatch!Awake, Dispatch!TasksOnly, Dispatch!bounds, DispatchInv, DispatchTyped,
             Dispatch!Versions, Channels, Dispatch!Points, ClaimsUnderWay, Dispatch!NoClaim
    <2>7. ending' \in Nat /\ registry' \in Nat /\ faults' \in Nat /\ outages' \in Nat
      BY DEF Dispatch!JobFinished, Dispatch!Finished, Dispatch!TaskEnds, Dispatch!At,
             Dispatch!Awake, Dispatch!TasksOnly, Dispatch!bounds, DispatchInv, DispatchTyped,
             Dispatch!Versions, Channels, Dispatch!Points, ClaimsUnderWay, Dispatch!NoClaim
    <2>8. /\ migration' \in {"polling", "working", "ended", "failed"}
          /\ retention' \in [closed : BOOLEAN, running : BOOLEAN, timer : BOOLEAN]
          /\ worker' \in {"up", "closing", "closed"} /\ aborted' \in BOOLEAN /\ missed' \in BOOLEAN
      BY DEF Dispatch!JobFinished, Dispatch!Finished, Dispatch!TaskEnds, Dispatch!At,
             Dispatch!Awake, Dispatch!TasksOnly, Dispatch!bounds, DispatchInv, DispatchTyped,
             Dispatch!Versions, Channels, Dispatch!Points, ClaimsUnderWay, Dispatch!NoClaim
    <2>9. QED
      BY <2>1, <2>2, <2>3, <2>4, <2>5, <2>6, <2>7, <2>8 DEF DispatchTyped
  <1>6. ReadsFirst'
    BY DEF Dispatch!JobFinished, Dispatch!Finished, Dispatch!TaskEnds, Dispatch!At,
           Dispatch!Awake, Dispatch!TasksOnly, Dispatch!bounds, DispatchInv, ReadsFirst,
           Dispatch!Full, Dispatch!NoClaim
  <1>7. RestsAlone'
    BY DEF Dispatch!JobFinished, Dispatch!Finished, Dispatch!TaskEnds, Dispatch!At,
           Dispatch!Awake, Dispatch!TasksOnly, Dispatch!bounds, DispatchInv, RestsAlone,
           DispatchTyped, Dispatch!NoClaim
  <1>8. EndsInOrder'
    BY DEF Dispatch!JobFinished, Dispatch!Finished, Dispatch!TaskEnds, Dispatch!At,
           Dispatch!Awake, Dispatch!TasksOnly, Dispatch!bounds, DispatchInv, EndsInOrder,
           Dispatch!NoClaim
  <1>9. Dispatch!ClaimedIsHeld'
    BY DEF Dispatch!JobFinished, Dispatch!Finished, Dispatch!TaskEnds, Dispatch!At,
           Dispatch!Awake, Dispatch!TasksOnly, Dispatch!bounds, DispatchInv,
           Dispatch!ClaimedIsHeld, Dispatch!NoClaim
  <1>10. Counted'
    BY DEF Dispatch!JobFinished, Dispatch!Finished, Dispatch!TaskEnds, Dispatch!At,
           Dispatch!Awake, Dispatch!TasksOnly, Dispatch!bounds, DispatchInv, Counted,
           DispatchTyped, Dispatch!NoClaim
  <1>11. TasksHoldClaims'
    BY DEF Dispatch!JobFinished, Dispatch!Finished, Dispatch!TaskEnds, Dispatch!At,
           Dispatch!Awake, Dispatch!TasksOnly, Dispatch!bounds, DispatchInv, TasksHoldClaims,
           Dispatch!NoClaim
  <1>12. QED
    BY <1>5, <1>6, <1>7, <1>8, <1>9, <1>10, <1>11 DEF DispatchInv

LEMMA DispatchMigrationStarts ==
    ASSUME DispatchFinite, DispatchInv, Dispatch!MigrationStarts
    PROVE  DispatchInv'
  <1>1. /\ Tasked(task) \in Nat /\ Worked(task) \in Nat /\ Tasked(task') \in Nat /\ Worked(task') \in Nat
        /\ Dispatch!Active = Tasked(task) + ending /\ Dispatch!Active' = Tasked(task') + ending'
    BY TaskCounts, ActiveIs DEF DispatchFinite
  <1> USE <1>1
  <1>2. DispatchTyped'
    BY DEF Dispatch!MigrationStarts, Dispatch!Open, Dispatch!Beside, Dispatch!database,
           Dispatch!bounds, DispatchInv, DispatchTyped, Dispatch!NoClaim
  <1>3. ReadsFirst'
    BY DEF Dispatch!MigrationStarts, Dispatch!Open, Dispatch!Beside, Dispatch!database,
           Dispatch!bounds, DispatchInv, ReadsFirst, Dispatch!Full, Dispatch!NoClaim
  <1>4. RestsAlone'
    BY DEF Dispatch!MigrationStarts, Dispatch!Open, Dispatch!Beside, Dispatch!database,
           Dispatch!bounds, DispatchInv, RestsAlone, Dispatch!NoClaim
  <1>5. EndsInOrder'
    BY DEF Dispatch!MigrationStarts, Dispatch!Open, Dispatch!Beside, Dispatch!database,
           Dispatch!bounds, DispatchInv, EndsInOrder, Dispatch!NoClaim
  <1>6. Dispatch!ClaimedIsHeld'
    BY DEF Dispatch!MigrationStarts, Dispatch!Open, Dispatch!Beside, Dispatch!database,
           Dispatch!bounds, DispatchInv, Dispatch!ClaimedIsHeld, Dispatch!NoClaim
  <1>7. Counted'
    BY DEF Dispatch!MigrationStarts, Dispatch!Open, Dispatch!Beside, Dispatch!database,
           Dispatch!bounds, DispatchInv, Counted, DispatchTyped, Dispatch!NoClaim
  <1>8. TasksHoldClaims'
    BY DEF Dispatch!MigrationStarts, Dispatch!Open, Dispatch!Beside, Dispatch!database,
           Dispatch!bounds, DispatchInv, TasksHoldClaims, Dispatch!NoClaim
  <1>9. QED
    BY <1>2, <1>3, <1>4, <1>5, <1>6, <1>7, <1>8 DEF DispatchInv

LEMMA DispatchMigrationFinishes ==
    ASSUME DispatchFinite, DispatchInv, Dispatch!MigrationFinishes
    PROVE  DispatchInv'
  <1>1. /\ Tasked(task) \in Nat /\ Worked(task) \in Nat /\ Tasked(task') \in Nat /\ Worked(task') \in Nat
        /\ Dispatch!Active = Tasked(task) + ending /\ Dispatch!Active' = Tasked(task') + ending'
    BY TaskCounts, ActiveIs DEF DispatchFinite
  <1> USE <1>1
  <1>2. registry \in Nat /\ registry + -1 \in Int /\ registry - 1 \in Int /\ registry + -1 = registry - 1
    BY DEF DispatchInv, DispatchTyped
  <1>3. Dispatch!Max({0, registry - 1}) = IF registry > 0 THEN registry - 1 ELSE 0
    BY <1>2, LargerOfTwo
  <1>4. registry' = IF registry > 0 THEN registry - 1 ELSE 0
    BY <1>3 DEF Dispatch!MigrationFinishes
  <1> USE <1>2, <1>4
  <1>5. DispatchTyped'
    <2>1. job' \in [Jobs -> {"absent", "due", "claimed", "over"}] /\ unseen' \subseteq Jobs
      BY DEF Dispatch!MigrationFinishes, Dispatch!Open, Dispatch!Beside, Dispatch!database,
             Dispatch!bounds, DispatchInv, DispatchTyped, Dispatch!Versions, Channels,
             Dispatch!Points, ClaimsUnderWay, Dispatch!NoClaim
    <2>2. service' \in [up : SUBSET Services, failed : SUBSET Services]
      BY DEF Dispatch!MigrationFinishes, Dispatch!Open, Dispatch!Beside, Dispatch!database,
             Dispatch!bounds, DispatchInv, DispatchTyped, Dispatch!Versions, Channels,
             Dispatch!Points, ClaimsUnderWay, Dispatch!NoClaim
    <2>3. settings' \in Dispatch!Versions /\ processor' \in Dispatch!Versions /\ pending' \subseteq Channels
      BY DEF Dispatch!MigrationFinishes, Dispatch!Open, Dispatch!Beside, Dispatch!database,
             Dispatch!bounds, DispatchInv, DispatchTyped, Dispatch!Versions, Channels,
             Dispatch!Points, ClaimsUnderWay, Dispatch!NoClaim
    <2>4. dispatcher' \in [at : Dispatch!Points, once : BOOLEAN, read : Dispatch!Versions, wake : SUBSET Channels]
      BY DEF Dispatch!MigrationFinishes, Dispatch!Open, Dispatch!Beside, Dispatch!database,
             Dispatch!bounds, DispatchInv, DispatchTyped, Dispatch!Versions, Channels,
             Dispatch!Points, ClaimsUnderWay, Dispatch!NoClaim
    <2>5. IF dispatcher'.at = "claiming" THEN claim' \in ClaimsUnderWay ELSE claim' = Dispatch!NoClaim
      BY DEF Dispatch!MigrationFinishes, Dispatch!Open, Dispatch!Beside, Dispatch!database,
             Dispatch!bounds, DispatchInv, DispatchTyped, Dispatch!Versions, Channels,
             Dispatch!Points, ClaimsUnderWay, Dispatch!NoClaim
    <2>6. task' \in [Jobs -> {"none", "starting", "working"}] /\ delayed' \in BOOLEAN
      BY DEF Dispatch!MigrationFinishes, Dispatch!Open, Dispatch!Beside, Dispatch!database,
             Dispatch!bounds, DispatchInv, DispatchTyped, Dispatch!Versions, Channels,
             Dispatch!Points, ClaimsUnderWay, Dispatch!NoClaim
    <2>7. ending' \in Nat /\ registry' \in Nat /\ faults' \in Nat /\ outages' \in Nat
      BY DEF Dispatch!MigrationFinishes, Dispatch!Open, Dispatch!Beside, Dispatch!database,
             Dispatch!bounds, DispatchInv, DispatchTyped, Dispatch!Versions, Channels,
             Dispatch!Points, ClaimsUnderWay, Dispatch!NoClaim
    <2>8. /\ migration' \in {"polling", "working", "ended", "failed"}
          /\ retention' \in [closed : BOOLEAN, running : BOOLEAN, timer : BOOLEAN]
          /\ worker' \in {"up", "closing", "closed"} /\ aborted' \in BOOLEAN /\ missed' \in BOOLEAN
      BY DEF Dispatch!MigrationFinishes, Dispatch!Open, Dispatch!Beside, Dispatch!database,
             Dispatch!bounds, DispatchInv, DispatchTyped, Dispatch!Versions, Channels,
             Dispatch!Points, ClaimsUnderWay, Dispatch!NoClaim
    <2>9. QED
      BY <2>1, <2>2, <2>3, <2>4, <2>5, <2>6, <2>7, <2>8 DEF DispatchTyped
  <1>6. ReadsFirst'
    BY DEF Dispatch!MigrationFinishes, Dispatch!Open, Dispatch!Beside, Dispatch!database,
           Dispatch!bounds, DispatchInv, ReadsFirst, Dispatch!Full, Dispatch!NoClaim
  <1>7. RestsAlone'
    BY DEF Dispatch!MigrationFinishes, Dispatch!Open, Dispatch!Beside, Dispatch!database,
           Dispatch!bounds, DispatchInv, RestsAlone, Dispatch!NoClaim
  <1>8. EndsInOrder'
    BY DEF Dispatch!MigrationFinishes, Dispatch!Open, Dispatch!Beside, Dispatch!database,
           Dispatch!bounds, DispatchInv, EndsInOrder, Dispatch!NoClaim
  <1>9. Dispatch!ClaimedIsHeld'
    BY DEF Dispatch!MigrationFinishes, Dispatch!Open, Dispatch!Beside, Dispatch!database,
           Dispatch!bounds, DispatchInv, Dispatch!ClaimedIsHeld, Dispatch!NoClaim
  <1>10. Counted'
    BY DEF Dispatch!MigrationFinishes, Dispatch!Open, Dispatch!Beside, Dispatch!database,
           Dispatch!bounds, DispatchInv, Counted, DispatchTyped, Dispatch!NoClaim
  <1>11. TasksHoldClaims'
    BY DEF Dispatch!MigrationFinishes, Dispatch!Open, Dispatch!Beside, Dispatch!database,
           Dispatch!bounds, DispatchInv, TasksHoldClaims, Dispatch!NoClaim
  <1>12. QED
    BY <1>5, <1>6, <1>7, <1>8, <1>9, <1>10, <1>11 DEF DispatchInv

LEMMA DispatchMigrationEnds ==
    ASSUME DispatchFinite, DispatchInv, Dispatch!MigrationEnds
    PROVE  DispatchInv'
  <1>1. /\ Tasked(task) \in Nat /\ Worked(task) \in Nat /\ Tasked(task') \in Nat /\ Worked(task') \in Nat
        /\ Dispatch!Active = Tasked(task) + ending /\ Dispatch!Active' = Tasked(task') + ending'
    BY TaskCounts, ActiveIs DEF DispatchFinite
  <1> USE <1>1
  <1>2. DispatchTyped'
    BY DEF Dispatch!MigrationEnds, Dispatch!Beside, Dispatch!database, Dispatch!bounds,
           DispatchInv, DispatchTyped, Dispatch!NoClaim
  <1>3. ReadsFirst'
    BY DEF Dispatch!MigrationEnds, Dispatch!Beside, Dispatch!database, Dispatch!bounds,
           DispatchInv, ReadsFirst, Dispatch!Full, Dispatch!NoClaim
  <1>4. RestsAlone'
    BY DEF Dispatch!MigrationEnds, Dispatch!Beside, Dispatch!database, Dispatch!bounds,
           DispatchInv, RestsAlone, Dispatch!NoClaim
  <1>5. EndsInOrder'
    BY DEF Dispatch!MigrationEnds, Dispatch!Beside, Dispatch!database, Dispatch!bounds,
           DispatchInv, EndsInOrder, Dispatch!NoClaim
  <1>6. Dispatch!ClaimedIsHeld'
    BY DEF Dispatch!MigrationEnds, Dispatch!Beside, Dispatch!database, Dispatch!bounds,
           DispatchInv, Dispatch!ClaimedIsHeld, Dispatch!NoClaim
  <1>7. Counted'
    BY DEF Dispatch!MigrationEnds, Dispatch!Beside, Dispatch!database, Dispatch!bounds,
           DispatchInv, Counted, Dispatch!NoClaim
  <1>8. TasksHoldClaims'
    BY DEF Dispatch!MigrationEnds, Dispatch!Beside, Dispatch!database, Dispatch!bounds,
           DispatchInv, TasksHoldClaims, Dispatch!NoClaim
  <1>9. QED
    BY <1>2, <1>3, <1>4, <1>5, <1>6, <1>7, <1>8 DEF DispatchInv

LEMMA DispatchMigrationFails ==
    ASSUME DispatchFinite, DispatchInv, Dispatch!MigrationFails
    PROVE  DispatchInv'
  <1>1. /\ Tasked(task) \in Nat /\ Worked(task) \in Nat /\ Tasked(task') \in Nat /\ Worked(task') \in Nat
        /\ Dispatch!Active = Tasked(task) + ending /\ Dispatch!Active' = Tasked(task') + ending'
    BY TaskCounts, ActiveIs DEF DispatchFinite
  <1> USE <1>1
  <1>2. registry \in Nat /\ registry + -1 \in Int /\ registry - 1 \in Int /\ registry + -1 = registry - 1
    BY DEF DispatchInv, DispatchTyped
  <1>3. Dispatch!Max({0, registry - 1}) = IF registry > 0 THEN registry - 1 ELSE 0
    BY <1>2, LargerOfTwo
  <1>4. IF migration = "polling" THEN registry' \in {registry, registry + 1}
        ELSE registry' = IF registry > 0 THEN registry - 1 ELSE 0
    BY <1>3 DEF Dispatch!MigrationFails
  <1> USE <1>2, <1>4
  <1>5. DispatchTyped'
    <2>1. job' \in [Jobs -> {"absent", "due", "claimed", "over"}] /\ unseen' \subseteq Jobs
      BY DEF Dispatch!MigrationFails, Dispatch!Open, Dispatch!Fault, Dispatch!bounds,
             Dispatch!Beside, Dispatch!database, DispatchInv, DispatchTyped, Dispatch!Versions,
             Channels, Dispatch!Points, ClaimsUnderWay, Dispatch!NoClaim
    <2>2. service' \in [up : SUBSET Services, failed : SUBSET Services]
      BY DEF Dispatch!MigrationFails, Dispatch!Open, Dispatch!Fault, Dispatch!bounds,
             Dispatch!Beside, Dispatch!database, DispatchInv, DispatchTyped, Dispatch!Versions,
             Channels, Dispatch!Points, ClaimsUnderWay, Dispatch!NoClaim
    <2>3. settings' \in Dispatch!Versions /\ processor' \in Dispatch!Versions /\ pending' \subseteq Channels
      BY DEF Dispatch!MigrationFails, Dispatch!Open, Dispatch!Fault, Dispatch!bounds,
             Dispatch!Beside, Dispatch!database, DispatchInv, DispatchTyped, Dispatch!Versions,
             Channels, Dispatch!Points, ClaimsUnderWay, Dispatch!NoClaim
    <2>4. dispatcher' \in [at : Dispatch!Points, once : BOOLEAN, read : Dispatch!Versions, wake : SUBSET Channels]
      BY DEF Dispatch!MigrationFails, Dispatch!Open, Dispatch!Fault, Dispatch!bounds,
             Dispatch!Beside, Dispatch!database, DispatchInv, DispatchTyped, Dispatch!Versions,
             Channels, Dispatch!Points, ClaimsUnderWay, Dispatch!NoClaim
    <2>5. IF dispatcher'.at = "claiming" THEN claim' \in ClaimsUnderWay ELSE claim' = Dispatch!NoClaim
      BY DEF Dispatch!MigrationFails, Dispatch!Open, Dispatch!Fault, Dispatch!bounds,
             Dispatch!Beside, Dispatch!database, DispatchInv, DispatchTyped, Dispatch!Versions,
             Channels, Dispatch!Points, ClaimsUnderWay, Dispatch!NoClaim
    <2>6. task' \in [Jobs -> {"none", "starting", "working"}] /\ delayed' \in BOOLEAN
      BY DEF Dispatch!MigrationFails, Dispatch!Open, Dispatch!Fault, Dispatch!bounds,
             Dispatch!Beside, Dispatch!database, DispatchInv, DispatchTyped, Dispatch!Versions,
             Channels, Dispatch!Points, ClaimsUnderWay, Dispatch!NoClaim
    <2>7. ending' \in Nat /\ registry' \in Nat /\ faults' \in Nat /\ outages' \in Nat
      BY DEF Dispatch!MigrationFails, Dispatch!Open, Dispatch!Fault, Dispatch!bounds,
             Dispatch!Beside, Dispatch!database, DispatchInv, DispatchTyped, Dispatch!Versions,
             Channels, Dispatch!Points, ClaimsUnderWay, Dispatch!NoClaim
    <2>8. /\ migration' \in {"polling", "working", "ended", "failed"}
          /\ retention' \in [closed : BOOLEAN, running : BOOLEAN, timer : BOOLEAN]
          /\ worker' \in {"up", "closing", "closed"} /\ aborted' \in BOOLEAN /\ missed' \in BOOLEAN
      BY DEF Dispatch!MigrationFails, Dispatch!Open, Dispatch!Fault, Dispatch!bounds,
             Dispatch!Beside, Dispatch!database, DispatchInv, DispatchTyped, Dispatch!Versions,
             Channels, Dispatch!Points, ClaimsUnderWay, Dispatch!NoClaim
    <2>9. QED
      BY <2>1, <2>2, <2>3, <2>4, <2>5, <2>6, <2>7, <2>8 DEF DispatchTyped
  <1>6. ReadsFirst'
    BY DEF Dispatch!MigrationFails, Dispatch!Open, Dispatch!Fault, Dispatch!bounds,
           Dispatch!Beside, Dispatch!database, DispatchInv, ReadsFirst, Dispatch!Full,
           Dispatch!NoClaim
  <1>7. RestsAlone'
    BY DEF Dispatch!MigrationFails, Dispatch!Open, Dispatch!Fault, Dispatch!bounds,
           Dispatch!Beside, Dispatch!database, DispatchInv, RestsAlone, Dispatch!NoClaim
  <1>8. EndsInOrder'
    BY DEF Dispatch!MigrationFails, Dispatch!Open, Dispatch!Fault, Dispatch!bounds,
           Dispatch!Beside, Dispatch!database, DispatchInv, EndsInOrder, DispatchTyped,
           Dispatch!NoClaim
  <1>9. Dispatch!ClaimedIsHeld'
    BY DEF Dispatch!MigrationFails, Dispatch!Open, Dispatch!Fault, Dispatch!bounds,
           Dispatch!Beside, Dispatch!database, DispatchInv, Dispatch!ClaimedIsHeld,
           DispatchTyped, Dispatch!NoClaim
  <1>10. Counted'
    <2>1. faults' # 0 /\ (migration = "polling" \/ migration = "working") /\ migration' = "failed"
      BY DEF Dispatch!MigrationFails, Dispatch!Open, Dispatch!Fault, Dispatch!bounds, DispatchInv,
             DispatchTyped, EndsInOrder
    <2>2. ending \in Nat /\ ending' = ending /\ task' = task
      BY DEF Dispatch!MigrationFails, Dispatch!Beside, DispatchInv, DispatchTyped
    <2>3. CASE migration = "polling"
      BY <2>1, <2>2, <2>3 DEF DispatchInv, Counted
    <2>4. CASE migration = "working"
      BY <2>1, <2>2, <2>4 DEF DispatchInv, Counted
    <2>5. QED
      BY <2>1, <2>3, <2>4
  <1>11. TasksHoldClaims'
    BY DEF Dispatch!MigrationFails, Dispatch!Open, Dispatch!Fault, Dispatch!bounds,
           Dispatch!Beside, Dispatch!database, DispatchInv, TasksHoldClaims, Dispatch!NoClaim
  <1>12. QED
    BY <1>5, <1>6, <1>7, <1>8, <1>9, <1>10, <1>11 DEF DispatchInv

LEMMA DispatchRetentionEnds ==
    ASSUME DispatchFinite, DispatchInv, Dispatch!RetentionEnds
    PROVE  DispatchInv'
  <1>1. /\ Tasked(task) \in Nat /\ Worked(task) \in Nat /\ Tasked(task') \in Nat /\ Worked(task') \in Nat
        /\ Dispatch!Active = Tasked(task) + ending /\ Dispatch!Active' = Tasked(task') + ending'
    BY TaskCounts, ActiveIs DEF DispatchFinite
  <1> USE <1>1
  <1>2. DispatchTyped'
    BY DEF Dispatch!RetentionEnds, Dispatch!Beside, Dispatch!database, Dispatch!bounds,
           DispatchInv, DispatchTyped, Dispatch!NoClaim
  <1>3. ReadsFirst'
    BY DEF Dispatch!RetentionEnds, Dispatch!Beside, Dispatch!database, Dispatch!bounds,
           DispatchInv, ReadsFirst, Dispatch!Full, Dispatch!NoClaim
  <1>4. RestsAlone'
    BY DEF Dispatch!RetentionEnds, Dispatch!Beside, Dispatch!database, Dispatch!bounds,
           DispatchInv, RestsAlone, Dispatch!NoClaim
  <1>5. EndsInOrder'
    BY DEF Dispatch!RetentionEnds, Dispatch!Beside, Dispatch!database, Dispatch!bounds,
           DispatchInv, EndsInOrder, DispatchTyped, Dispatch!NoClaim
  <1>6. Dispatch!ClaimedIsHeld'
    BY DEF Dispatch!RetentionEnds, Dispatch!Beside, Dispatch!database, Dispatch!bounds,
           DispatchInv, Dispatch!ClaimedIsHeld, Dispatch!NoClaim
  <1>7. Counted'
    BY DEF Dispatch!RetentionEnds, Dispatch!Beside, Dispatch!database, Dispatch!bounds,
           DispatchInv, Counted, Dispatch!NoClaim
  <1>8. TasksHoldClaims'
    BY DEF Dispatch!RetentionEnds, Dispatch!Beside, Dispatch!database, Dispatch!bounds,
           DispatchInv, TasksHoldClaims, Dispatch!NoClaim
  <1>9. QED
    BY <1>2, <1>3, <1>4, <1>5, <1>6, <1>7, <1>8 DEF DispatchInv

LEMMA DispatchRetentionTimer ==
    ASSUME DispatchFinite, DispatchInv, Dispatch!RetentionTimer
    PROVE  DispatchInv'
  <1>1. /\ Tasked(task) \in Nat /\ Worked(task) \in Nat /\ Tasked(task') \in Nat /\ Worked(task') \in Nat
        /\ Dispatch!Active = Tasked(task) + ending /\ Dispatch!Active' = Tasked(task') + ending'
    BY TaskCounts, ActiveIs DEF DispatchFinite
  <1> USE <1>1
  <1>2. DispatchTyped'
    BY DEF Dispatch!RetentionTimer, Dispatch!Beside, Dispatch!database, Dispatch!bounds,
           DispatchInv, DispatchTyped, Dispatch!NoClaim
  <1>3. ReadsFirst'
    BY DEF Dispatch!RetentionTimer, Dispatch!Beside, Dispatch!database, Dispatch!bounds,
           DispatchInv, ReadsFirst, Dispatch!Full, Dispatch!NoClaim
  <1>4. RestsAlone'
    BY DEF Dispatch!RetentionTimer, Dispatch!Beside, Dispatch!database, Dispatch!bounds,
           DispatchInv, RestsAlone, Dispatch!NoClaim
  <1>5. EndsInOrder'
    BY DEF Dispatch!RetentionTimer, Dispatch!Beside, Dispatch!database, Dispatch!bounds,
           DispatchInv, EndsInOrder, Dispatch!NoClaim
  <1>6. Dispatch!ClaimedIsHeld'
    BY DEF Dispatch!RetentionTimer, Dispatch!Beside, Dispatch!database, Dispatch!bounds,
           DispatchInv, Dispatch!ClaimedIsHeld, Dispatch!NoClaim
  <1>7. Counted'
    BY DEF Dispatch!RetentionTimer, Dispatch!Beside, Dispatch!database, Dispatch!bounds,
           DispatchInv, Counted, Dispatch!NoClaim
  <1>8. TasksHoldClaims'
    BY DEF Dispatch!RetentionTimer, Dispatch!Beside, Dispatch!database, Dispatch!bounds,
           DispatchInv, TasksHoldClaims, Dispatch!NoClaim
  <1>9. QED
    BY <1>2, <1>3, <1>4, <1>5, <1>6, <1>7, <1>8 DEF DispatchInv

LEMMA DispatchCloseRetention ==
    ASSUME DispatchFinite, DispatchInv, Dispatch!CloseRetention
    PROVE  DispatchInv'
  <1>1. /\ Tasked(task) \in Nat /\ Worked(task) \in Nat /\ Tasked(task') \in Nat /\ Worked(task') \in Nat
        /\ Dispatch!Active = Tasked(task) + ending /\ Dispatch!Active' = Tasked(task') + ending'
    BY TaskCounts, ActiveIs DEF DispatchFinite
  <1> USE <1>1
  <1>2. DispatchTyped'
    BY DEF Dispatch!CloseRetention, Dispatch!LoopsOver, Dispatch!At, Dispatch!LoopFailed,
           Dispatch!Beside, Dispatch!database, Dispatch!bounds, DispatchInv, DispatchTyped,
           Dispatch!NoClaim
  <1>3. ReadsFirst'
    BY DEF Dispatch!CloseRetention, Dispatch!LoopsOver, Dispatch!At, Dispatch!LoopFailed,
           Dispatch!Beside, Dispatch!database, Dispatch!bounds, DispatchInv, ReadsFirst,
           Dispatch!Full, Dispatch!NoClaim
  <1>4. RestsAlone'
    BY DEF Dispatch!CloseRetention, Dispatch!LoopsOver, Dispatch!At, Dispatch!LoopFailed,
           Dispatch!Beside, Dispatch!database, Dispatch!bounds, DispatchInv, RestsAlone,
           Dispatch!NoClaim
  <1>5. EndsInOrder'
    BY DEF Dispatch!CloseRetention, Dispatch!LoopsOver, Dispatch!At, Dispatch!LoopFailed,
           Dispatch!Beside, Dispatch!database, Dispatch!bounds, DispatchInv, EndsInOrder,
           Dispatch!NoClaim
  <1>6. Dispatch!ClaimedIsHeld'
    BY DEF Dispatch!CloseRetention, Dispatch!LoopsOver, Dispatch!At, Dispatch!LoopFailed,
           Dispatch!Beside, Dispatch!database, Dispatch!bounds, DispatchInv,
           Dispatch!ClaimedIsHeld, Dispatch!NoClaim
  <1>7. Counted'
    BY DEF Dispatch!CloseRetention, Dispatch!LoopsOver, Dispatch!At, Dispatch!LoopFailed,
           Dispatch!Beside, Dispatch!database, Dispatch!bounds, DispatchInv, Counted,
           Dispatch!NoClaim
  <1>8. TasksHoldClaims'
    BY DEF Dispatch!CloseRetention, Dispatch!LoopsOver, Dispatch!At, Dispatch!LoopFailed,
           Dispatch!Beside, Dispatch!database, Dispatch!bounds, DispatchInv, TasksHoldClaims,
           Dispatch!NoClaim
  <1>9. QED
    BY <1>2, <1>3, <1>4, <1>5, <1>6, <1>7, <1>8 DEF DispatchInv

LEMMA DispatchClose ==
    ASSUME DispatchFinite, DispatchInv, Dispatch!Close
    PROVE  DispatchInv'
  <1>1. /\ Tasked(task) \in Nat /\ Worked(task) \in Nat /\ Tasked(task') \in Nat /\ Worked(task') \in Nat
        /\ Dispatch!Active = Tasked(task) + ending /\ Dispatch!Active' = Tasked(task') + ending'
    BY TaskCounts, ActiveIs DEF DispatchFinite
  <1> USE <1>1
  <1>2. DispatchTyped'
    BY DEF Dispatch!Close, Dispatch!Beside, Dispatch!database, Dispatch!bounds, DispatchInv,
           DispatchTyped, Dispatch!NoClaim
  <1>3. ReadsFirst'
    BY DEF Dispatch!Close, Dispatch!Beside, Dispatch!database, Dispatch!bounds, DispatchInv,
           ReadsFirst, Dispatch!Full, Dispatch!NoClaim
  <1>4. RestsAlone'
    BY DEF Dispatch!Close, Dispatch!Beside, Dispatch!database, Dispatch!bounds, DispatchInv,
           RestsAlone, Dispatch!NoClaim
  <1>5. EndsInOrder'
    BY DEF Dispatch!Close, Dispatch!Beside, Dispatch!database, Dispatch!bounds, DispatchInv,
           EndsInOrder, Dispatch!NoClaim
  <1>6. Dispatch!ClaimedIsHeld'
    BY DEF Dispatch!Close, Dispatch!Beside, Dispatch!database, Dispatch!bounds, DispatchInv,
           Dispatch!ClaimedIsHeld, Dispatch!NoClaim
  <1>7. Counted'
    BY DEF Dispatch!Close, Dispatch!Beside, Dispatch!database, Dispatch!bounds, DispatchInv,
           Counted, Dispatch!NoClaim
  <1>8. TasksHoldClaims'
    BY DEF Dispatch!Close, Dispatch!Beside, Dispatch!database, Dispatch!bounds, DispatchInv,
           TasksHoldClaims, Dispatch!NoClaim
  <1>9. QED
    BY <1>2, <1>3, <1>4, <1>5, <1>6, <1>7, <1>8 DEF DispatchInv

LEMMA DispatchStutter ==
    ASSUME DispatchFinite, DispatchInv, UNCHANGED Dispatch!vars
    PROVE  DispatchInv'
  <1>1. /\ Tasked(task) \in Nat /\ Worked(task) \in Nat /\ Tasked(task') \in Nat /\ Worked(task') \in Nat
        /\ Dispatch!Active = Tasked(task) + ending /\ Dispatch!Active' = Tasked(task') + ending'
    BY TaskCounts, ActiveIs DEF DispatchFinite
  <1> USE <1>1
  <1>2. DispatchTyped'
    BY DEF Dispatch!vars, DispatchInv, DispatchTyped, Dispatch!NoClaim
  <1>3. ReadsFirst'
    BY DEF Dispatch!vars, DispatchInv, ReadsFirst, Dispatch!Full, Dispatch!NoClaim
  <1>4. RestsAlone'
    BY DEF Dispatch!vars, DispatchInv, RestsAlone, Dispatch!NoClaim
  <1>5. EndsInOrder'
    BY DEF Dispatch!vars, DispatchInv, EndsInOrder, Dispatch!NoClaim
  <1>6. Dispatch!ClaimedIsHeld'
    BY DEF Dispatch!vars, DispatchInv, Dispatch!ClaimedIsHeld, Dispatch!NoClaim
  <1>7. Counted'
    BY DEF Dispatch!vars, DispatchInv, Counted, Dispatch!NoClaim
  <1>8. TasksHoldClaims'
    BY DEF Dispatch!vars, DispatchInv, TasksHoldClaims, Dispatch!NoClaim
  <1>9. QED
    BY <1>2, <1>3, <1>4, <1>5, <1>6, <1>7, <1>8 DEF DispatchInv

LEMMA DispatchInit ==
    ASSUME DispatchFinite, Dispatch!Init
    PROVE  DispatchInv
  <1>1. Tasked(task) = 0 /\ Worked(task) = 0
    <2>1. {j \in Jobs : task[j] # "none"} = {} /\ {j \in Jobs : task[j] = "working"} = {}
      BY DEF Dispatch!Init
    <2>2. QED
      BY <2>1, FS_EmptySet DEF Tasked, Worked
  <1>2. Dispatch!Active = 0
    BY <1>1, ActiveIs DEF Dispatch!Init
  <1>3. 0 \in Dispatch!Versions
    BY DEF DispatchFinite, Dispatch!DispatchAssumption, Dispatch!Versions
  <1>4. DispatchTyped
    BY <1>3 DEF Dispatch!Init, DispatchTyped, Dispatch!Points, Channels
  <1>5. ReadsFirst /\ RestsAlone /\ EndsInOrder
    BY <1>2 DEF Dispatch!Init, ReadsFirst, RestsAlone, EndsInOrder, Dispatch!NoClaim
  <1>6. Dispatch!ClaimedIsHeld /\ TasksHoldClaims /\ Counted
    BY <1>1 DEF Dispatch!Init, Dispatch!ClaimedIsHeld, TasksHoldClaims, Counted
  <1>7. QED
    BY <1>4, <1>5, <1>6 DEF DispatchInv

LEMMA DispatchStep ==
    ASSUME DispatchFinite, DispatchInv, [Dispatch!Next]_(Dispatch!vars)
    PROVE  DispatchInv'
  <1>1. ASSUME Dispatch!Environment PROVE DispatchInv'
    BY <1>1, DispatchEnqueue, DispatchLeaseExpires, DispatchTakenElsewhere DEF Dispatch!Environment
  <1>2. ASSUME Dispatch!Dispatch PROVE DispatchInv'
    BY <1>2, DispatchRefresh, DispatchInstall, DispatchClaimNext, DispatchTakeRevisions, DispatchWakeup,
       DispatchTimeout, DispatchInterrupted, DispatchReturned, DispatchClaimPlain, DispatchReadDemand,
       DispatchProbe, DispatchProbeIsStale, DispatchClaimDocling DEF Dispatch!Dispatch
  <1>3. ASSUME NEW j \in Jobs, Dispatch!Work(j) \/ Dispatch!Progress(j) \/ Dispatch!JobStartFails(j)
        PROVE  DispatchInv'
    BY <1>3, DispatchJobStarted, DispatchProcess, DispatchProgress, DispatchJobStartFails
    DEF Dispatch!Work
  <1>4. ASSUME Dispatch!Migrate \/ Dispatch!MigrationFails \/ Dispatch!Retain PROVE DispatchInv'
    BY <1>4, DispatchMigrationStarts, DispatchMigrationFinishes, DispatchMigrationEnds,
       DispatchMigrationFails, DispatchRetentionEnds, DispatchRetentionTimer
    DEF Dispatch!Migrate, Dispatch!Retain
  <1>5. ASSUME NEW s \in Services, Dispatch!Outage(s) PROVE DispatchInv'
    BY <1>5, DispatchOutage
  <1>6. QED
    BY <1>1, <1>2, <1>3, <1>4, <1>5, DispatchSaveSettings, DispatchDelayEnds, DispatchAbort,
       DispatchDispatcherFails, DispatchJobFinished, DispatchCloseRetention, DispatchClose, DispatchStutter
    DEF Dispatch!Next

LEMMA DispatchAlways ==
    ASSUME DispatchFinite
    PROVE  Dispatch!Spec => []DispatchInv
  <1>1. Dispatch!Init => DispatchInv
    BY DispatchInit
  <1>2. DispatchInv /\ [Dispatch!Next]_(Dispatch!vars) => DispatchInv'
    BY DispatchStep
  <1>3. QED
    BY <1>1, <1>2, PTL DEF Dispatch!Spec

\* The variables of the dispatcher have their types, and a claim is under way exactly
\* while it claims.
THEOREM DispatchTypeCorrect ==
    ASSUME Dispatch!DispatchAssumption, IsFiniteSet(Jobs)
    PROVE  Dispatch!Spec => []Dispatch!TypeOK
  <1>1. ASSUME DispatchInv
        PROVE  Dispatch!TypeOK
    <2>1. retention \in [{"closed", "running", "timer"} -> BOOLEAN]
      BY <1>1 DEF DispatchInv, DispatchTyped
    <2>2. (claim.at # "none") = Dispatch!At("claiming")
      BY <1>1 DEF DispatchInv, DispatchTyped, ClaimsUnderWay, Dispatch!NoClaim, Dispatch!At
    <2>3. QED
      BY <1>1, <2>1, <2>2 DEF DispatchInv, DispatchTyped, Channels, Dispatch!TypeOK
  <1>2. QED
    BY <1>1, DispatchAlways, PTL DEF DispatchFinite

\* A dispatcher that waits, and was told of everything, has read the settings as they are
\* and the queue after every job that came, unless it is full: no revision is slept over
\* (waitForWakeup, pendingRevisionChannels).
THEOREM NoRevisionIsSleptOver ==
    ASSUME Dispatch!DispatchAssumption, IsFiniteSet(Jobs)
    PROVE  Dispatch!Spec => []Dispatch!NoWakeUpIsLost
  <1>1. DispatchInv => Dispatch!NoWakeUpIsLost
    BY DEF DispatchInv, ReadsFirst, Dispatch!NoWakeUpIsLost, Dispatch!At
  <1>2. QED
    BY <1>1, DispatchAlways, PTL DEF DispatchFinite

\* While no database call fails a claimed job has its task, and activeJobs of the registry
\* counts exactly the work under way; after failures it never counts less
\* (WorkerRegistry.jobStarted, jobFinished).
THEOREM DispatcherHoldsItsJobs ==
    ASSUME Dispatch!DispatchAssumption, IsFiniteSet(Jobs)
    PROVE  Dispatch!Spec => [](Dispatch!ClaimedIsHeld /\ Dispatch!CountsItsTasks)
  <1>1. Dispatch!Cardinality({j \in Jobs : task[j] = "working"}) = Worked(task)
    BY DispatchCardinality DEF Worked
  <1>2. DispatchInv => Dispatch!ClaimedIsHeld /\ Dispatch!CountsItsTasks
    BY <1>1 DEF DispatchInv, Counted, Dispatch!CountsItsTasks
  <1>3. QED
    BY <1>2, DispatchAlways, PTL DEF DispatchFinite

\* The worker that closes its database has stopped the retention and its timer; without a
\* failure it has no task, no claim and no migration left either (runIngestionWorker).
THEOREM WorkersEndQuietly ==
    ASSUME Dispatch!DispatchAssumption, IsFiniteSet(Jobs)
    PROVE  Dispatch!Spec => []Dispatch!EndIsQuiet
  <1>1. DispatchInv => Dispatch!EndIsQuiet
    BY DEF DispatchInv, DispatchTyped, RestsAlone, EndsInOrder, Dispatch!EndIsQuiet
  <1>2. QED
    BY <1>1, DispatchAlways, PTL DEF DispatchFinite
=============================================================================
