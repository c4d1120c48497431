------------------------------ MODULE McpTasks ------------------------------
(***************************************************************************)
(* Durable MCP answer tasks: the task rows, and the dispatcher of every    *)
(* application process with its runs, reconciliation, cancellation and     *)
(* shutdown.  One statement on the task table is one step; processes crash *)
(* and store calls fail before or after they took effect.                  *)
(***************************************************************************)
EXTENDS Naturals, FiniteSets

CONSTANTS
    Tasks, Processes,
    MaxFaults,      \* bound: crashes, lost store calls and leases that run out under a live holder
    MaxCloses,      \* bound: orderly shutdowns
    None

McpAssumption == MaxFaults \in Nat /\ MaxCloses \in Nat /\ None \notin Processes

Terminal == {"completed", "failed", "cancelled"}

VARIABLES
    task,       \* mcp_tasks: status, lease, whether it ran out, cancellation requested
    run,        \* activeTasks of every process
    process,    \* "up", "closing", "closed" or "crashed"
    listed,     \* the ids a reconciliation has read and not enqueued yet
    cancelling, \* a cancellation request between its two statements
    claims,     \* executions begun per task
    faults, closes

vars == <<task, run, process, listed, cancelling, claims, faults, closes>>

NoTask == [status |-> "none", owner |-> None, expired |-> FALSE, cancel |-> FALSE]
NotRunning == [pc |-> "none", aborted |-> FALSE, cancelRequested |-> FALSE]

Init ==
    /\ task = [t \in Tasks |-> NoTask]
    /\ run = [p \in Processes |-> [t \in Tasks |-> NotRunning]]
    /\ process = [p \in Processes |-> "up"]
    /\ listed = [p \in Processes |-> {}] /\ cancelling = [p \in Processes |-> None]
    /\ claims = [t \in Tasks |-> 0] /\ faults = 0 /\ closes = 0

local == <<run, process, listed, cancelling, closes>>
Fault == faults < MaxFaults /\ faults' = faults + 1
-----------------------------------------------------------------------------
Enqueued(p, t) ==
    IF process[p] = "up" /\ run[p][t] = NotRunning
    THEN [run EXCEPT ![p][t] = [NotRunning EXCEPT !.pc = "claiming"]] ELSE run

\* citeloom.ask_documents: the row is inserted and the task is run here.  The
\* process may fail in between, and a reconciliation finds the task.
Create(p, t) ==
    /\ process[p] = "up" /\ task[t] = NoTask /\ claims[t] = 0
    /\ task' = [task EXCEPT ![t].status = "working"]
    /\ run' = Enqueued(p, t)
    /\ UNCHANGED <<process, listed, cancelling, claims, faults, closes>>
CreateOnly(t) ==
    /\ Fault /\ task[t] = NoTask /\ claims[t] = 0
    /\ task' = [task EXCEPT ![t].status = "working"]
    /\ UNCHANGED <<local, claims>>

\* reconcile: expired leases are failed, then unclaimed tasks are listed and
\* enqueued; deleteExpiredTerminalBatch drops old terminal rows.  One that began
\* before close() goes on, but nothing it lists by then is enqueued.
ExpiredUncancelled(t) == task[t].status = "working" /\ task[t].owner # None /\ task[t].expired /\ ~task[t].cancel
Expired(t) == task[t].status = "working" /\ task[t].owner # None /\ task[t].expired
Unclaimed(t) == task[t].status = "working" /\ ~task[t].cancel /\ task[t].owner = None
FailedByLease(t) == [NoTask EXCEPT !.status = "failed"]

FailExpiredLeases(p) ==
    /\ process[p] \in {"up", "closing"} /\ \E t \in Tasks : Expired(t)
    /\ task' = [t \in Tasks |-> IF Expired(t) THEN FailedByLease(t) ELSE task[t]]
    /\ UNCHANGED <<local, claims, faults>>
ListUnclaimed(p) ==
    /\ process[p] = "up" /\ listed[p] = {} /\ \E t \in Tasks : Unclaimed(t)
    /\ listed' = [listed EXCEPT ![p] = {t \in Tasks : Unclaimed(t)}]
    /\ UNCHANGED <<task, run, process, cancelling, claims, faults, closes>>
EnqueueListed(p) ==
    /\ listed[p] # {} /\ listed' = [listed EXCEPT ![p] = {}]
    /\ run' = [run EXCEPT ![p] = [t \in Tasks |-> IF t \in listed[p] THEN Enqueued(p, t)[p][t] ELSE @[t]]]
    /\ UNCHANGED <<task, process, cancelling, claims, faults, closes>>
DeleteExpiredTerminal(p, t) ==
    /\ process[p] \in {"up", "closing"} /\ task[t].status \in Terminal
    /\ task' = [task EXCEPT ![t] = NoTask]
    /\ UNCHANGED <<local, claims, faults>>
-----------------------------------------------------------------------------
Over(p, t) == run' = [run EXCEPT ![p][t] = NotRunning]

TakesOver(t) == task[t].status = "working" /\ ~task[t].cancel
Claimable(t) == task[t].status = "working" /\ ~task[t].cancel /\ task[t].owner = None

\* claim
Claim(p, t) ==
    /\ run[p][t].pc = "claiming"
    /\ IF Claimable(t)
       THEN /\ task' = [task EXCEPT ![t].owner = p]
            /\ claims' = [claims EXCEPT ![t] = @ + 1]
            /\ run' = [run EXCEPT ![p][t].pc = "executing"]
       ELSE Over(p, t) /\ UNCHANGED <<task, claims>>
    /\ UNCHANGED <<process, listed, cancelling, faults, closes>>
\* The statement is lost, or only its answer.
ClaimFails(p, t) ==
    /\ Fault /\ run[p][t].pc = "claiming" /\ Over(p, t)
    /\ \/ UNCHANGED <<task, claims>>
       \/ /\ Claimable(t) /\ task' = [task EXCEPT ![t].owner = p]
          /\ claims' = [claims EXCEPT ![t] = @ + 1]
    /\ UNCHANGED <<process, listed, cancelling, closes>>

Holds(p, t) == task[t].status = "working" /\ task[t].owner = p
Active(p, t) == run[p][t].pc \in {"executing", "completing"}

\* renewLease, on the timer: the row tells a holder of a cancellation.
RenewLease(p, t) ==
    /\ Active(p, t)
    /\ IF Holds(p, t)
       THEN /\ task' = [task EXCEPT ![t].expired = FALSE]
            /\ run' = IF task[t].cancel
                      THEN [run EXCEPT ![p][t].cancelRequested = TRUE, ![p][t].aborted = TRUE] ELSE run
       ELSE run' = [run EXCEPT ![p][t].aborted = TRUE] /\ UNCHANGED task
    /\ UNCHANGED <<process, listed, cancelling, claims, faults, closes>>
RenewalFails(p, t) ==
    /\ Fault /\ Active(p, t)
    /\ run' = [run EXCEPT ![p][t].aborted = TRUE]
    /\ UNCHANGED <<task, process, listed, cancelling, claims, closes>>

\* The catch block picks its statement when it is entered.
Caught(p, t) == IF run[p][t].cancelRequested THEN "cancelling" ELSE "failing"

\* executeMcpAnswerTask returns and the signal is looked at once more, or it throws.
Executed(p, t) ==
    /\ run[p][t].pc = "executing"
    /\ run' = [run EXCEPT ![p][t].pc = IF run[p][t].aborted THEN Caught(p, t) ELSE "completing"]
    /\ UNCHANGED <<task, process, listed, cancelling, claims, faults, closes>>
ExecutionThrows(p, t) ==
    /\ run[p][t].pc = "executing" /\ run' = [run EXCEPT ![p][t].pc = Caught(p, t)]
    /\ UNCHANGED <<task, process, listed, cancelling, claims, faults, closes>>

EndedMisspelt(status) == [NoTask EXCEPT !.status = IF status = "cancelled" THEN "canceled" ELSE status]
Ended(status) == [NoTask EXCEPT !.status = status]
Finishing(p, t) == run[p][t].pc \in {"completing", "cancelling", "failing"}
Outcome(p, t) ==
    CASE run[p][t].pc = "completing" -> "completed"
      [] run[p][t].pc = "cancelling" -> "cancelled"
      [] run[p][t].pc = "failing" -> "failed"

FinishAnyway(p, t) ==
    /\ Finishing(p, t)
    /\ task' = IF task[t].status # "none" THEN [task EXCEPT ![t] = Ended(Outcome(p, t))] ELSE task
    /\ Over(p, t)
    /\ UNCHANGED <<process, listed, cancelling, claims, faults, closes>>
\* complete, cancelClaimed and fail change a row only for the holder of its lease.
Finish(p, t) ==
    /\ Finishing(p, t)
    /\ task' = IF Holds(p, t) THEN [task EXCEPT ![t] = Ended(Outcome(p, t))] ELSE task
    /\ Over(p, t)
    /\ UNCHANGED <<process, listed, cancelling, claims, faults, closes>>
\* complete throws, with or without effect: the failure is recorded instead.
CompleteFails(p, t) ==
    /\ Fault /\ run[p][t].pc = "completing" /\ run' = [run EXCEPT ![p][t].pc = Caught(p, t)]
    /\ task' \in {task, IF Holds(p, t) THEN [task EXCEPT ![t] = Ended("completed")] ELSE task}
    /\ UNCHANGED <<process, listed, cancelling, claims, closes>>
FailFails(p, t) ==
    /\ Fault /\ run[p][t].pc \in {"cancelling", "failing"} /\ Over(p, t)
    /\ UNCHANGED <<task, process, listed, cancelling, claims, closes>>
-----------------------------------------------------------------------------
\* citeloom.cancel_answer: a task nobody holds is cancelled at once; the run of
\* this process, if any, is aborted after the statements.
Aborted(p, t) ==
    IF run[p][t] = NotRunning THEN run
    ELSE [run EXCEPT ![p][t].cancelRequested = TRUE, ![p][t].aborted = TRUE]
CancelUnclaimed(p, t) ==
    /\ process[p] = "up" /\ cancelling[p] = None /\ task[t].status # "none"
    /\ IF task[t].status = "working" /\ task[t].owner = None
       THEN /\ task' = [task EXCEPT ![t].status = "cancelled"]
            /\ run' = Aborted(p, t) /\ UNCHANGED cancelling
       ELSE cancelling' = [cancelling EXCEPT ![p] = t] /\ UNCHANGED <<task, run>>
    /\ UNCHANGED <<process, listed, claims, faults, closes>>
RequestedAnyway(t) == [task EXCEPT ![t].cancel = (task[t].status = "working")]
Requested(t) == [task EXCEPT ![t].cancel = (task[t].status = "working" /\ task[t].owner # None)]
CancelClaimed(p) ==
    LET t == cancelling[p] IN
    /\ t # None /\ cancelling' = [cancelling EXCEPT ![p] = None]
    /\ task' = Requested(t)
    /\ run' = IF task[t].status = "none" THEN run ELSE Aborted(p, t)
    /\ UNCHANGED <<process, listed, claims, faults, closes>>

\* close: everything is aborted and awaited.
Close(p) ==
    /\ closes < MaxCloses /\ closes' = closes + 1
    /\ process[p] = "up" /\ process' = [process EXCEPT ![p] = "closing"]
    /\ run' = [run EXCEPT ![p] = [t \in Tasks |-> IF @[t] = NotRunning THEN NotRunning ELSE [@[t] EXCEPT !.aborted = TRUE]]]
    /\ UNCHANGED <<task, listed, cancelling, claims, faults>>
ClosedAtOnce(p) ==
    /\ process[p] = "closing" /\ listed[p] = {}
    /\ process' = [process EXCEPT ![p] = "closed"]
    /\ UNCHANGED <<task, run, listed, cancelling, claims, faults, closes>>
Closed(p) ==
    /\ process[p] = "closing" /\ (\A t \in Tasks : run[p][t] = NotRunning) /\ listed[p] = {}
    /\ process' = [process EXCEPT ![p] = "closed"]
    /\ UNCHANGED <<task, run, listed, cancelling, claims, faults, closes>>

Crash(p) ==
    /\ Fault /\ process[p] \in {"up", "closing"} /\ process' = [process EXCEPT ![p] = "crashed"]
    /\ run' = [run EXCEPT ![p] = [t \in Tasks |-> NotRunning]]
    /\ listed' = [listed EXCEPT ![p] = {}] /\ cancelling' = [cancelling EXCEPT ![p] = None]
    /\ UNCHANGED <<task, claims, closes>>
Restart(p) ==
    /\ process[p] \in {"closed", "crashed"} /\ process' = [process EXCEPT ![p] = "up"]
    /\ UNCHANGED <<task, run, listed, cancelling, claims, faults, closes>>

\* Time passes: a lease nobody renews runs out; under a live holder it takes a
\* process that was suspended.
LeaseExpires(t) ==
    /\ task[t].status = "working" /\ task[t].owner # None /\ ~task[t].expired
    /\ IF Active(task[t].owner, t) THEN Fault ELSE faults' = faults
    /\ task' = [task EXCEPT ![t].expired = TRUE]
    /\ UNCHANGED <<local, claims>>
-----------------------------------------------------------------------------
Next ==
    \/ \E p \in Processes :
          \/ \E t \in Tasks :
                \/ Create(p, t) \/ DeleteExpiredTerminal(p, t) \/ Claim(p, t) \/ ClaimFails(p, t)
                \/ RenewLease(p, t) \/ RenewalFails(p, t) \/ Executed(p, t) \/ ExecutionThrows(p, t)
                \/ Finish(p, t) \/ CompleteFails(p, t) \/ FailFails(p, t) \/ CancelUnclaimed(p, t)
          \/ FailExpiredLeases(p) \/ ListUnclaimed(p) \/ EnqueueListed(p) \/ CancelClaimed(p)
          \/ Close(p) \/ Closed(p) \/ Crash(p) \/ Restart(p)
    \/ \E t \in Tasks : CreateOnly(t) \/ LeaseExpires(t)

Spec == Init /\ [][Next]_vars

\* Processes are started again, reconcile on their timer and finish their runs;
\* reconciliation is only strongly fair because a process may be restarted.
Fairness ==
    /\ \A p \in Processes :
          /\ WF_vars(Restart(p)) /\ WF_vars(Closed(p)) /\ WF_vars(EnqueueListed(p)) /\ WF_vars(CancelClaimed(p))
          /\ SF_vars(FailExpiredLeases(p)) /\ SF_vars(ListUnclaimed(p))
          /\ \A t \in Tasks :
                /\ WF_vars(Claim(p, t)) /\ WF_vars(Executed(p, t) \/ ExecutionThrows(p, t)) /\ WF_vars(Finish(p, t))
    /\ \A t \in Tasks : WF_vars(LeaseExpires(t))

FairSpec == Spec /\ Fairness
-----------------------------------------------------------------------------
\* The variables hold values of the expected sets.
TypeOK ==
    /\ \A t \in Tasks :
          /\ task[t].status \in Terminal \cup {"none", "working"}
          /\ task[t].owner \in Processes \cup {None} /\ task[t].cancel \in BOOLEAN
    /\ \A p \in Processes :
          /\ process[p] \in {"up", "closing", "closed", "crashed"} /\ listed[p] \subseteq Tasks
          /\ cancelling[p] \in Tasks \cup {None}
    /\ faults <= MaxFaults

\* A question is answered at most once: whatever crashes, expires or is
\* delivered twice, no second run executes the task (claim wants a task without
\* a lease and nothing gives a lease back).
AnsweredOnce == \A t \in Tasks : claims[t] <= 1

\* What a client was told is final does not change: a late completion, failure
\* or cancellation leaves a terminal task alone.
TerminalIsFinal ==
    \A t \in Tasks : task[t].status \in Terminal => task'[t].status \in {task[t].status, "none"}

\* A process that closed left no task it works on: the lease of each of its
\* runs was ended in the row, unless a store call or a lease was lost.
ClosedIsQuiet ==
    \A p \in Processes : process[p] = "closed" =>
        /\ \A t \in Tasks : run[p][t] = NotRunning
        /\ faults = 0 => \A t \in Tasks : task[t].status = "working" => task[t].owner # p

\* No cancellation gets lost: a task that is marked is held, so that a renewal
\* of its holder or the end of its lease settles it.
CancellationIsNoticed == \A t \in Tasks : task[t].cancel => task[t].status = "working" /\ task[t].owner # None

\* Every accepted task reaches a final status.
TasksEnd == \A t \in Tasks : task[t].status = "working" ~> task[t].status # "working"
=============================================================================
