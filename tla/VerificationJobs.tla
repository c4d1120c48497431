-------------------------- MODULE VerificationJobs --------------------------
(***************************************************************************)
(* The queue of automated evidence verifications, used for chat messages   *)
(* and for research turns.  Each web server runs one dispatch loop that    *)
(* claims a job, has its claims scored, and stores the verdicts or settles *)
(* the failure.  A lease is never renewed: a slow verification loses its   *)
(* job to another server and finishes late.                                *)
(***************************************************************************)
EXTENDS Naturals

CONSTANTS
    Jobs, Servers,
    MaxFailures,    \* MAXIMUM_VERIFICATION_FAILURES
    MaxAttempts,    \* bound: claims of a job
    NoJob

VerificationAssumption ==
    NoJob \notin Jobs /\ MaxFailures \in Nat \ {0} /\ MaxAttempts \in Nat \ {0}

VARIABLES
    job,        \* the job table
    verdicts,   \* the attempt whose verdicts the message or turn carries, or 0
    server      \* each dispatch loop

vars == <<job, verdicts, server>>

NoRow == [state |-> "none", attempt |-> 0, failures |-> 0, lease |-> "none", due |-> FALSE]
Gone == [NoRow EXCEPT !.state = "gone"]
Idle == [pc |-> "idle", job |-> NoJob, attempt |-> 0, failures |-> 0]

Init ==
    /\ job = [j \in Jobs |-> NoRow] /\ verdicts = [j \in Jobs |-> 0]
    /\ server = [s \in Servers |-> Idle]

\* An answer with claims is published together with its job.
Enqueue(j) ==
    /\ job[j].state = "none"
    /\ job' = [job EXCEPT ![j] = [NoRow EXCEPT !.state = "pending", !.due = TRUE]]
    /\ UNCHANGED <<verdicts, server>>

\* The conversation or the turn is deleted; ids are never used again.
Remove(j) ==
    /\ job[j].state \notin {"none", "gone"}
    /\ job' = [job EXCEPT ![j] = Gone] /\ verdicts' = [verdicts EXCEPT ![j] = 0]
    /\ UNCHANGED server

PendingOnly(j) == job[j].state = "pending" /\ job[j].due
Claimable(j) ==
    \/ job[j].state = "pending" /\ job[j].due
    \/ job[j].state = "running" /\ job[j].lease = "expired"

Claimed(row) == [row EXCEPT !.state = "running", !.lease = "live", !.attempt = @ + 1]
Claim(s, j) ==
    /\ server[s].pc = "idle" /\ Claimable(j) /\ job[j].attempt < MaxAttempts
    /\ job' = [job EXCEPT ![j] = Claimed(job[j])]
    /\ server' = [server EXCEPT ![s] =
                  [pc |-> "verifying", job |-> j, attempt |-> job[j].attempt + 1,
                   failures |-> job[j].failures]]
    /\ UNCHANGED verdicts

AnyClaim(s) == job[server[s].job].state = "running"
AnyState(s) == job[server[s].job].attempt = server[s].attempt
Holds(s) ==
    LET j == server[s].job IN job[j].state = "running" /\ job[j].attempt = server[s].attempt

Goes(s, pc) == server' = [server EXCEPT ![s].pc = pc]
Done(s) == server' = [server EXCEPT ![s] = Idle]

Completed(row) == [row EXCEPT !.state = "completed", !.lease = "none"]

\* completeVerificationJob; the commit may succeed and its answer be lost.
Complete(s) ==
    LET j == server[s].job IN
    /\ server[s].pc = "verifying"
    /\ IF Holds(s)
       THEN /\ job' = [job EXCEPT ![j] = Completed(job[j])]
            /\ verdicts' = [verdicts EXCEPT ![j] = server[s].attempt]
       ELSE UNCHANGED <<job, verdicts>>
    /\ Done(s) \/ Goes(s, "failing")

\* The scores or the transaction fail, or the server shuts down.
VerifyFails(s) ==
    /\ server[s].pc = "verifying"
    /\ Goes(s, "failing") \/ Goes(s, "releasing")
    /\ UNCHANGED <<job, verdicts>>

OneRetryLess(n) == n >= MaxFailures - 1
LastFailure(n) == n >= MaxFailures

Settled(row, last) == [row EXCEPT !.state = IF last THEN "failed" ELSE "pending",
                                  !.lease = "none", !.due = FALSE, !.failures = @ + 1]

\* settleVerificationFailure: another try later, or the end.
Settle(s) ==
    LET j == server[s].job
        last == LastFailure(server[s].failures + 1) IN
    /\ server[s].pc = "failing" /\ Done(s)
    /\ IF Holds(s)
       THEN job' = [job EXCEPT ![j] = Settled(job[j], last)]
       ELSE UNCHANGED job
    /\ UNCHANGED verdicts

Released(row) == [row EXCEPT !.state = "pending", !.lease = "none", !.due = TRUE]

\* releaseVerificationJob: a shutdown costs no failure.
Release(s) ==
    LET j == server[s].job IN
    /\ server[s].pc = "releasing" /\ Done(s)
    /\ IF Holds(s)
       THEN job' = [job EXCEPT ![j] = Released(job[j])]
       ELSE UNCHANGED job
    /\ UNCHANGED verdicts

Crash(s) == server[s].pc # "idle" /\ Done(s) /\ UNCHANGED <<job, verdicts>>

ExpireLease(j) ==
    /\ job[j].lease = "live" /\ job' = [job EXCEPT ![j].lease = "expired"]
    /\ UNCHANGED <<verdicts, server>>
BecomeDue(j) ==
    /\ job[j].state = "pending" /\ ~job[j].due /\ job' = [job EXCEPT ![j].due = TRUE]
    /\ UNCHANGED <<verdicts, server>>

Next ==
    \/ \E j \in Jobs : Enqueue(j) \/ Remove(j) \/ ExpireLease(j) \/ BecomeDue(j)
    \/ \E s \in Servers :
          \/ Complete(s) \/ VerifyFails(s) \/ Settle(s) \/ Release(s) \/ Crash(s)
          \/ \E j \in Jobs : Claim(s, j)

Spec == Init /\ [][Next]_vars

\* Loops go on, retries become due, leases of dead servers expire.
Fairness ==
    /\ \A s \in Servers : WF_vars(Complete(s) \/ VerifyFails(s) \/ Settle(s) \/ Release(s))
    /\ \A j \in Jobs : WF_vars(ExpireLease(j)) /\ WF_vars(BecomeDue(j))
                       /\ SF_vars(\E s \in Servers : Claim(s, j))

FairSpec == Spec /\ Fairness
-----------------------------------------------------------------------------
Final == {"completed", "failed"}

\* Type invariant.
TypeOK ==
    /\ job \in [Jobs -> [state : {"none", "gone", "pending", "running"} \cup Final,
                         attempt : 0 .. MaxAttempts, failures : 0 .. MaxFailures,
                         lease : {"none", "live", "expired"}, due : BOOLEAN]]
    /\ verdicts \in [Jobs -> 0 .. MaxAttempts]
    /\ server \in [Servers -> [pc : {"idle", "verifying", "failing", "releasing"},
                               job : Jobs \cup {NoJob}, attempt : 0 .. MaxAttempts,
                               failures : 0 .. MaxFailures]]

\* Verdicts are stored exactly when the job is completed, and they are those of
\* its last claim: a verification that lost its lease stores nothing.
VerdictsAreCurrent == \A j \in Jobs :
    /\ verdicts[j] # 0 <=> job[j].state = "completed"
    /\ verdicts[j] # 0 => verdicts[j] = job[j].attempt

\* A job fails for good after exactly MaxFailures failures, although the worker
\* decides on the count it read when it claimed the job.
FailsAfterTheLastTry == \A j \in Jobs :
    /\ job[j].state = "failed" <=> job[j].failures = MaxFailures
    /\ job[j].failures <= job[j].attempt

\* A settled job is not taken up again, by whatever late worker.
SettledIsFinal ==
    \A j \in Jobs : job[j].state \in Final => job'[j] \in {job[j], Gone}

\* Every job is settled in the end, unless it was claimed more often than the
\* bound allows: a job whose servers die again and again is claimed for ever.
JobsAreSettled == \A j \in Jobs :
    job[j].state # "none" ~> job[j].state \in Final \cup {"gone"} \/ job[j].attempt = MaxAttempts

\* The queue implements fenced work: queued, claimed and lost jobs are open.
WorkOf(j) ==
    IF job[j].state \in {"none", "gone"} THEN [state |-> "none", attempt |-> 0, result |-> 0]
    ELSE [state |-> CASE job[j].state = "completed" -> "delivered"
                      [] job[j].state = "failed" -> "dropped"
                      [] OTHER -> "open",
          attempt |-> job[j].attempt, result |-> verdicts[j]]

Work == INSTANCE FencedWork WITH Items <- Jobs, work <- [j \in Jobs |-> WorkOf(j)]

\* Whatever leases expire and servers die, only the latest claim of a job stores
\* verdicts, and stored verdicts stand until their message or turn is deleted.
JobsImplementFencedWork == Work!Spec
=============================================================================
