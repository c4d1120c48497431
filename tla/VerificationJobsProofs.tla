----------------------- MODULE VerificationJobsProofs -----------------------
(***************************************************************************)
(* What the verification queue guarantees for any number of jobs, servers, *)
(* failures and attempts: its rows are typed, verdicts are those of the    *)
(* last claim, a job fails after exactly MaxFailures failures, and the     *)
(* queue implements fenced work.                                           *)
(***************************************************************************)
EXTENDS VerificationJobs, TLAPS

Rows == [state : {"none", "gone", "pending", "running"} \cup Final,
         attempt : 0 .. MaxAttempts, failures : 0 .. MaxFailures,
         lease : {"none", "live", "expired"}, due : BOOLEAN]
Loops == [pc : {"idle", "verifying", "failing", "releasing"},
          job : Jobs \cup {NoJob}, attempt : 0 .. MaxAttempts, failures : 0 .. MaxFailures]

\* What holds of a row and the verdicts of its job.  A failure is counted only by
\* a claim, so a claimed row has room for one more of either.
RowOK(row, v) ==
    /\ row.state = "failed" <=> row.failures = MaxFailures
    /\ row.failures <= row.attempt
    /\ row.state = "running" => row.failures < row.attempt
    /\ row.state \in Final => row.attempt > 0
    /\ row.state \in {"none", "gone"} => row.attempt = 0
    /\ v = IF row.state = "completed" THEN row.attempt ELSE 0

\* A loop remembers a claim that was made, not a later one than the last, and the
\* failures it read stay true while it holds the job.
LoopOK(loop, row) ==
    /\ loop.attempt > 0
    /\ row.state # "gone" => loop.attempt <= row.attempt
    /\ row.state = "running" /\ loop.attempt = row.attempt => loop.failures = row.failures

Inv ==
    /\ job \in [Jobs -> Rows] /\ verdicts \in [Jobs -> 0 .. MaxAttempts]
    /\ server \in [Servers -> Loops]
    /\ \A j \in Jobs : RowOK(job[j], verdicts[j])
    /\ \A s \in Servers : server[s].pc # "idle" =>
          server[s].job \in Jobs /\ LoopOK(server[s], job[server[s].job])
-----------------------------------------------------------------------------
(* The rows that the operations write.                                     *)

LEMMA ClaimedRow ==
    ASSUME NEW row \in Rows, row.attempt + 1 \in 0 .. MaxAttempts
    PROVE  /\ Claimed(row) \in Rows
           /\ Claimed(row).state = "running" /\ Claimed(row).attempt = row.attempt + 1
           /\ Claimed(row).failures = row.failures
  <1>1. Claimed(row) \in Rows
    BY Zenon DEF Claimed, Rows
  <1>2. QED
    BY <1>1, Zenon DEF Claimed, Rows

LEMMA CompletedRow ==
    ASSUME NEW row \in Rows
    PROVE  /\ Completed(row) \in Rows
           /\ Completed(row).state = "completed" /\ Completed(row).attempt = row.attempt
           /\ Completed(row).failures = row.failures
  <1>1. Completed(row) \in Rows
    BY Zenon DEF Completed, Rows, Final
  <1>2. QED
    BY <1>1, Zenon DEF Completed, Rows

LEMMA SettledRow ==
    ASSUME NEW row \in Rows, NEW last \in BOOLEAN, row.failures + 1 \in 0 .. MaxFailures
    PROVE  /\ Settled(row, last) \in Rows
           /\ Settled(row, last).state = IF last THEN "failed" ELSE "pending"
           /\ Settled(row, last).attempt = row.attempt
           /\ Settled(row, last).failures = row.failures + 1
  <1>1. Settled(row, last) \in Rows
    BY Zenon DEF Settled, Rows, Final
  <1>2. QED
    BY <1>1, Zenon DEF Settled, Rows

LEMMA ReleasedRow ==
    ASSUME NEW row \in Rows
    PROVE  /\ Released(row) \in Rows
           /\ Released(row).state = "pending" /\ Released(row).attempt = row.attempt
           /\ Released(row).failures = row.failures
  <1>1. Released(row) \in Rows
    BY Zenon DEF Released, Rows
  <1>2. QED
    BY <1>1, Zenon DEF Released, Rows

\* A lease that expires, and a retry whose time has come.
LEMMA TimedRows ==
    ASSUME job \in [Jobs -> Rows], NEW j \in Jobs,
           \/ job' = [job EXCEPT ![j].lease = "expired"]
           \/ job' = [job EXCEPT ![j].due = TRUE]
    PROVE  /\ job' \in [Jobs -> Rows]
           /\ \A k \in Jobs : /\ job'[k].state = job[k].state
                             /\ job'[k].attempt = job[k].attempt
                             /\ job'[k].failures = job[k].failures
  <1>1. job' \in [Jobs -> Rows]
    BY Zenon DEF Rows
  <1>2. ASSUME NEW k \in Jobs
        PROVE  /\ job'[k].state = job[k].state
               /\ job'[k].attempt = job[k].attempt
               /\ job'[k].failures = job[k].failures
    <2>1. CASE job' = [job EXCEPT ![j].lease = "expired"]
      BY <2>1, Zenon DEF Rows
    <2>2. CASE job' = [job EXCEPT ![j].due = TRUE]
      BY <2>2, Zenon DEF Rows
    <2>3. QED
      BY <2>1, <2>2
  <1>3. QED
    BY <1>1, <1>2

\* Rows without a claim.
LEMMA NewRows ==
    ASSUME VerificationAssumption
    PROVE  LET queued == [NoRow EXCEPT !.state = "pending", !.due = TRUE] IN
           /\ NoRow \in Rows /\ NoRow.state = "none"
           /\ NoRow.attempt = 0 /\ NoRow.failures = 0
           /\ Gone \in Rows /\ Gone.state = "gone"
           /\ Gone.attempt = 0 /\ Gone.failures = 0
           /\ queued \in Rows /\ queued.state = "pending"
           /\ queued.attempt = 0 /\ queued.failures = 0
  <1>1. 0 \in 0 .. MaxAttempts /\ 0 \in 0 .. MaxFailures
    BY DEF VerificationAssumption
  <1>2. NoRow \in Rows /\ NoRow.state = "none" /\ NoRow.attempt = 0 /\ NoRow.failures = 0
    BY <1>1 DEF NoRow, Rows
  <1>3. Gone \in Rows /\ Gone.state = "gone" /\ Gone.attempt = 0 /\ Gone.failures = 0
    BY <1>2, Zenon DEF Gone, Rows
  <1>4. QED
    BY <1>2, <1>3, Zenon DEF Rows
-----------------------------------------------------------------------------
(* The invariant.                                                          *)

\* One row and its verdicts are written: the rows stay good.
LEMMA RowWritten ==
    ASSUME Inv, NEW j \in Jobs, NEW row \in Rows, NEW v \in 0 .. MaxAttempts,
           job' = [job EXCEPT ![j] = row], verdicts' = [verdicts EXCEPT ![j] = v],
           RowOK(row, v)
    PROVE  /\ job' \in [Jobs -> Rows] /\ verdicts' \in [Jobs -> 0 .. MaxAttempts]
           /\ \A k \in Jobs : RowOK(job'[k], verdicts'[k])
  BY DEF Inv

\* What a step may do to a row under the loops that remember a claim of it.
Follows(old, new) ==
    \/ new.state = "gone"
    \/ /\ new.attempt = old.attempt
       /\ \/ new.state = old.state /\ new.failures = old.failures
          \/ old.state = "none" /\ new.state = "pending"
          \/ old.state = "running" /\ new.state \in {"pending"} \cup Final
    \/ /\ old.state \in {"pending", "running"}
       /\ new.state = "running" /\ new.attempt = old.attempt + 1

LEMMA LoopFollows ==
    ASSUME NEW loop \in Loops, NEW old \in Rows, NEW new \in Rows,
           MaxAttempts \in Nat, LoopOK(loop, old), Follows(old, new)
    PROVE  LoopOK(loop, new)
  BY DEF LoopOK, Follows, Loops, Rows, Final

\* A loop that goes on keeps its job, its attempt and the failures it read.
Stays(old, new) ==
    new.pc # "idle" => /\ old.pc # "idle" /\ new.job = old.job
                       /\ new.attempt = old.attempt /\ new.failures = old.failures

LEMMA LoopsStay ==
    ASSUME VerificationAssumption, Inv, job' \in [Jobs -> Rows], server' \in [Servers -> Loops],
           \A k \in Jobs : Follows(job[k], job'[k]),
           \A s \in Servers : Stays(server[s], server'[s])
    PROVE  \A s \in Servers : server'[s].pc # "idle" =>
              server'[s].job \in Jobs /\ LoopOK(server'[s], job'[server'[s].job])
  <1> SUFFICES ASSUME NEW s \in Servers, server'[s].pc # "idle"
               PROVE  server'[s].job \in Jobs /\ LoopOK(server'[s], job'[server'[s].job])
    OBVIOUS
  <1> DEFINE j == server[s].job
  <1>1. /\ server[s].pc # "idle" /\ server'[s].job = j
        /\ server'[s].attempt = server[s].attempt /\ server'[s].failures = server[s].failures
    BY DEF Stays
  <1>2. j \in Jobs /\ LoopOK(server[s], job[j]) /\ server[s] \in Loops
    BY <1>1 DEF Inv
  <1>3. LoopOK(server[s], job'[j])
    BY <1>2, LoopFollows DEF Inv, VerificationAssumption
  <1>4. QED
    BY <1>1, <1>2, <1>3 DEF LoopOK

\* A loop ends, or goes on to another of its positions.
LEMMA LoopMoved ==
    ASSUME VerificationAssumption, server \in [Servers -> Loops], NEW s \in Servers,
           server[s].pc # "idle",
           \/ Done(s)
           \/ \E pc \in {"failing", "releasing"} : Goes(s, pc)
    PROVE  /\ server' \in [Servers -> Loops]
           /\ \A t \in Servers : Stays(server[t], server'[t])
  <1>1. 0 \in 0 .. MaxAttempts /\ 0 \in 0 .. MaxFailures
    BY DEF VerificationAssumption
  <1>2. Idle \in Loops /\ Idle.pc = "idle"
    BY <1>1 DEF Idle, Loops
  <1>3. CASE Done(s)
    BY <1>2, <1>3 DEF Done, Stays
  <1>4. ASSUME NEW pc \in {"failing", "releasing"}, Goes(s, pc)
        PROVE  /\ server' \in [Servers -> Loops]
               /\ \A t \in Servers : Stays(server[t], server'[t])
    <2>1. server' \in [Servers -> Loops]
      BY <1>4, Zenon DEF Goes, Loops
    <2>2. /\ server'[s].job = server[s].job /\ server'[s].attempt = server[s].attempt
          /\ server'[s].failures = server[s].failures
      BY <1>4, Zenon DEF Goes, Loops
    <2>3. \A t \in Servers : t # s => server'[t] = server[t]
      BY <1>4 DEF Goes
    <2>4. QED
      BY <2>1, <2>2, <2>3 DEF Stays
  <1>5. QED
    BY <1>3, <1>4

\* What is shown of each action: the invariant holds again, and every row follows
\* from the row it was.
StepOK == Inv' /\ \A k \in Jobs : Follows(job[k], job'[k])

\* One row is written under loops that stay.
LEMMA RowStep ==
    ASSUME VerificationAssumption, Inv, server' \in [Servers -> Loops],
           \A s \in Servers : Stays(server[s], server'[s]),
           NEW j \in Jobs, NEW row \in Rows, NEW v \in 0 .. MaxAttempts,
           job' = [job EXCEPT ![j] = row], verdicts' = [verdicts EXCEPT ![j] = v],
           RowOK(row, v), Follows(job[j], row)
    PROVE  StepOK
  <1>1. /\ job' \in [Jobs -> Rows] /\ verdicts' \in [Jobs -> 0 .. MaxAttempts]
        /\ \A k \in Jobs : RowOK(job'[k], verdicts'[k])
    BY RowWritten
  <1>2. \A k \in Jobs : Follows(job[k], job'[k])
    <2> SUFFICES ASSUME NEW k \in Jobs PROVE Follows(job[k], job'[k])
      OBVIOUS
    <2>1. CASE k = j
      BY <2>1 DEF Inv
    <2>2. CASE k # j
      BY <2>2 DEF Inv, Follows, Rows
    <2>3. QED
      BY <2>1, <2>2
  <1>3. \A s \in Servers : server'[s].pc # "idle" =>
           server'[s].job \in Jobs /\ LoopOK(server'[s], job'[server'[s].job])
    BY <1>1, <1>2, LoopsStay
  <1>4. QED
    BY <1>1, <1>2, <1>3 DEF Inv, StepOK

\* No row is written under loops that stay.
LEMMA LoopStep ==
    ASSUME VerificationAssumption, Inv, server' \in [Servers -> Loops],
           \A s \in Servers : Stays(server[s], server'[s]),
           UNCHANGED <<job, verdicts>>
    PROVE  StepOK
  <1>1. \A k \in Jobs : Follows(job[k], job'[k])
    BY DEF Inv, Follows, Rows
  <1>2. job' \in [Jobs -> Rows]
    BY DEF Inv
  <1>3. \A s \in Servers : server'[s].pc # "idle" =>
           server'[s].job \in Jobs /\ LoopOK(server'[s], job'[server'[s].job])
    BY <1>1, <1>2, LoopsStay
  <1>4. QED
    BY <1>1, <1>3 DEF Inv, StepOK

LEMMA SameLoops ==
    ASSUME Inv, UNCHANGED server
    PROVE  server' \in [Servers -> Loops] /\ \A s \in Servers : Stays(server[s], server'[s])
  BY DEF Inv, Stays
-----------------------------------------------------------------------------
(* Each action keeps the invariant.                                        *)

LEMMA EnqueueKeepsInv ==
    ASSUME VerificationAssumption, Inv, NEW j \in Jobs, Enqueue(j)
    PROVE  StepOK
  <1> DEFINE row == [NoRow EXCEPT !.state = "pending", !.due = TRUE]
  <1>1. row \in Rows /\ row.state = "pending" /\ row.attempt = 0 /\ row.failures = 0
    BY NewRows
  <1>2. job' = [job EXCEPT ![j] = row] /\ UNCHANGED <<verdicts, server>> /\ job[j].state = "none"
    BY DEF Enqueue
  <1>3. job[j] \in Rows /\ RowOK(job[j], verdicts[j]) /\ verdicts \in [Jobs -> 0 .. MaxAttempts]
    BY DEF Inv
  <1> HIDE DEF row
  <1>4. verdicts[j] = 0 /\ job[j].attempt = 0 /\ 0 \in 0 .. MaxAttempts
    BY <1>2, <1>3 DEF RowOK, VerificationAssumption
  <1>5. verdicts' = [verdicts EXCEPT ![j] = 0]
    BY <1>2, <1>3, <1>4
  <1>6. RowOK(row, 0) /\ Follows(job[j], row)
    BY <1>1, <1>2, <1>4 DEF RowOK, Follows, Final, VerificationAssumption
  <1>7. QED
    BY <1>1, <1>2, <1>4, <1>5, <1>6, SameLoops, RowStep

LEMMA RemoveKeepsInv ==
    ASSUME VerificationAssumption, Inv, NEW j \in Jobs, Remove(j)
    PROVE  StepOK
  <1>1. Gone \in Rows /\ Gone.state = "gone" /\ Gone.attempt = 0 /\ Gone.failures = 0
    BY NewRows
  <1>2. RowOK(Gone, 0) /\ Follows(job[j], Gone) /\ 0 \in 0 .. MaxAttempts
    BY <1>1 DEF RowOK, Follows, Final, VerificationAssumption
  <1>3. /\ job' = [job EXCEPT ![j] = Gone] /\ verdicts' = [verdicts EXCEPT ![j] = 0]
        /\ UNCHANGED server
    BY DEF Remove
  <1>4. QED
    BY <1>1, <1>2, <1>3, SameLoops, RowStep

LEMMA ClaimKeepsInv ==
    ASSUME VerificationAssumption, Inv, NEW s \in Servers, NEW j \in Jobs, Claim(s, j)
    PROVE  StepOK
  <1> DEFINE row == Claimed(job[j])
             loop == [pc |-> "verifying", job |-> j, attempt |-> job[j].attempt + 1,
                      failures |-> job[j].failures]
  <1>1. job[j] \in Rows /\ RowOK(job[j], verdicts[j]) /\ job[j].attempt < MaxAttempts
    BY DEF Inv, Claim
  <1>2. /\ job' = [job EXCEPT ![j] = row] /\ server' = [server EXCEPT ![s] = loop]
        /\ UNCHANGED verdicts /\ job[j].state \in {"pending", "running"}
    BY DEF Claim, Claimable
  <1>3. job[j].attempt + 1 \in 0 .. MaxAttempts /\ job[j].failures \in 0 .. MaxFailures
    BY <1>1 DEF Rows, VerificationAssumption
  <1>4. /\ row \in Rows /\ row.state = "running" /\ row.attempt = job[j].attempt + 1
        /\ row.failures = job[j].failures
    BY <1>1, <1>3, ClaimedRow
  <1> HIDE DEF row
  <1>5. verdicts[j] = 0 /\ RowOK(row, 0) /\ Follows(job[j], row)
    BY <1>1, <1>2, <1>3, <1>4 DEF RowOK, Follows, Final, Rows, VerificationAssumption
  <1>6. loop \in Loops /\ LoopOK(loop, row)
    BY <1>1, <1>3, <1>4 DEF Loops, LoopOK, Rows
  <1>7. verdicts' = [verdicts EXCEPT ![j] = 0] /\ 0 \in 0 .. MaxAttempts
    BY <1>2, <1>5 DEF Inv, VerificationAssumption
  <1>8. /\ job' \in [Jobs -> Rows] /\ verdicts' \in [Jobs -> 0 .. MaxAttempts]
        /\ \A k \in Jobs : RowOK(job'[k], verdicts'[k])
    BY <1>2, <1>4, <1>5, <1>7, RowWritten
  <1>9. server' \in [Servers -> Loops]
    BY <1>2, <1>6 DEF Inv
  <1>10. ASSUME NEW t \in Servers, server'[t].pc # "idle"
         PROVE  server'[t].job \in Jobs /\ LoopOK(server'[t], job'[server'[t].job])
    <2>1. CASE t = s
      <3>1. server'[t] = loop /\ loop.job = j /\ job'[j] = row
        BY <1>2, <2>1 DEF Inv
      <3>2. QED
        BY <1>6, <3>1
    <2>2. CASE t # s
      <3> DEFINE k == server[t].job
      <3>1. server'[t] = server[t] /\ k \in Jobs /\ LoopOK(server[t], job[k]) /\ server[t] \in Loops
        BY <1>2, <1>10, <2>2 DEF Inv
      <3>2. Follows(job[k], job'[k])
        <4>1. CASE k = j
          BY <1>2, <1>5, <3>1, <4>1 DEF Inv
        <4>2. CASE k # j
          BY <1>2, <3>1, <4>2 DEF Inv, Follows, Rows
        <4>3. QED
          BY <4>1, <4>2
      <3>3. LoopOK(server[t], job'[k])
        BY <1>8, <3>1, <3>2, LoopFollows DEF Inv, VerificationAssumption
      <3>4. QED
        BY <3>1, <3>3
    <2>3. QED
      BY <2>1, <2>2
  <1>11. \A k \in Jobs : Follows(job[k], job'[k])
    BY <1>2, <1>5 DEF Inv, Follows
  <1>12. QED
    BY <1>8, <1>9, <1>10, <1>11 DEF Inv, StepOK

\* What a loop that holds its job knows about the row.
LEMMA Held ==
    ASSUME VerificationAssumption, Inv, NEW s \in Servers, server[s].pc # "idle", Holds(s)
    PROVE  LET j == server[s].job IN
           /\ j \in Jobs /\ job[j] \in Rows /\ job[j].state = "running"
           /\ job[j].attempt = server[s].attempt /\ job[j].failures = server[s].failures
           /\ server[s].attempt \in 1 .. MaxAttempts
           /\ job[j].failures < MaxFailures /\ job[j].failures < job[j].attempt
           /\ job[j].failures \in Nat /\ verdicts[j] = 0
  <1> DEFINE j == server[s].job
  <1>1. /\ j \in Jobs /\ LoopOK(server[s], job[j]) /\ job[j] \in Rows
        /\ RowOK(job[j], verdicts[j]) /\ server[s] \in Loops
    BY DEF Inv
  <1>2. job[j].state = "running" /\ job[j].attempt = server[s].attempt
    BY DEF Holds
  <1>3. job[j].failures # MaxFailures /\ verdicts[j] = 0 /\ job[j].failures < job[j].attempt
    BY <1>1, <1>2 DEF RowOK
  <1>4. job[j].failures \in 0 .. MaxFailures /\ server[s].attempt \in 0 .. MaxAttempts
    BY <1>1 DEF Rows, Loops
  <1>5. QED
    BY <1>1, <1>2, <1>3, <1>4 DEF LoopOK, VerificationAssumption

LEMMA CompleteKeepsInv ==
    ASSUME VerificationAssumption, Inv, NEW s \in Servers, Complete(s)
    PROVE  StepOK
  <1> DEFINE j == server[s].job
             row == Completed(job[j])
  <1>1. server[s].pc = "verifying" /\ (Done(s) \/ Goes(s, "failing"))
    BY DEF Complete
  <1>2. server' \in [Servers -> Loops] /\ \A t \in Servers : Stays(server[t], server'[t])
    BY <1>1, LoopMoved DEF Inv
  <1>3. CASE Holds(s)
    <2>1. /\ j \in Jobs /\ job[j] \in Rows /\ job[j].state = "running"
          /\ job[j].attempt = server[s].attempt /\ server[s].attempt \in 1 .. MaxAttempts
          /\ job[j].failures < MaxFailures /\ job[j].failures < job[j].attempt
          /\ job[j].failures \in Nat
      BY <1>1, <1>3, Held
    <2>2. job' = [job EXCEPT ![j] = row] /\ verdicts' = [verdicts EXCEPT ![j] = server[s].attempt]
      BY <1>3 DEF Complete
    <2>3. /\ row \in Rows /\ row.state = "completed" /\ row.attempt = job[j].attempt
          /\ row.failures = job[j].failures
      BY <2>1, CompletedRow
    <2> HIDE DEF row
    <2>4. RowOK(row, server[s].attempt) /\ Follows(job[j], row)
      BY <2>1, <2>3 DEF RowOK, Follows, Final, VerificationAssumption
    <2>5. server[s].attempt \in 0 .. MaxAttempts
      BY <2>1
    <2>6. QED
      BY <1>2, <2>1, <2>2, <2>3, <2>4, <2>5, RowStep
  <1>4. CASE ~Holds(s)
    BY <1>2, <1>4, LoopStep DEF Complete
  <1>5. QED
    BY <1>3, <1>4

LEMMA SettleKeepsInv ==
    ASSUME VerificationAssumption, Inv, NEW s \in Servers, Settle(s)
    PROVE  StepOK
  <1> DEFINE j == server[s].job
             last == LastFailure(server[s].failures + 1)
             row == Settled(job[j], last)
  <1>1. server[s].pc = "failing" /\ Done(s) /\ UNCHANGED verdicts
    BY DEF Settle
  <1>2. server' \in [Servers -> Loops] /\ \A t \in Servers : Stays(server[t], server'[t])
    BY <1>1, LoopMoved DEF Inv
  <1>3. CASE Holds(s)
    <2>1. /\ j \in Jobs /\ job[j] \in Rows /\ job[j].state = "running"
          /\ job[j].failures = server[s].failures
          /\ job[j].failures < MaxFailures /\ job[j].failures < job[j].attempt
          /\ job[j].failures \in Nat /\ verdicts[j] = 0
      BY <1>1, <1>3, Held
    <2>2. job' = [job EXCEPT ![j] = row]
      BY <1>3 DEF Settle
    <2>3. last \in BOOLEAN /\ (last <=> job[j].failures + 1 = MaxFailures)
      BY <2>1 DEF LastFailure, VerificationAssumption
    <2>4. job[j].failures + 1 \in 0 .. MaxFailures /\ job[j].attempt \in 0 .. MaxAttempts
      BY <2>1 DEF Rows, VerificationAssumption
    <2> HIDE DEF last
    <2>5. /\ row \in Rows /\ row.state = (IF last THEN "failed" ELSE "pending")
          /\ row.attempt = job[j].attempt /\ row.failures = job[j].failures + 1
      BY <2>1, <2>3, <2>4, SettledRow
    <2> HIDE DEF row
    <2>6. RowOK(row, 0) /\ Follows(job[j], row)
      BY <2>1, <2>3, <2>4, <2>5 DEF RowOK, Follows, Final, VerificationAssumption
    <2>7. verdicts' = [verdicts EXCEPT ![j] = 0] /\ 0 \in 0 .. MaxAttempts
      BY <1>1, <2>1 DEF Inv, VerificationAssumption
    <2>8. QED
      BY <1>2, <2>1, <2>2, <2>5, <2>6, <2>7, RowStep
  <1>4. CASE ~Holds(s)
    BY <1>1, <1>2, <1>4, LoopStep DEF Settle
  <1>5. QED
    BY <1>3, <1>4

LEMMA ReleaseKeepsInv ==
    ASSUME VerificationAssumption, Inv, NEW s \in Servers, Release(s)
    PROVE  StepOK
  <1> DEFINE j == server[s].job
             row == Released(job[j])
  <1>1. server[s].pc = "releasing" /\ Done(s) /\ UNCHANGED verdicts
    BY DEF Release
  <1>2. server' \in [Servers -> Loops] /\ \A t \in Servers : Stays(server[t], server'[t])
    BY <1>1, LoopMoved DEF Inv
  <1>3. CASE Holds(s)
    <2>1. /\ j \in Jobs /\ job[j] \in Rows /\ job[j].state = "running"
          /\ job[j].failures < MaxFailures /\ job[j].failures < job[j].attempt
          /\ job[j].failures \in Nat /\ verdicts[j] = 0
      BY <1>1, <1>3, Held
    <2>2. job' = [job EXCEPT ![j] = row]
      BY <1>3 DEF Release
    <2>3. /\ row \in Rows /\ row.state = "pending" /\ row.attempt = job[j].attempt
          /\ row.failures = job[j].failures /\ job[j].attempt \in 0 .. MaxAttempts
      BY <2>1, ReleasedRow DEF Rows
    <2> HIDE DEF row
    <2>4. RowOK(row, 0) /\ Follows(job[j], row)
      BY <2>1, <2>3 DEF RowOK, Follows, Final, VerificationAssumption
    <2>5. verdicts' = [verdicts EXCEPT ![j] = 0] /\ 0 \in 0 .. MaxAttempts
      BY <1>1, <2>1 DEF Inv, VerificationAssumption
    <2>6. QED
      BY <1>2, <2>1, <2>2, <2>3, <2>4, <2>5, RowStep
  <1>4. CASE ~Holds(s)
    BY <1>1, <1>2, <1>4, LoopStep DEF Release
  <1>5. QED
    BY <1>3, <1>4

LEMMA TimerKeepsInv ==
    ASSUME VerificationAssumption, Inv, NEW j \in Jobs, ExpireLease(j) \/ BecomeDue(j)
    PROVE  StepOK
  <1>1. /\ \/ job' = [job EXCEPT ![j].lease = "expired"]
           \/ job' = [job EXCEPT ![j].due = TRUE]
        /\ UNCHANGED <<verdicts, server>>
    BY DEF ExpireLease, BecomeDue
  <1>2. /\ job' \in [Jobs -> Rows]
        /\ \A k \in Jobs : /\ job'[k].state = job[k].state
                          /\ job'[k].attempt = job[k].attempt
                          /\ job'[k].failures = job[k].failures
    BY <1>1, TimedRows DEF Inv
  <1>3. \A k \in Jobs : Follows(job[k], job'[k]) /\ RowOK(job'[k], verdicts'[k])
    <2> SUFFICES ASSUME NEW k \in Jobs
                 PROVE  Follows(job[k], job'[k]) /\ RowOK(job'[k], verdicts'[k])
      OBVIOUS
    <2>1. RowOK(job[k], verdicts[k]) /\ job[k].attempt \in 0 .. MaxAttempts
      BY DEF Inv, Rows
    <2>2. QED
      BY <1>1, <1>2, <2>1 DEF Follows, RowOK
  <1>4. \A s \in Servers : server'[s].pc # "idle" =>
           server'[s].job \in Jobs /\ LoopOK(server'[s], job'[server'[s].job])
    BY <1>1, <1>2, <1>3, SameLoops, LoopsStay
  <1>5. QED
    BY <1>1, <1>2, <1>3, <1>4 DEF Inv, StepOK
-----------------------------------------------------------------------------
LEMMA InitInv ==
    ASSUME VerificationAssumption, Init
    PROVE  Inv
  <1>1. NoRow \in Rows /\ NoRow.state = "none" /\ NoRow.attempt = 0 /\ NoRow.failures = 0
    BY NewRows
  <1>2. 0 \in 0 .. MaxAttempts /\ 0 \in 0 .. MaxFailures
    BY DEF VerificationAssumption
  <1>3. RowOK(NoRow, 0)
    BY <1>1 DEF RowOK, Final, VerificationAssumption
  <1>4. Idle \in Loops /\ Idle.pc = "idle"
    BY <1>2 DEF Idle, Loops
  <1>5. QED
    BY <1>1, <1>2, <1>3, <1>4 DEF Init, Inv

LEMMA StepInv ==
    ASSUME VerificationAssumption, Inv, [Next]_vars
    PROVE  StepOK
  <1>1. ASSUME NEW j \in Jobs, Enqueue(j) PROVE StepOK
    BY <1>1, EnqueueKeepsInv
  <1>2. ASSUME NEW j \in Jobs, Remove(j) PROVE StepOK
    BY <1>2, RemoveKeepsInv
  <1>3. ASSUME NEW j \in Jobs, ExpireLease(j) \/ BecomeDue(j) PROVE StepOK
    BY <1>3, TimerKeepsInv
  <1>4. ASSUME NEW s \in Servers, NEW j \in Jobs, Claim(s, j) PROVE StepOK
    BY <1>4, ClaimKeepsInv
  <1>5. ASSUME NEW s \in Servers, Complete(s) PROVE StepOK
    BY <1>5, CompleteKeepsInv
  <1>6. ASSUME NEW s \in Servers, Settle(s) PROVE StepOK
    BY <1>6, SettleKeepsInv
  <1>7. ASSUME NEW s \in Servers, Release(s) PROVE StepOK
    BY <1>7, ReleaseKeepsInv
  <1>8. ASSUME NEW s \in Servers, VerifyFails(s) \/ Crash(s) PROVE StepOK
    <2>1. /\ server[s].pc # "idle" /\ UNCHANGED <<job, verdicts>>
          /\ Done(s) \/ \E pc \in {"failing", "releasing"} : Goes(s, pc)
      BY <1>8 DEF VerifyFails, Crash
    <2>2. server' \in [Servers -> Loops] /\ \A t \in Servers : Stays(server[t], server'[t])
      BY <2>1, LoopMoved DEF Inv
    <2>3. QED
      BY <2>1, <2>2, LoopStep
  <1>9. CASE UNCHANGED vars
    BY <1>9, SameLoops, LoopStep DEF vars
  <1>10. QED
    BY <1>1, <1>2, <1>3, <1>4, <1>5, <1>6, <1>7, <1>8, <1>9 DEF Next

LEMMA InvImplies ==
    ASSUME VerificationAssumption, Inv
    PROVE  TypeOK /\ VerdictsAreCurrent /\ FailsAfterTheLastTry
  <1>1. TypeOK
    BY Zenon DEF Inv, TypeOK, Rows, Loops
  <1>2. VerdictsAreCurrent
    <2> SUFFICES ASSUME NEW j \in Jobs
                 PROVE  /\ verdicts[j] # 0 <=> job[j].state = "completed"
                        /\ verdicts[j] # 0 => verdicts[j] = job[j].attempt
      BY DEF VerdictsAreCurrent
    <2>1. RowOK(job[j], verdicts[j]) /\ job[j].attempt \in Nat
      BY DEF Inv, Rows
    <2>2. QED
      BY <2>1 DEF RowOK, Final
  <1>3. FailsAfterTheLastTry
    BY DEF Inv, RowOK, FailsAfterTheLastTry
  <1>4. QED
    BY <1>1, <1>2, <1>3

\* The rows, the verdicts and the loops are typed in every behaviour.
THEOREM TypeCorrect ==
    ASSUME VerificationAssumption
    PROVE  Spec => []TypeOK
  <1>1. Init => Inv
    BY InitInv
  <1>2. Inv /\ [Next]_vars => Inv'
    BY StepInv DEF StepOK
  <1>3. Inv => TypeOK
    BY InvImplies
  <1>4. QED
    BY <1>1, <1>2, <1>3, PTL DEF Spec

\* Verdicts are stored exactly with a completed job and are those of its last
\* claim, however many servers verify it late.
THEOREM VerdictsStayCurrent ==
    ASSUME VerificationAssumption
    PROVE  Spec => []VerdictsAreCurrent
  <1>1. Init => Inv
    BY InitInv
  <1>2. Inv /\ [Next]_vars => Inv'
    BY StepInv DEF StepOK
  <1>3. Inv => VerdictsAreCurrent
    BY InvImplies
  <1>4. QED
    BY <1>1, <1>2, <1>3, PTL DEF Spec

\* A job fails after exactly MaxFailures failures, whatever number that is.
THEOREM FailsOnTheLastTry ==
    ASSUME VerificationAssumption
    PROVE  Spec => []FailsAfterTheLastTry
  <1>1. Init => Inv
    BY InitInv
  <1>2. Inv /\ [Next]_vars => Inv'
    BY StepInv DEF StepOK
  <1>3. Inv => FailsAfterTheLastTry
    BY InvImplies
  <1>4. QED
    BY <1>1, <1>2, <1>3, PTL DEF Spec
\* Only a claimed row has a lease, so that the expiry of one touches no settled job.
LeasesRun == \A j \in Jobs : job[j].lease # "none" => job[j].state = "running"

\* What a step may do to one row for the leases and the settled jobs to stay.
Settles(old, new) ==
    /\ new.lease # "none" => new.state = "running"
    /\ old.state \in Final => new \in {old, Gone}

LEMMA SettledStep ==
    ASSUME Inv, LeasesRun, [Next]_vars
    PROVE  LeasesRun' /\ SettledIsFinal
  <1> USE DEF Final
  <1>0. job \in [Jobs -> Rows] /\ \A s \in Servers : server[s].pc # "idle" => server[s].job \in Jobs
    BY DEF Inv
  <1>1. ASSUME NEW j \in Jobs, NEW new, job' = [job EXCEPT ![j] = new], Settles(job[j], new)
        PROVE  LeasesRun' /\ SettledIsFinal
    <2>1. \A k \in Jobs : job'[k] = IF k = j THEN new ELSE job[k]
      BY <1>0, <1>1
    <2>2. QED
      BY <1>1, <2>1 DEF Settles, LeasesRun, SettledIsFinal
  <1>2. CASE UNCHANGED job
    BY <1>2 DEF LeasesRun, SettledIsFinal
  <1>3. ASSUME NEW j \in Jobs, Enqueue(j) PROVE LeasesRun' /\ SettledIsFinal
    <2>1. job' = [job EXCEPT ![j] = [NoRow EXCEPT !.state = "pending", !.due = TRUE]]
      BY <1>3 DEF Enqueue
    <2>2. Settles(job[j], [NoRow EXCEPT !.state = "pending", !.due = TRUE])
      BY <1>3 DEF Enqueue, Settles, NoRow
    <2>3. QED
      BY <1>1, <2>1, <2>2
  <1>4. ASSUME NEW j \in Jobs, Remove(j) PROVE LeasesRun' /\ SettledIsFinal
    BY <1>1, <1>4 DEF Remove, Settles, Gone, NoRow
  <1>5. ASSUME NEW j \in Jobs, ExpireLease(j) PROVE LeasesRun' /\ SettledIsFinal
    <2>1. job[j].state = "running" /\ job' = [job EXCEPT ![j] = [job[j] EXCEPT !.lease = "expired"]]
      BY <1>5 DEF ExpireLease, LeasesRun
    <2>2. Settles(job[j], [job[j] EXCEPT !.lease = "expired"])
      BY <1>0, <2>1 DEF Settles, Rows
    <2>3. QED
      BY <1>1, <2>1, <2>2
  <1>6. ASSUME NEW j \in Jobs, BecomeDue(j) PROVE LeasesRun' /\ SettledIsFinal
    <2>1. job[j].state = "pending" /\ job' = [job EXCEPT ![j] = [job[j] EXCEPT !.due = TRUE]]
      BY <1>6 DEF BecomeDue
    <2>2. Settles(job[j], [job[j] EXCEPT !.due = TRUE])
      BY <1>0, <2>1 DEF Settles, Rows, LeasesRun
    <2>3. QED
      BY <1>1, <2>1, <2>2
  <1>7. ASSUME NEW s \in Servers, NEW j \in Jobs, Claim(s, j) PROVE LeasesRun' /\ SettledIsFinal
    <2>1. job[j].state \in {"pending", "running"} /\ job' = [job EXCEPT ![j] = Claimed(job[j])]
      BY <1>7 DEF Claim, Claimable
    <2>2. Settles(job[j], Claimed(job[j]))
      BY <1>0, <2>1 DEF Settles, Rows, Claimed
    <2>3. QED
      BY <1>1, <2>1, <2>2
  <1>8. ASSUME NEW s \in Servers, Complete(s) \/ Settle(s) \/ Release(s)
        PROVE  LeasesRun' /\ SettledIsFinal
    <2> DEFINE j == server[s].job
    <2>1. j \in Jobs
      BY <1>0, <1>8 DEF Complete, Settle, Release
    <2>2. CASE UNCHANGED job
      BY <1>2, <2>2
    <2>3. CASE job[j].state = "running" /\ job' = [job EXCEPT ![j] = Completed(job[j])]
      <3>1. Settles(job[j], Completed(job[j]))
        BY <1>0, <2>1, <2>3 DEF Settles, Rows, Completed
      <3>2. QED
        BY <1>1, <2>1, <2>3, <3>1
    <2>4. ASSUME NEW last, job[j].state = "running", job' = [job EXCEPT ![j] = Settled(job[j], last)]
          PROVE  LeasesRun' /\ SettledIsFinal
      <3>1. Settles(job[j], Settled(job[j], last))
        BY <1>0, <2>1, <2>4 DEF Settles, Rows, Settled
      <3>2. QED
        BY <1>1, <2>1, <2>4, <3>1
    <2>5. CASE job[j].state = "running" /\ job' = [job EXCEPT ![j] = Released(job[j])]
      <3>1. Settles(job[j], Released(job[j]))
        BY <1>0, <2>1, <2>5 DEF Settles, Rows, Released
      <3>2. QED
        BY <1>1, <2>1, <2>5, <3>1
    <2>6. QED
      BY <1>8, <2>2, <2>3, <2>4, <2>5, Zenon DEF Complete, Settle, Release, Holds
  <1>9. ASSUME NEW s \in Servers, VerifyFails(s) \/ Crash(s) PROVE LeasesRun' /\ SettledIsFinal
    BY <1>2, <1>9 DEF VerifyFails, Crash
  <1>10. QED
    BY <1>2, <1>3, <1>4, <1>5, <1>6, <1>7, <1>8, <1>9 DEF Next, vars

\* A settled job is taken up by nobody: a late worker, an expiry or a timer leaves it as it
\* is, until its message or turn is deleted.
THEOREM SettledStays ==
    ASSUME VerificationAssumption
    PROVE  Spec => [][SettledIsFinal]_vars
  <1>1. Init => Inv /\ LeasesRun
    BY InitInv DEF Init, LeasesRun, NoRow
  <1>2. Inv /\ LeasesRun /\ [Next]_vars => Inv' /\ LeasesRun' /\ SettledIsFinal
    BY StepInv, SettledStep DEF StepOK
  <1>3. QED
    BY <1>1, <1>2, PTL DEF Spec
-----------------------------------------------------------------------------
(* The queue implements fenced work.                                       *)

Abstract(row, v) ==
    IF row.state \in {"none", "gone"} THEN [state |-> "none", attempt |-> 0, result |-> 0]
    ELSE [state |-> CASE row.state = "completed" -> "delivered"
                      [] row.state = "failed" -> "dropped"
                      [] OTHER -> "open",
          attempt |-> row.attempt, result |-> v]

\* A row that follows from another does what the abstract item may do.
LEMMA FollowsImplements ==
    ASSUME VerificationAssumption, NEW old \in Rows, NEW new \in Rows, NEW v, NEW w,
           RowOK(old, v), RowOK(new, w), Follows(old, new)
    PROVE  Abstract(new, w) \in Work!After(Abstract(old, v))
  <1> USE DEF Final
  <1>1. old.attempt \in Nat /\ new.attempt \in Nat
    BY DEF Rows
  <1>2. CASE new.state = "gone"
    BY <1>2 DEF Abstract, Work!After, Work!None
  <1>3. CASE new.attempt = old.attempt /\ new.state = old.state
    BY <1>3 DEF Abstract, RowOK, Work!After
  <1>4. CASE old.state = "none" /\ new.state = "pending" /\ new.attempt = old.attempt
    <2>1. /\ Abstract(new, w) = [state |-> "open", attempt |-> 0, result |-> 0]
          /\ Abstract(old, v) = [state |-> "none", attempt |-> 0, result |-> 0]
      BY <1>4 DEF Abstract, RowOK
    <2>2. QED
      BY <2>1 DEF Work!After, Work!Opened
  <1>5. CASE old.state = "running" /\ new.state = "pending" /\ new.attempt = old.attempt
    <2>1. Abstract(new, w) = Abstract(old, v)
      BY <1>5 DEF Abstract, RowOK
    <2>2. QED
      BY <2>1 DEF Work!After
  <1>6. CASE old.state = "running" /\ new.state \in Final /\ new.attempt = old.attempt
    <2> DEFINE n == old.attempt
    <2>1. Abstract(old, v) = [state |-> "open", attempt |-> n, result |-> 0] /\ n > 0
      BY <1>1, <1>6 DEF Abstract, RowOK, Rows
    <2>2. CASE new.state = "completed"
      <3>1. Abstract(new, w) = [state |-> "delivered", attempt |-> n, result |-> n]
        BY <1>6, <2>2 DEF Abstract, RowOK
      <3>2. QED
        BY <2>1, <3>1 DEF Work!After, Work!Delivered
    <2>3. CASE new.state = "failed"
      <3>1. Abstract(new, w) = [state |-> "dropped", attempt |-> n, result |-> 0]
        BY <1>6, <2>3 DEF Abstract, RowOK
      <3>2. QED
        BY <2>1, <3>1 DEF Work!After, Work!Dropped
    <2>4. QED
      BY <1>6, <2>2, <2>3
  <1>7. CASE /\ old.state \in {"pending", "running"}
             /\ new.state = "running" /\ new.attempt = old.attempt + 1
    <2>1. /\ Abstract(old, v) = [state |-> "open", attempt |-> old.attempt, result |-> 0]
          /\ Abstract(new, w) = [state |-> "open", attempt |-> old.attempt + 1, result |-> 0]
      BY <1>7 DEF Abstract, RowOK
    <2>2. QED
      BY <2>1 DEF Work!After, Work!Opened
  <1>8. QED
    BY <1>2, <1>3, <1>4, <1>5, <1>6, <1>7 DEF Follows

\* Every step of the queue is a step of fenced work or changes none of it.
LEMMA StepImplements ==
    ASSUME VerificationAssumption, Inv, [Next]_vars
    PROVE  Work!Next
  <1> DEFINE work == [j \in Jobs |-> WorkOf(j)]
  <1>1. StepOK
    BY StepInv
  <1>2. ASSUME NEW j \in Jobs
        PROVE  work'[j] \in Work!After(work[j])
    <2>1. work[j] = Abstract(job[j], verdicts[j])
      BY DEF WorkOf, Abstract
    <2>2. work'[j] = Abstract(job'[j], verdicts'[j])
      BY DEF WorkOf, Abstract
    <2>3. /\ job[j] \in Rows /\ RowOK(job[j], verdicts[j])
          /\ job'[j] \in Rows /\ RowOK(job'[j], verdicts'[j])
          /\ Follows(job[j], job'[j])
      BY <1>1 DEF StepOK, Inv
    <2>4. QED
      BY <2>1, <2>2, <2>3, FollowsImplements
  <1>3. work' \in [Jobs -> UNION {Work!After(work[j]) : j \in Jobs}]
    BY <1>2
  <1>4. QED
    BY <1>2, <1>3 DEF Work!Next

\* Whatever leases expire and servers die, only the latest claim of a job stores
\* verdicts, and they stand until their message or turn is deleted.
THEOREM ImplementsFencedWork ==
    ASSUME VerificationAssumption
    PROVE  Spec => JobsImplementFencedWork
  <1>1. Init => Inv /\ Work!Init
    <2>1. Init => Work!Init
      BY DEF Init, Work!Init, Work!None, WorkOf, NoRow
    <2>2. QED
      BY <2>1, InitInv
  <1>2. Inv /\ [Next]_vars => Inv'
    BY StepInv DEF StepOK
  <1>3. Inv /\ [Next]_vars => Work!Next
    BY StepImplements
  <1>4. QED
    BY <1>1, <1>2, <1>3, PTL DEF Spec, JobsImplementFencedWork, Work!Spec
-----------------------------------------------------------------------------
(* The durable MCP tasks (McpTasks), for any number of tasks and         *)
(* processes and any number of faults: a task is answered at most once, a  *)
(* closed process left nothing behind, and what is final stays final.      *)

CONSTANTS Tasks, Processes, MaxFaults, MaxCloses, None
VARIABLES task, run, process, listed, cancelling, claims, faults, closes

Mcp == INSTANCE McpTasks

Statuses == {"none", "working", "completed", "failed", "cancelled"}
TaskRows == [status : Statuses, owner : Processes \cup {None}, expired : BOOLEAN, cancel : BOOLEAN]
RunStates == {"none", "claiming", "executing", "completing", "cancelling", "failing"}
Runs == [pc : RunStates, aborted : BOOLEAN, cancelRequested : BOOLEAN]

McpTyped ==
    /\ task \in [Tasks -> TaskRows] /\ run \in [Processes -> [Tasks -> Runs]]
    /\ process \in [Processes -> {"up", "closing", "closed", "crashed"}]
    /\ listed \in [Processes -> SUBSET Tasks]
    /\ cancelling \in [Processes -> Tasks \cup {None}]
    /\ claims \in [Tasks -> {0, 1}] /\ faults \in Nat /\ faults <= MaxFaults

\* A task that can be claimed was never claimed, and only a held task is marked.
TaskIsFresh(t) ==
    /\ task[t].status = "working" /\ task[t].owner = None => claims[t] = 0
    /\ task[t].cancel => task[t].status = "working" /\ task[t].owner # None

\* A process that is down runs nothing and has nothing left to enqueue.
DownIsIdle(p) ==
    process[p] \in {"closed", "crashed"} =>
        listed[p] = {} /\ \A t \in Tasks : run[p][t] = Mcp!NotRunning

\* Until something is lost, the holder of a lease is a run on its way to the
\* statement that ends the task.
HolderWorks(p, t) ==
    faults = 0 /\ task[t].status = "working" /\ task[t].owner = p =>
        run[p][t].pc \in {"executing", "completing", "cancelling", "failing"}

McpInv ==
    /\ McpTyped
    /\ \A t \in Tasks : TaskIsFresh(t)
    /\ \A p \in Processes : DownIsIdle(p)
    /\ \A p \in Processes, t \in Tasks : HolderWorks(p, t)

\* A run of a process is replaced, moves on, or is told to stop; no other run changes.
OthersRunOn(p, t) ==
    \A q \in Processes, u \in Tasks : q # p \/ u # t => run'[q][u] = run[q][u]

LEMMA RunReplaced ==
    ASSUME run \in [Processes -> [Tasks -> Runs]], NEW p \in Processes, NEW t \in Tasks,
           NEW r \in Runs, run' = [run EXCEPT ![p][t] = r]
    PROVE  run' \in [Processes -> [Tasks -> Runs]] /\ run'[p][t] = r /\ OthersRunOn(p, t)
  <1>1. run[p] \in [Tasks -> Runs] /\ [run[p] EXCEPT ![t] = r] \in [Tasks -> Runs]
    OBVIOUS
  <1>2. run' = [run EXCEPT ![p] = [run[p] EXCEPT ![t] = r]]
    OBVIOUS
  <1>3. run' \in [Processes -> [Tasks -> Runs]]
    BY <1>1, <1>2
  <1>4. run'[p] = [run[p] EXCEPT ![t] = r]
    BY <1>1, <1>2
  <1>5. OthersRunOn(p, t)
    BY <1>1, <1>2 DEF OthersRunOn
  <1>6. QED
    BY <1>1, <1>3, <1>4, <1>5

LEMMA RunMoves ==
    ASSUME run \in [Processes -> [Tasks -> Runs]], NEW p \in Processes, NEW t \in Tasks,
           NEW s \in RunStates, run' = [run EXCEPT ![p][t].pc = s]
    PROVE  /\ run' \in [Processes -> [Tasks -> Runs]] /\ run'[p][t].pc = s
           /\ OthersRunOn(p, t)
  <1>1. PICK k \in Runs : k = run[p][t]
    OBVIOUS
  <1>2. [k EXCEPT !.pc = s] \in Runs /\ [k EXCEPT !.pc = s].pc = s
    BY DEF Runs, RunStates
  <1>3. run' = [run EXCEPT ![p][t] = [k EXCEPT !.pc = s]]
    BY <1>1, Zenon
  <1>4. run' \in [Processes -> [Tasks -> Runs]] /\ run'[p][t] = [k EXCEPT !.pc = s]
        /\ OthersRunOn(p, t)
    BY <1>2, <1>3, RunReplaced
  <1>5. QED
    BY <1>2, <1>4

LEMMA RunIsAborted ==
    ASSUME run \in [Processes -> [Tasks -> Runs]], NEW p \in Processes, NEW t \in Tasks,
           \/ run' = [run EXCEPT ![p][t].aborted = TRUE]
           \/ run' = [run EXCEPT ![p][t].cancelRequested = TRUE, ![p][t].aborted = TRUE]
    PROVE  /\ run' \in [Processes -> [Tasks -> Runs]] /\ run'[p][t].pc = run[p][t].pc
           /\ OthersRunOn(p, t)
  <1>1. PICK k \in Runs : k = run[p][t]
    OBVIOUS
  <1> DEFINE c == [k EXCEPT !.cancelRequested = TRUE]
  <1>2. /\ [k EXCEPT !.aborted = TRUE] \in Runs /\ [k EXCEPT !.aborted = TRUE].pc = k.pc
        /\ [c EXCEPT !.aborted = TRUE] \in Runs /\ [c EXCEPT !.aborted = TRUE].pc = k.pc
    BY DEF Runs
  <1>3. CASE run' = [run EXCEPT ![p][t].aborted = TRUE]
    <2>1. run' = [run EXCEPT ![p][t] = [k EXCEPT !.aborted = TRUE]]
      BY <1>1, <1>3, Zenon
    <2>2. QED
      BY <1>1, <1>2, <2>1, RunReplaced
  <1>4. CASE run' = [run EXCEPT ![p][t].cancelRequested = TRUE, ![p][t].aborted = TRUE]
    <2>1. run' = [run EXCEPT ![p][t] = [c EXCEPT !.aborted = TRUE]]
      BY <1>1, <1>4
    <2>2. QED
      BY <1>1, <1>2, <2>1, RunReplaced
  <1>5. QED
    BY <1>3, <1>4

\* One column of a row is written.
LEMMA TaskMarked ==
    ASSUME task \in [Tasks -> TaskRows], NEW t \in Tasks, NEW s \in Statuses,
           NEW p \in Processes \cup {None}, NEW b \in BOOLEAN,
           \/ task' = [task EXCEPT ![t].status = s]
           \/ task' = [task EXCEPT ![t].owner = p]
           \/ task' = [task EXCEPT ![t].expired = b]
           \/ task' = [task EXCEPT ![t].cancel = b]
    PROVE  task' \in [Tasks -> TaskRows]
  <1>1. PICK k \in TaskRows : k = task[t]
    OBVIOUS
  <1>2. /\ [k EXCEPT !.status = s] \in TaskRows /\ [k EXCEPT !.owner = p] \in TaskRows
        /\ [k EXCEPT !.expired = b] \in TaskRows /\ [k EXCEPT !.cancel = b] \in TaskRows
    BY DEF TaskRows
  <1>3. \/ task' = [task EXCEPT ![t] = [k EXCEPT !.status = s]]
        \/ task' = [task EXCEPT ![t] = [k EXCEPT !.owner = p]]
        \/ task' = [task EXCEPT ![t] = [k EXCEPT !.expired = b]]
        \/ task' = [task EXCEPT ![t] = [k EXCEPT !.cancel = b]]
    BY <1>1, Zenon
  <1>4. PICK r \in TaskRows : task' = [task EXCEPT ![t] = r]
    BY <1>2, <1>3
  <1>5. QED
    BY <1>4

LEMMA McpCreate ==
    ASSUME Mcp!McpAssumption, McpInv, NEW p \in Processes, NEW t \in Tasks, Mcp!Create(p, t)
    PROVE  McpInv'
  <1>1. McpTyped'
    BY DEF Mcp!Create, Mcp!Enqueued, Mcp!NotRunning, McpInv, McpTyped, TaskRows, Statuses, Runs,
           RunStates
  <1>2. (\A t_1 \in Tasks : TaskIsFresh(t_1))'
    BY DEF Mcp!Create, McpInv, TaskIsFresh
  <1>3. (\A p_1 \in Processes : DownIsIdle(p_1))'
    BY DEF Mcp!Create, Mcp!Enqueued, McpInv, DownIsIdle
  <1>4. (\A p_1 \in Processes, t_1 \in Tasks : HolderWorks(p_1, t_1))'
    <2>1. ASSUME NEW q \in Processes, NEW u \in Tasks
          PROVE  HolderWorks(q, u)'
      <3>1. task[t].owner = None /\ task'[t].owner = None /\ None \notin Processes
        BY DEF Mcp!Create, Mcp!NoTask, McpInv, McpTyped, Mcp!McpAssumption
      <3>2. CASE u = t
        BY <3>1, <3>2 DEF HolderWorks
      <3>3. CASE u # t
        <4>1. task'[u] = task[u] /\ run'[q][u] = run[q][u] /\ faults' = faults
          BY <3>3 DEF Mcp!Create, Mcp!Enqueued, McpInv, McpTyped
        <4>2. QED
          BY <4>1 DEF HolderWorks, McpInv
      <3>4. QED
        BY <3>2, <3>3
    <2>2. QED
      BY <2>1
  <1>5. QED
    BY <1>1, <1>2, <1>3, <1>4 DEF McpInv

LEMMA McpCreateOnly ==
    ASSUME Mcp!McpAssumption, McpInv, NEW t \in Tasks, Mcp!CreateOnly(t)
    PROVE  McpInv'
  <1>1. McpTyped'
    <2>1. task' \in [Tasks -> TaskRows]
      BY TaskMarked DEF McpInv, McpTyped, Statuses, Mcp!CreateOnly
    <2>2. QED
      BY <2>1 DEF McpInv, McpTyped, Mcp!CreateOnly, Mcp!local, Mcp!Fault, Mcp!McpAssumption
  <1>2. (\A t_1 \in Tasks : TaskIsFresh(t_1))'
    BY DEF Mcp!CreateOnly, Mcp!local, McpInv, TaskIsFresh
  <1>3. (\A p_1 \in Processes : DownIsIdle(p_1))'
    BY DEF Mcp!CreateOnly, Mcp!local, McpInv, DownIsIdle
  <1>4. (\A p_1 \in Processes, t_1 \in Tasks : HolderWorks(p_1, t_1))'
    BY DEF Mcp!CreateOnly, Mcp!Fault, Mcp!local, McpInv, HolderWorks, McpTyped
  <1>5. QED
    BY <1>1, <1>2, <1>3, <1>4 DEF McpInv

LEMMA McpFailExpiredLeases ==
    ASSUME Mcp!McpAssumption, McpInv, NEW p \in Processes, Mcp!FailExpiredLeases(p)
    PROVE  McpInv'
  <1>1. McpTyped'
    BY DEF Mcp!FailExpiredLeases, Mcp!FailedByLease, Mcp!NoTask, Mcp!local, McpInv, McpTyped,
           TaskRows, Statuses
  <1>2. (\A t_1 \in Tasks : TaskIsFresh(t_1))'
    BY DEF Mcp!FailExpiredLeases, Mcp!FailedByLease, Mcp!NoTask, Mcp!local, McpInv, TaskIsFresh
  <1>3. (\A p_1 \in Processes : DownIsIdle(p_1))'
    BY DEF Mcp!FailExpiredLeases, Mcp!local, McpInv, DownIsIdle
  <1>4. (\A p_1 \in Processes, t_1 \in Tasks : HolderWorks(p_1, t_1))'
    BY DEF Mcp!FailExpiredLeases, Mcp!FailedByLease, Mcp!local, McpInv, HolderWorks
  <1>5. QED
    BY <1>1, <1>2, <1>3, <1>4 DEF McpInv

LEMMA McpListUnclaimed ==
    ASSUME Mcp!McpAssumption, McpInv, NEW p \in Processes, Mcp!ListUnclaimed(p)
    PROVE  McpInv'
  <1>1. McpTyped'
    BY DEF Mcp!ListUnclaimed, McpInv, McpTyped
  <1>2. (\A t_1 \in Tasks : TaskIsFresh(t_1))'
    BY DEF Mcp!ListUnclaimed, McpInv, TaskIsFresh
  <1>3. (\A p_1 \in Processes : DownIsIdle(p_1))'
    BY DEF Mcp!ListUnclaimed, McpInv, DownIsIdle
  <1>4. (\A p_1 \in Processes, t_1 \in Tasks : HolderWorks(p_1, t_1))'
    BY DEF Mcp!ListUnclaimed, McpInv, HolderWorks
  <1>5. QED
    BY <1>1, <1>2, <1>3, <1>4 DEF McpInv

LEMMA McpEnqueueListed ==
    ASSUME Mcp!McpAssumption, McpInv, NEW p \in Processes, Mcp!EnqueueListed(p)
    PROVE  McpInv'
  <1>1. McpTyped'
    <2>1. ASSUME NEW u \in Tasks
          PROVE  Mcp!Enqueued(p, u)[p][u] \in Runs
      <3>1. [Mcp!NotRunning EXCEPT !.pc = "claiming"] \in Runs
        BY DEF Mcp!NotRunning, Runs, RunStates
      <3>2. QED
        BY <3>1 DEF McpInv, McpTyped, Mcp!Enqueued
    <2> DEFINE row == [u \in Tasks |-> IF u \in listed[p] THEN Mcp!Enqueued(p, u)[p][u] ELSE run[p][u]]
    <2>2. row \in [Tasks -> Runs]
      BY <2>1 DEF McpInv, McpTyped
    <2>3. run' = [run EXCEPT ![p] = row]
      BY DEF Mcp!EnqueueListed
    <2> HIDE DEF row
    <2>4. run' \in [Processes -> [Tasks -> Runs]]
      BY <2>2, <2>3 DEF McpInv, McpTyped
    <2>5. QED
      BY <2>4 DEF McpInv, McpTyped, Mcp!EnqueueListed
  <1>2. (\A t_1 \in Tasks : TaskIsFresh(t_1))'
    BY DEF Mcp!EnqueueListed, McpInv, TaskIsFresh
  <1>3. (\A p_1 \in Processes : DownIsIdle(p_1))'
    BY DEF Mcp!EnqueueListed, McpInv, DownIsIdle
  <1>4. (\A p_1 \in Processes, t_1 \in Tasks : HolderWorks(p_1, t_1))'
    BY DEF Mcp!EnqueueListed, Mcp!Enqueued, Mcp!NotRunning, McpInv, HolderWorks
  <1>5. QED
    BY <1>1, <1>2, <1>3, <1>4 DEF McpInv

LEMMA McpDeleteExpiredTerminal ==
    ASSUME Mcp!McpAssumption, McpInv, NEW p \in Processes, NEW t \in Tasks,
           Mcp!DeleteExpiredTerminal(p, t)
    PROVE  McpInv'
  <1>1. McpTyped'
    BY DEF Mcp!DeleteExpiredTerminal, Mcp!NoTask, Mcp!local, McpInv, McpTyped, TaskRows,
           Statuses
  <1>2. (\A t_1 \in Tasks : TaskIsFresh(t_1))'
    BY DEF Mcp!DeleteExpiredTerminal, Mcp!NoTask, Mcp!local, McpInv, TaskIsFresh
  <1>3. (\A p_1 \in Processes : DownIsIdle(p_1))'
    BY DEF Mcp!DeleteExpiredTerminal, Mcp!local, McpInv, DownIsIdle
  <1>4. (\A p_1 \in Processes, t_1 \in Tasks : HolderWorks(p_1, t_1))'
    BY DEF Mcp!DeleteExpiredTerminal, Mcp!NoTask, Mcp!local, McpInv, HolderWorks
  <1>5. QED
    BY <1>1, <1>2, <1>3, <1>4 DEF McpInv

LEMMA McpClaim ==
    ASSUME Mcp!McpAssumption, McpInv, NEW p \in Processes, NEW t \in Tasks, Mcp!Claim(p, t)
    PROVE  McpInv'
  <1>1. McpTyped'
    <2>1. /\ Mcp!NotRunning \in Runs /\ run \in [Processes -> [Tasks -> Runs]]
          /\ task \in [Tasks -> TaskRows] /\ claims \in [Tasks -> {0, 1}]
      BY DEF Mcp!NotRunning, Runs, RunStates, McpInv, McpTyped
    <2>2. run' \in [Processes -> [Tasks -> Runs]]
      BY <2>1, RunReplaced, RunMoves DEF Mcp!Claim, Mcp!Over, RunStates
    <2>3. task' \in [Tasks -> TaskRows]
      <3>1. task' = task \/ task' = [task EXCEPT ![t].owner = p]
        BY DEF Mcp!Claim
      <3>2. QED
        BY <2>1, <3>1, TaskMarked DEF Statuses
    <2>4. claims' \in [Tasks -> {0, 1}]
      BY <2>1 DEF Mcp!Claim, Mcp!Claimable, McpInv, TaskIsFresh
    <2>5. QED
      BY <2>2, <2>3, <2>4 DEF Mcp!Claim, McpInv, McpTyped
  <1>2. (\A t_1 \in Tasks : TaskIsFresh(t_1))'
    <2>1. task \in [Tasks -> TaskRows] /\ claims \in [Tasks -> {0, 1}] /\ p # None
      BY DEF McpInv, McpTyped, Mcp!McpAssumption
    <2>2. CASE UNCHANGED <<task, claims>>
      BY <2>2 DEF McpInv, TaskIsFresh
    <2>3. CASE task' = [task EXCEPT ![t].owner = p] /\ Mcp!Claimable(t)
               /\ claims' = [claims EXCEPT ![t] = @ + 1]
      <3>1. /\ \A u \in Tasks : task'[u].status = task[u].status /\ task'[u].cancel = task[u].cancel
            /\ task'[t].owner = p /\ ~task[t].cancel
            /\ \A u \in Tasks \ {t} : task'[u].owner = task[u].owner /\ claims'[u] = claims[u]
        BY <2>1, <2>3 DEF Mcp!Claimable, TaskRows
      <3>2. QED
        BY <2>1, <3>1 DEF McpInv, TaskIsFresh
    <2>4. QED
      BY <2>2, <2>3 DEF Mcp!Claim
  <1>3. (\A p_1 \in Processes : DownIsIdle(p_1))'
    <2>1. Mcp!NotRunning \in Runs /\ run \in [Processes -> [Tasks -> Runs]]
          /\ run[p][t] # Mcp!NotRunning
      BY DEF Mcp!NotRunning, Runs, RunStates, McpInv, McpTyped, Mcp!Claim
    <2>2. OthersRunOn(p, t)
      BY <2>1, RunReplaced, RunMoves DEF Mcp!Claim, Mcp!Over, RunStates
    <2>3. process[p] \notin {"closed", "crashed"} /\ UNCHANGED <<process, listed>>
      BY <2>1 DEF McpInv, DownIsIdle, Mcp!Claim
    <2>4. QED
      BY <2>2, <2>3 DEF McpInv, DownIsIdle, OthersRunOn
  <1>4. (\A p_1 \in Processes, t_1 \in Tasks : HolderWorks(p_1, t_1))'
    <2>1. /\ Mcp!NotRunning \in Runs /\ run \in [Processes -> [Tasks -> Runs]]
          /\ task \in [Tasks -> TaskRows]
      BY DEF Mcp!NotRunning, Runs, RunStates, McpInv, McpTyped
    <2>2. OthersRunOn(p, t) /\ faults' = faults
      BY <2>1, RunReplaced, RunMoves DEF Mcp!Claim, Mcp!Over, RunStates
    <2>3. CASE Mcp!Claimable(t)
      <3>1. run'[p][t].pc = "executing"
        BY <2>1, <2>3, RunMoves DEF Mcp!Claim, RunStates
      <3>2. /\ \A u \in Tasks : task'[u].status = task[u].status
            /\ task'[t].owner = p
            /\ \A u \in Tasks \ {t} : task'[u].owner = task[u].owner
        BY <2>1, <2>3 DEF Mcp!Claim, TaskRows
      <3>3. QED
        BY <2>2, <3>1, <3>2 DEF McpInv, HolderWorks, OthersRunOn
    <2>4. CASE ~Mcp!Claimable(t)
      <3>1. task' = task /\ run[p][t].pc = "claiming"
        BY <2>4 DEF Mcp!Claim
      <3>2. QED
        BY <2>2, <3>1 DEF McpInv, HolderWorks, OthersRunOn
    <2>5. QED
      BY <2>3, <2>4
  <1>5. QED
    BY <1>1, <1>2, <1>3, <1>4 DEF McpInv

LEMMA McpClaimFails ==
    ASSUME Mcp!McpAssumption, McpInv, NEW p \in Processes, NEW t \in Tasks, Mcp!ClaimFails(p, t)
    PROVE  McpInv'
  <1>1. McpTyped'
    <2>1. /\ Mcp!NotRunning \in Runs /\ run \in [Processes -> [Tasks -> Runs]]
          /\ task \in [Tasks -> TaskRows] /\ claims \in [Tasks -> {0, 1}]
      BY DEF Mcp!NotRunning, Runs, RunStates, McpInv, McpTyped
    <2>2. run' \in [Processes -> [Tasks -> Runs]]
      BY <2>1, RunReplaced, RunMoves DEF Mcp!ClaimFails, Mcp!Over, RunStates
    <2>3. task' \in [Tasks -> TaskRows]
      <3>1. task' = task \/ task' = [task EXCEPT ![t].owner = p]
        BY DEF Mcp!ClaimFails
      <3>2. QED
        BY <2>1, <3>1, TaskMarked DEF Statuses
    <2>4. claims' \in [Tasks -> {0, 1}]
      BY <2>1 DEF Mcp!ClaimFails, Mcp!Claimable, McpInv, TaskIsFresh
    <2>5. faults' \in Nat /\ faults' <= MaxFaults
      BY DEF Mcp!ClaimFails, Mcp!Fault, Mcp!McpAssumption, McpInv, McpTyped
    <2>6. QED
      BY <2>2, <2>3, <2>4, <2>5 DEF Mcp!ClaimFails, McpInv, McpTyped
  <1>2. (\A t_1 \in Tasks : TaskIsFresh(t_1))'
    <2>1. task \in [Tasks -> TaskRows] /\ claims \in [Tasks -> {0, 1}] /\ p # None
      BY DEF McpInv, McpTyped, Mcp!McpAssumption
    <2>2. CASE UNCHANGED <<task, claims>>
      BY <2>2 DEF McpInv, TaskIsFresh
    <2>3. CASE task' = [task EXCEPT ![t].owner = p] /\ Mcp!Claimable(t)
               /\ claims' = [claims EXCEPT ![t] = @ + 1]
      <3>1. /\ \A u \in Tasks : task'[u].status = task[u].status /\ task'[u].cancel = task[u].cancel
            /\ task'[t].owner = p /\ ~task[t].cancel
            /\ \A u \in Tasks \ {t} : task'[u].owner = task[u].owner /\ claims'[u] = claims[u]
        BY <2>1, <2>3 DEF Mcp!Claimable, TaskRows
      <3>2. QED
        BY <2>1, <3>1 DEF McpInv, TaskIsFresh
    <2>4. QED
      BY <2>2, <2>3 DEF Mcp!ClaimFails
  <1>3. (\A p_1 \in Processes : DownIsIdle(p_1))'
    BY DEF Mcp!ClaimFails, Mcp!Over, McpInv, DownIsIdle
  <1>4. (\A p_1 \in Processes, t_1 \in Tasks : HolderWorks(p_1, t_1))'
    BY DEF Mcp!ClaimFails, Mcp!Fault, McpInv, HolderWorks, McpTyped
  <1>5. QED
    BY <1>1, <1>2, <1>3, <1>4 DEF McpInv

LEMMA McpRenewLease ==
    ASSUME Mcp!McpAssumption, McpInv, NEW p \in Processes, NEW t \in Tasks, Mcp!RenewLease(p, t)
    PROVE  McpInv'
  <1>1. McpTyped'
    <2>1. task' = task \/ task' = [task EXCEPT ![t].expired = FALSE]
      BY DEF Mcp!RenewLease
    <2>2. task' \in [Tasks -> TaskRows]
      BY <2>1, TaskMarked DEF McpInv, McpTyped, Statuses
    <2>3. run' \in [Processes -> [Tasks -> Runs]]
      BY RunIsAborted DEF McpInv, McpTyped, Mcp!RenewLease
    <2>4. QED
      BY <2>2, <2>3 DEF McpInv, McpTyped, Mcp!RenewLease
  <1>2. (\A t_1 \in Tasks : TaskIsFresh(t_1))'
    <2>1. \A u \in Tasks : /\ task'[u].status = task[u].status
                           /\ task'[u].owner = task[u].owner /\ task'[u].cancel = task[u].cancel
      BY DEF McpInv, McpTyped, TaskRows, Mcp!RenewLease
    <2>2. claims' = claims
      BY DEF Mcp!RenewLease
    <2>3. QED
      BY <2>1, <2>2 DEF McpInv, TaskIsFresh
  <1>3. (\A p_1 \in Processes : DownIsIdle(p_1))'
    <2>1. run' = run \/ OthersRunOn(p, t)
      BY RunIsAborted DEF McpInv, McpTyped, Mcp!RenewLease
    <2>2. run[p][t] # Mcp!NotRunning
      BY DEF Mcp!RenewLease, Mcp!Active, Mcp!NotRunning
    <2>3. process[p] \notin {"closed", "crashed"} /\ UNCHANGED <<process, listed>>
      BY <2>2 DEF McpInv, DownIsIdle, Mcp!RenewLease
    <2>4. QED
      BY <2>1, <2>3 DEF McpInv, DownIsIdle, OthersRunOn
  <1>4. (\A p_1 \in Processes, t_1 \in Tasks : HolderWorks(p_1, t_1))'
    <2>1. \A u \in Tasks : /\ task'[u].status = task[u].status
                           /\ task'[u].owner = task[u].owner /\ task'[u].cancel = task[u].cancel
      BY DEF McpInv, McpTyped, TaskRows, Mcp!RenewLease
    <2>2. run' = run \/ (OthersRunOn(p, t) /\ run'[p][t].pc = run[p][t].pc)
      BY RunIsAborted DEF McpInv, McpTyped, Mcp!RenewLease
    <2>3. \A q \in Processes, u \in Tasks : run'[q][u].pc = run[q][u].pc
      BY <2>2 DEF OthersRunOn
    <2>4. faults' = faults
      BY DEF Mcp!RenewLease
    <2>5. QED
      BY <2>1, <2>3, <2>4 DEF McpInv, HolderWorks
  <1>5. QED
    BY <1>1, <1>2, <1>3, <1>4 DEF McpInv

LEMMA McpRenewalFails ==
    ASSUME Mcp!McpAssumption, McpInv, NEW p \in Processes, NEW t \in Tasks,
           Mcp!RenewalFails(p, t)
    PROVE  McpInv'
  <1>1. McpTyped'
    <2>1. run' \in [Processes -> [Tasks -> Runs]]
      BY RunIsAborted DEF McpInv, McpTyped, Mcp!RenewalFails
    <2>2. QED
      BY <2>1 DEF McpInv, McpTyped, Mcp!RenewalFails, Mcp!Fault, Mcp!McpAssumption
  <1>2. (\A t_1 \in Tasks : TaskIsFresh(t_1))'
    BY DEF Mcp!RenewalFails, McpInv, TaskIsFresh
  <1>3. (\A p_1 \in Processes : DownIsIdle(p_1))'
    BY DEF Mcp!RenewalFails, Mcp!Active, McpInv, DownIsIdle, Mcp!NotRunning
  <1>4. (\A p_1 \in Processes, t_1 \in Tasks : HolderWorks(p_1, t_1))'
    BY DEF Mcp!RenewalFails, Mcp!Fault, McpInv, HolderWorks, McpTyped
  <1>5. QED
    BY <1>1, <1>2, <1>3, <1>4 DEF McpInv

LEMMA McpExecuted ==
    ASSUME Mcp!McpAssumption, McpInv, NEW p \in Processes, NEW t \in Tasks, Mcp!Executed(p, t)
    PROVE  McpInv'
  <1>1. McpTyped'
    <2>1. PICK s \in RunStates : run' = [run EXCEPT ![p][t].pc = s]
      BY DEF Mcp!Executed, Mcp!Caught, RunStates
    <2>2. run' \in [Processes -> [Tasks -> Runs]]
      BY <2>1, RunMoves DEF McpInv, McpTyped
    <2>3. QED
      BY <2>2 DEF McpInv, McpTyped, Mcp!Executed
  <1>2. (\A t_1 \in Tasks : TaskIsFresh(t_1))'
    BY DEF Mcp!Executed, McpInv, TaskIsFresh
  <1>3. (\A p_1 \in Processes : DownIsIdle(p_1))'
    BY DEF Mcp!Executed, McpInv, DownIsIdle, Mcp!NotRunning
  <1>4. (\A p_1 \in Processes, t_1 \in Tasks : HolderWorks(p_1, t_1))'
    BY DEF Mcp!Executed, Mcp!Caught, McpInv, HolderWorks
  <1>5. QED
    BY <1>1, <1>2, <1>3, <1>4 DEF McpInv

LEMMA McpExecutionThrows ==
    ASSUME Mcp!McpAssumption, McpInv, NEW p \in Processes, NEW t \in Tasks,
           Mcp!ExecutionThrows(p, t)
    PROVE  McpInv'
  <1>1. McpTyped'
    <2>1. PICK s \in RunStates : run' = [run EXCEPT ![p][t].pc = s]
      BY DEF Mcp!ExecutionThrows, Mcp!Caught, RunStates
    <2>2. run' \in [Processes -> [Tasks -> Runs]]
      BY <2>1, RunMoves DEF McpInv, McpTyped
    <2>3. QED
      BY <2>2 DEF McpInv, McpTyped, Mcp!ExecutionThrows
  <1>2. (\A t_1 \in Tasks : TaskIsFresh(t_1))'
    BY DEF Mcp!ExecutionThrows, McpInv, TaskIsFresh
  <1>3. (\A p_1 \in Processes : DownIsIdle(p_1))'
    BY DEF Mcp!ExecutionThrows, McpInv, DownIsIdle, Mcp!NotRunning
  <1>4. (\A p_1 \in Processes, t_1 \in Tasks : HolderWorks(p_1, t_1))'
    BY DEF Mcp!ExecutionThrows, Mcp!Caught, McpInv, HolderWorks
  <1>5. QED
    BY <1>1, <1>2, <1>3, <1>4 DEF McpInv

LEMMA McpFinish ==
    ASSUME Mcp!McpAssumption, McpInv, NEW p \in Processes, NEW t \in Tasks, Mcp!Finish(p, t)
    PROVE  McpInv'
  <1>1. McpTyped'
    BY DEF Mcp!Finish, Mcp!Finishing, Mcp!Ended, Mcp!NoTask, Mcp!Outcome, Mcp!Over,
           Mcp!NotRunning, McpInv, McpTyped, TaskRows, Statuses, Runs, RunStates
  <1>2. (\A t_1 \in Tasks : TaskIsFresh(t_1))'
    BY DEF Mcp!Finish, Mcp!Finishing, Mcp!Ended, Mcp!NoTask, Mcp!Outcome, McpInv, TaskIsFresh
  <1>3. (\A p_1 \in Processes : DownIsIdle(p_1))'
    BY DEF Mcp!Finish, Mcp!Over, McpInv, DownIsIdle
  <1>4. (\A p_1 \in Processes, t_1 \in Tasks : HolderWorks(p_1, t_1))'
    BY DEF Mcp!Finish, Mcp!Finishing, Mcp!Holds, Mcp!Ended, Mcp!Outcome, Mcp!Over, McpInv,
           HolderWorks, McpTyped
  <1>5. QED
    BY <1>1, <1>2, <1>3, <1>4 DEF McpInv

LEMMA McpCompleteFails ==
    ASSUME Mcp!McpAssumption, McpInv, NEW p \in Processes, NEW t \in Tasks,
           Mcp!CompleteFails(p, t)
    PROVE  McpInv'
  <1>1. McpTyped'
    <2>1. /\ Mcp!Ended("completed") \in TaskRows /\ ~Mcp!Ended("completed").cancel
          /\ Mcp!Ended("completed").status # "working"
      BY DEF Mcp!Ended, Mcp!NoTask, TaskRows, Statuses
    <2>2. task \in [Tasks -> TaskRows]
      BY DEF McpInv, McpTyped
    <2>3. task' \in [Tasks -> TaskRows]
      BY <2>1, <2>2 DEF Mcp!CompleteFails
    <2>4. run' \in [Processes -> [Tasks -> Runs]]
      BY RunMoves DEF McpInv, McpTyped, Mcp!CompleteFails, Mcp!Caught, RunStates
    <2>5. QED
      BY <2>3, <2>4 DEF McpInv, McpTyped, Mcp!CompleteFails, Mcp!Fault, Mcp!McpAssumption
  <1>2. (\A t_1 \in Tasks : TaskIsFresh(t_1))'
    <2>1. /\ Mcp!Ended("completed") \in TaskRows /\ ~Mcp!Ended("completed").cancel
          /\ Mcp!Ended("completed").status # "working"
      BY DEF Mcp!Ended, Mcp!NoTask, TaskRows, Statuses
    <2>2. task \in [Tasks -> TaskRows]
      BY DEF McpInv, McpTyped
    <2>3. ASSUME NEW u \in Tasks
          PROVE  TaskIsFresh(u)'
      <3>1. task'[u] = task[u] \/ task'[u] = Mcp!Ended("completed")
        BY <2>2 DEF Mcp!CompleteFails
      <3>2. claims' = claims
        BY DEF Mcp!CompleteFails
      <3>3. QED
        BY <2>1, <3>1, <3>2 DEF McpInv, TaskIsFresh
    <2>4. QED
      BY <2>3
  <1>3. (\A p_1 \in Processes : DownIsIdle(p_1))'
    BY DEF Mcp!CompleteFails, McpInv, DownIsIdle, Mcp!NotRunning
  <1>4. (\A p_1 \in Processes, t_1 \in Tasks : HolderWorks(p_1, t_1))'
    BY DEF Mcp!CompleteFails, Mcp!Fault, McpInv, HolderWorks, McpTyped
  <1>5. QED
    BY <1>1, <1>2, <1>3, <1>4 DEF McpInv

LEMMA McpFailFails ==
    ASSUME Mcp!McpAssumption, McpInv, NEW p \in Processes, NEW t \in Tasks, Mcp!FailFails(p, t)
    PROVE  McpInv'
  <1>1. McpTyped'
    <2>1. Mcp!NotRunning \in Runs
      BY DEF Mcp!NotRunning, Runs, RunStates
    <2>2. run' \in [Processes -> [Tasks -> Runs]]
      BY <2>1, RunReplaced DEF McpInv, McpTyped, Mcp!FailFails, Mcp!Over
    <2>3. QED
      BY <2>2 DEF McpInv, McpTyped, Mcp!FailFails, Mcp!Fault, Mcp!McpAssumption
  <1>2. (\A t_1 \in Tasks : TaskIsFresh(t_1))'
    BY DEF Mcp!FailFails, McpInv, TaskIsFresh
  <1>3. (\A p_1 \in Processes : DownIsIdle(p_1))'
    BY DEF Mcp!FailFails, Mcp!Over, McpInv, DownIsIdle
  <1>4. (\A p_1 \in Processes, t_1 \in Tasks : HolderWorks(p_1, t_1))'
    BY DEF Mcp!FailFails, Mcp!Fault, McpInv, HolderWorks, McpTyped
  <1>5. QED
    BY <1>1, <1>2, <1>3, <1>4 DEF McpInv

LEMMA McpCancelUnclaimed ==
    ASSUME Mcp!McpAssumption, McpInv, NEW p \in Processes, NEW t \in Tasks,
           Mcp!CancelUnclaimed(p, t)
    PROVE  McpInv'
  <1>1. McpTyped'
    <2>1. task' \in [Tasks -> TaskRows]
      BY TaskMarked DEF McpInv, McpTyped, Statuses, Mcp!CancelUnclaimed
    <2>2. run' \in [Processes -> [Tasks -> Runs]]
      BY RunIsAborted DEF McpInv, McpTyped, Mcp!CancelUnclaimed, Mcp!Aborted
    <2>3. QED
      BY <2>1, <2>2 DEF McpInv, McpTyped, Mcp!CancelUnclaimed
  <1>2. (\A t_1 \in Tasks : TaskIsFresh(t_1))'
    <2>1. task \in [Tasks -> TaskRows] /\ run \in [Processes -> [Tasks -> Runs]]
      BY DEF McpInv, McpTyped
    <2>2. CASE ~(task[t].status = "working" /\ task[t].owner = None)
      BY <2>2 DEF McpInv, TaskIsFresh, Mcp!CancelUnclaimed
    <2>3. CASE task[t].status = "working" /\ task[t].owner = None
      <3>1. task' = [task EXCEPT ![t].status = "cancelled"] /\ run' = Mcp!Aborted(p, t)
        BY <2>3 DEF Mcp!CancelUnclaimed
      <3>2. /\ \A u \in Tasks \ {t} : task'[u] = task[u]
            /\ ~task'[t].cancel /\ task'[t].status # "working"
        BY <2>1, <2>3, <3>1 DEF McpInv, TaskIsFresh, TaskRows
      <3>3. claims' = claims
        BY DEF Mcp!CancelUnclaimed
      <3>4. QED
        BY <3>2, <3>3 DEF McpInv, TaskIsFresh
    <2>4. QED
      BY <2>2, <2>3
  <1>3. (\A p_1 \in Processes : DownIsIdle(p_1))'
    <2>1. task \in [Tasks -> TaskRows] /\ run \in [Processes -> [Tasks -> Runs]]
      BY DEF McpInv, McpTyped
    <2>2. CASE ~(task[t].status = "working" /\ task[t].owner = None)
      BY <2>2 DEF McpInv, DownIsIdle, Mcp!CancelUnclaimed
    <2>3. CASE task[t].status = "working" /\ task[t].owner = None
      <3>1. task' = [task EXCEPT ![t].status = "cancelled"] /\ run' = Mcp!Aborted(p, t)
        BY <2>3 DEF Mcp!CancelUnclaimed
      <3>2. run' = run \/ OthersRunOn(p, t)
        BY <2>1, <3>1, RunIsAborted DEF Mcp!Aborted
      <3>3. process[p] = "up" /\ UNCHANGED <<process, listed>>
        BY DEF Mcp!CancelUnclaimed
      <3>4. QED
        BY <3>2, <3>3 DEF McpInv, DownIsIdle, OthersRunOn
    <2>4. QED
      BY <2>2, <2>3
  <1>4. (\A p_1 \in Processes, t_1 \in Tasks : HolderWorks(p_1, t_1))'
    <2>1. task \in [Tasks -> TaskRows] /\ run \in [Processes -> [Tasks -> Runs]]
      BY DEF McpInv, McpTyped
    <2>2. CASE ~(task[t].status = "working" /\ task[t].owner = None)
      BY <2>2 DEF McpInv, HolderWorks, Mcp!CancelUnclaimed
    <2>3. CASE task[t].status = "working" /\ task[t].owner = None
      <3>1. task' = [task EXCEPT ![t].status = "cancelled"] /\ run' = Mcp!Aborted(p, t)
        BY <2>3 DEF Mcp!CancelUnclaimed
      <3>2. \A q \in Processes, u \in Tasks : run'[q][u].pc = run[q][u].pc
        BY <2>1, <3>1, RunIsAborted DEF Mcp!Aborted, OthersRunOn
      <3>3. /\ \A u \in Tasks \ {t} : task'[u] = task[u]
            /\ task'[t].status # "working" /\ faults' = faults
        BY <2>1, <3>1 DEF Mcp!CancelUnclaimed, TaskRows
      <3>4. QED
        BY <3>2, <3>3 DEF McpInv, HolderWorks
    <2>4. QED
      BY <2>2, <2>3
  <1>5. QED
    BY <1>1, <1>2, <1>3, <1>4 DEF McpInv

LEMMA McpCancelClaimed ==
    ASSUME Mcp!McpAssumption, McpInv, NEW p \in Processes, Mcp!CancelClaimed(p)
    PROVE  McpInv'
  <1>1. McpTyped'
    <2>1. PICK u \in Tasks : u = cancelling[p]
      BY DEF McpInv, McpTyped, Mcp!CancelClaimed
    <2>2. PICK b \in BOOLEAN : task' = [task EXCEPT ![u].cancel = b]
      BY <2>1 DEF Mcp!CancelClaimed, Mcp!Requested
    <2>3. task' \in [Tasks -> TaskRows]
      BY <2>2, TaskMarked DEF McpInv, McpTyped, Statuses
    <2>4. run' \in [Processes -> [Tasks -> Runs]]
      BY <2>1, RunIsAborted DEF McpInv, McpTyped, Mcp!CancelClaimed, Mcp!Aborted
    <2>5. QED
      BY <2>3, <2>4 DEF McpInv, McpTyped, Mcp!CancelClaimed
  <1>2. (\A t_1 \in Tasks : TaskIsFresh(t_1))'
    BY DEF Mcp!CancelClaimed, Mcp!Requested, McpInv, TaskIsFresh, McpTyped, TaskRows
  <1>3. (\A p_1 \in Processes : DownIsIdle(p_1))'
    BY DEF Mcp!CancelClaimed, Mcp!Aborted, McpInv, DownIsIdle, McpTyped
  <1>4. (\A p_1 \in Processes, t_1 \in Tasks : HolderWorks(p_1, t_1))'
    BY DEF Mcp!CancelClaimed, Mcp!Requested, Mcp!Aborted, McpInv, HolderWorks, McpTyped
  <1>5. QED
    BY <1>1, <1>2, <1>3, <1>4 DEF McpInv

LEMMA McpClose ==
    ASSUME Mcp!McpAssumption, McpInv, NEW p \in Processes, Mcp!Close(p)
    PROVE  McpInv'
  <1>1. McpTyped'
    <2>1. ASSUME NEW u \in Tasks
          PROVE  [run[p][u] EXCEPT !.aborted = TRUE] \in Runs
      <3>1. PICK k \in Runs : k = run[p][u]
        BY DEF McpInv, McpTyped
      <3>2. [k EXCEPT !.aborted = TRUE] \in Runs
        BY DEF Runs
      <3>3. QED
        BY <3>1, <3>2
    <2>2. Mcp!NotRunning \in Runs
      BY DEF Mcp!NotRunning, Runs, RunStates
    <2> DEFINE row == [u \in Tasks |-> IF run[p][u] = Mcp!NotRunning THEN Mcp!NotRunning
                                       ELSE [run[p][u] EXCEPT !.aborted = TRUE]]
    <2>3. row \in [Tasks -> Runs]
      BY <2>1, <2>2
    <2>4. run' = [run EXCEPT ![p] = row]
      BY DEF Mcp!Close
    <2> HIDE DEF row
    <2>5. run' \in [Processes -> [Tasks -> Runs]]
      BY <2>3, <2>4 DEF McpInv, McpTyped
    <2>6. QED
      BY <2>5 DEF McpInv, McpTyped, Mcp!Close
  <1>2. (\A t_1 \in Tasks : TaskIsFresh(t_1))'
    BY DEF Mcp!Close, McpInv, TaskIsFresh
  <1>3. (\A p_1 \in Processes : DownIsIdle(p_1))'
    BY DEF Mcp!Close, McpInv, DownIsIdle
  <1>4. (\A p_1 \in Processes, t_1 \in Tasks : HolderWorks(p_1, t_1))'
    BY DEF Mcp!Close, McpInv, HolderWorks
  <1>5. QED
    BY <1>1, <1>2, <1>3, <1>4 DEF McpInv

LEMMA McpClosed ==
    ASSUME Mcp!McpAssumption, McpInv, NEW p \in Processes, Mcp!Closed(p)
    PROVE  McpInv'
  <1>1. McpTyped'
    BY DEF Mcp!Closed, McpInv, McpTyped
  <1>2. (\A t_1 \in Tasks : TaskIsFresh(t_1))'
    BY DEF Mcp!Closed, McpInv, TaskIsFresh
  <1>3. (\A p_1 \in Processes : DownIsIdle(p_1))'
    BY DEF Mcp!Closed, McpInv, DownIsIdle
  <1>4. (\A p_1 \in Processes, t_1 \in Tasks : HolderWorks(p_1, t_1))'
    BY DEF Mcp!Closed, McpInv, HolderWorks
  <1>5. QED
    BY <1>1, <1>2, <1>3, <1>4 DEF McpInv

LEMMA McpCrash ==
    ASSUME Mcp!McpAssumption, McpInv, NEW p \in Processes, Mcp!Crash(p)
    PROVE  McpInv'
  <1>1. McpTyped'
    <2>1. Mcp!NotRunning \in Runs
      BY DEF Mcp!NotRunning, Runs, RunStates
    <2>2. run' \in [Processes -> [Tasks -> Runs]]
      BY <2>1 DEF McpInv, McpTyped, Mcp!Crash
    <2>3. listed' \in [Processes -> SUBSET Tasks] /\ cancelling' \in [Processes -> Tasks \cup {None}]
      BY DEF McpInv, McpTyped, Mcp!Crash
    <2>4. /\ process' \in [Processes -> {"up", "closing", "closed", "crashed"}]
          /\ UNCHANGED <<task, claims>> /\ faults' \in Nat /\ faults' <= MaxFaults
      BY DEF McpInv, McpTyped, Mcp!Crash, Mcp!Fault, Mcp!McpAssumption
    <2>5. QED
      BY <2>2, <2>3, <2>4 DEF McpInv, McpTyped
  <1>2. (\A t_1 \in Tasks : TaskIsFresh(t_1))'
    BY DEF Mcp!Crash, McpInv, TaskIsFresh
  <1>3. (\A p_1 \in Processes : DownIsIdle(p_1))'
    BY DEF Mcp!Crash, McpInv, DownIsIdle, McpTyped
  <1>4. (\A p_1 \in Processes, t_1 \in Tasks : HolderWorks(p_1, t_1))'
    BY DEF Mcp!Crash, Mcp!Fault, McpInv, HolderWorks, McpTyped
  <1>5. QED
    BY <1>1, <1>2, <1>3, <1>4 DEF McpInv

LEMMA McpRestart ==
    ASSUME Mcp!McpAssumption, McpInv, NEW p \in Processes, Mcp!Restart(p)
    PROVE  McpInv'
  <1>1. McpTyped'
    BY DEF Mcp!Restart, McpInv, McpTyped
  <1>2. (\A t_1 \in Tasks : TaskIsFresh(t_1))'
    BY DEF Mcp!Restart, McpInv, TaskIsFresh
  <1>3. (\A p_1 \in Processes : DownIsIdle(p_1))'
    BY DEF Mcp!Restart, McpInv, DownIsIdle
  <1>4. (\A p_1 \in Processes, t_1 \in Tasks : HolderWorks(p_1, t_1))'
    BY DEF Mcp!Restart, McpInv, HolderWorks
  <1>5. QED
    BY <1>1, <1>2, <1>3, <1>4 DEF McpInv

LEMMA McpLeaseExpires ==
    ASSUME Mcp!McpAssumption, McpInv, NEW t \in Tasks, Mcp!LeaseExpires(t)
    PROVE  McpInv'
  <1>1. McpTyped'
    <2>1. task' \in [Tasks -> TaskRows]
      BY TaskMarked DEF McpInv, McpTyped, Statuses, Mcp!LeaseExpires
    <2>2. QED
      BY <2>1 DEF McpInv, McpTyped, Mcp!LeaseExpires, Mcp!local, Mcp!Fault, Mcp!McpAssumption
  <1>2. (\A t_1 \in Tasks : TaskIsFresh(t_1))'
    BY DEF Mcp!LeaseExpires, Mcp!local, McpInv, TaskIsFresh
  <1>3. (\A p_1 \in Processes : DownIsIdle(p_1))'
    BY DEF Mcp!LeaseExpires, Mcp!local, McpInv, DownIsIdle
  <1>4. (\A p_1 \in Processes, t_1 \in Tasks : HolderWorks(p_1, t_1))'
    BY DEF Mcp!LeaseExpires, Mcp!Fault, Mcp!local, McpInv, HolderWorks, McpTyped
  <1>5. QED
    BY <1>1, <1>2, <1>3, <1>4 DEF McpInv

LEMMA McpStutter ==
    ASSUME Mcp!McpAssumption, McpInv, UNCHANGED Mcp!vars
    PROVE  McpInv'
  <1>1. McpTyped'
    BY DEF Mcp!vars, McpInv, McpTyped
  <1>2. (\A t_1 \in Tasks : TaskIsFresh(t_1))'
    BY DEF Mcp!vars, McpInv, TaskIsFresh
  <1>3. (\A p_1 \in Processes : DownIsIdle(p_1))'
    BY DEF Mcp!vars, McpInv, DownIsIdle
  <1>4. (\A p_1 \in Processes, t_1 \in Tasks : HolderWorks(p_1, t_1))'
    BY DEF Mcp!vars, McpInv, HolderWorks
  <1>5. QED
    BY <1>1, <1>2, <1>3, <1>4 DEF McpInv

LEMMA McpInit ==
    ASSUME Mcp!McpAssumption, Mcp!Init
    PROVE  McpInv
  <1>1. Mcp!NoTask \in TaskRows /\ Mcp!NotRunning \in Runs
    BY DEF Mcp!NoTask, Mcp!NotRunning, TaskRows, Runs, RunStates, Statuses
  <1>2. McpTyped
    BY <1>1 DEF Mcp!Init, Mcp!McpAssumption, McpTyped
  <1>3. /\ \A t \in Tasks : TaskIsFresh(t)
        /\ \A p \in Processes, t \in Tasks : HolderWorks(p, t)
    BY DEF Mcp!Init, Mcp!NoTask, TaskIsFresh, HolderWorks
  <1>4. \A p \in Processes : DownIsIdle(p)
    BY DEF Mcp!Init, DownIsIdle
  <1>5. QED
    BY <1>2, <1>3, <1>4 DEF McpInv

LEMMA McpStep ==
    ASSUME Mcp!McpAssumption, McpInv, [Mcp!Next]_(Mcp!vars)
    PROVE  McpInv'
  <1>1. ASSUME NEW p \in Processes, NEW t \in Tasks,
               \/ Mcp!Create(p, t) \/ Mcp!DeleteExpiredTerminal(p, t) \/ Mcp!Claim(p, t)
               \/ Mcp!ClaimFails(p, t) \/ Mcp!RenewLease(p, t) \/ Mcp!RenewalFails(p, t)
        PROVE  McpInv'
    BY <1>1, McpCreate, McpDeleteExpiredTerminal, McpClaim, McpClaimFails, McpRenewLease,
       McpRenewalFails
  <1>2. ASSUME NEW p \in Processes, NEW t \in Tasks,
               \/ Mcp!Executed(p, t) \/ Mcp!ExecutionThrows(p, t) \/ Mcp!Finish(p, t)
               \/ Mcp!CompleteFails(p, t) \/ Mcp!FailFails(p, t) \/ Mcp!CancelUnclaimed(p, t)
        PROVE  McpInv'
    BY <1>2, McpExecuted, McpExecutionThrows, McpFinish, McpCompleteFails, McpFailFails,
       McpCancelUnclaimed
  <1>3. ASSUME NEW p \in Processes,
               \/ Mcp!FailExpiredLeases(p) \/ Mcp!ListUnclaimed(p) \/ Mcp!EnqueueListed(p)
               \/ Mcp!CancelClaimed(p) \/ Mcp!Close(p) \/ Mcp!Closed(p) \/ Mcp!Crash(p)
               \/ Mcp!Restart(p)
        PROVE  McpInv'
    BY <1>3, McpFailExpiredLeases, McpListUnclaimed, McpEnqueueListed, McpCancelClaimed,
       McpClose, McpClosed, McpCrash, McpRestart
  <1>4. ASSUME NEW t \in Tasks, Mcp!CreateOnly(t) \/ Mcp!LeaseExpires(t)
        PROVE  McpInv'
    BY <1>4, McpCreateOnly, McpLeaseExpires
  <1>5. QED
    BY <1>1, <1>2, <1>3, <1>4, McpStutter DEF Mcp!Next

LEMMA McpAlways ==
    ASSUME Mcp!McpAssumption
    PROVE  Mcp!Spec => []McpInv
  <1>1. Mcp!Init => McpInv
    BY McpInit
  <1>2. McpInv /\ [Mcp!Next]_(Mcp!vars) => McpInv'
    BY McpStep
  <1>3. QED
    BY <1>1, <1>2, PTL DEF Mcp!Spec

\* A question is answered at most once (dispatcher.ts, task-store.ts claim): whatever
\* crashes, is lost or expires, no second run executes a task; and a cancellation is
\* only ever marked on a task that somebody holds, so that it is noticed.
THEOREM McpTasksAreAnsweredOnce ==
    ASSUME Mcp!McpAssumption
    PROVE  Mcp!Spec => [](Mcp!TypeOK /\ Mcp!AnsweredOnce /\ Mcp!CancellationIsNoticed)
  <1>1. ASSUME McpInv
        PROVE  Mcp!TypeOK /\ Mcp!AnsweredOnce /\ Mcp!CancellationIsNoticed
    <2>1. Mcp!TypeOK
      BY <1>1 DEF McpInv, McpTyped, TaskRows, Statuses, Mcp!TypeOK, Mcp!Terminal
    <2>2. Mcp!AnsweredOnce
      BY <1>1 DEF McpInv, McpTyped, Mcp!AnsweredOnce
    <2>3. Mcp!CancellationIsNoticed
      BY <1>1 DEF McpInv, TaskIsFresh, Mcp!CancellationIsNoticed
    <2>4. QED
      BY <2>1, <2>2, <2>3
  <1>2. QED
    BY <1>1, McpAlways, PTL

\* A process that closed in order left no run behind and, unless a store call or a lease
\* was lost, no task whose lease names it (dispatcher.ts close).
THEOREM ClosedMcpProcessesAreQuiet ==
    ASSUME Mcp!McpAssumption
    PROVE  Mcp!Spec => []Mcp!ClosedIsQuiet
  <1>1. ASSUME McpInv, NEW p \in Processes, process[p] = "closed"
        PROVE  /\ \A t \in Tasks : run[p][t] = Mcp!NotRunning
               /\ faults = 0 => \A t \in Tasks : task[t].status = "working" => task[t].owner # p
    <2>1. \A t \in Tasks : run[p][t] = Mcp!NotRunning
      BY <1>1 DEF McpInv, DownIsIdle
    <2>2. \A t \in Tasks : run[p][t].pc = "none"
      BY <2>1 DEF Mcp!NotRunning
    <2>3. QED
      BY <1>1, <2>1, <2>2 DEF McpInv, HolderWorks
  <1>2. McpInv => Mcp!ClosedIsQuiet
    BY <1>1 DEF Mcp!ClosedIsQuiet
  <1>3. QED
    BY <1>2, McpAlways, PTL

\* What a client was told is final does not change: a late completion, failure or
\* cancellation leaves a terminal task alone.
THEOREM TerminalMcpTasksStay ==
    ASSUME Mcp!McpAssumption
    PROVE  Mcp!Spec => [][Mcp!TerminalIsFinal]_(Mcp!vars)
  <1>1. ASSUME McpInv, Mcp!Next
        PROVE  Mcp!TerminalIsFinal
    <2> SUFFICES ASSUME NEW x \in Tasks, task[x].status \in Mcp!Terminal
                 PROVE  task'[x].status \in {task[x].status, "none"}
      BY DEF Mcp!TerminalIsFinal
    <2>1. task \in [Tasks -> TaskRows] /\ task[x].status \notin {"none", "working"}
      BY <1>1 DEF McpInv, McpTyped, Mcp!Terminal
    <2>2. ASSUME NEW p \in Processes, NEW t \in Tasks,
                 \/ Mcp!Create(p, t) \/ Mcp!DeleteExpiredTerminal(p, t) \/ Mcp!Claim(p, t)
                 \/ Mcp!ClaimFails(p, t) \/ Mcp!RenewLease(p, t) \/ Mcp!RenewalFails(p, t)
          PROVE  task'[x].status \in {task[x].status, "none"}
      BY <2>1, <2>2
      DEF Mcp!Create, Mcp!NoTask, Mcp!DeleteExpiredTerminal, Mcp!Claim, Mcp!ClaimFails, Mcp!RenewLease,
          Mcp!RenewalFails, TaskRows
    <2>3. ASSUME NEW p \in Processes, NEW t \in Tasks,
                 \/ Mcp!Executed(p, t) \/ Mcp!ExecutionThrows(p, t) \/ Mcp!FailFails(p, t)
                 \/ Mcp!CancelUnclaimed(p, t)
          PROVE  task'[x].status \in {task[x].status, "none"}
      BY <2>1, <2>3
      DEF Mcp!Executed, Mcp!ExecutionThrows, Mcp!FailFails, Mcp!CancelUnclaimed
    <2>4. ASSUME NEW p \in Processes, NEW t \in Tasks, Mcp!Finish(p, t) \/ Mcp!CompleteFails(p, t)
          PROVE  task'[x].status \in {task[x].status, "none"}
      <3>1. task' = task \/ (t # x /\ \E r : task' = [task EXCEPT ![t] = r])
        BY <2>1, <2>4 DEF Mcp!Finish, Mcp!CompleteFails, Mcp!Holds
      <3>2. QED
        BY <2>1, <3>1
    <2>5. ASSUME NEW p \in Processes,
                 \/ Mcp!FailExpiredLeases(p) \/ Mcp!ListUnclaimed(p) \/ Mcp!EnqueueListed(p)
                 \/ Mcp!CancelClaimed(p) \/ Mcp!Close(p) \/ Mcp!Closed(p) \/ Mcp!Crash(p)
                 \/ Mcp!Restart(p)
          PROVE  task'[x].status \in {task[x].status, "none"}
      <3>1. CASE Mcp!FailExpiredLeases(p)
        BY <2>1, <3>1 DEF Mcp!FailExpiredLeases, Mcp!Expired
      <3>2. CASE Mcp!CancelClaimed(p)
        <4>1. PICK b : task' = [task EXCEPT ![cancelling[p]].cancel = b]
          BY <3>2 DEF Mcp!CancelClaimed, Mcp!Requested
        <4>2. QED
          BY <2>1, <4>1 DEF TaskRows
      <3>3. CASE /\ ~Mcp!FailExpiredLeases(p) /\ ~Mcp!CancelClaimed(p)
        <4>1. task' = task
          BY <2>5, <3>3 DEF Mcp!ListUnclaimed, Mcp!EnqueueListed, Mcp!Close, Mcp!Closed, Mcp!Crash,
                            Mcp!Restart
        <4>2. QED
          BY <4>1
      <3>4. QED
        BY <3>1, <3>2, <3>3
    <2>6. ASSUME NEW t \in Tasks, Mcp!CreateOnly(t) \/ Mcp!LeaseExpires(t)
          PROVE  task'[x].status \in {task[x].status, "none"}
      BY <2>1, <2>6 DEF Mcp!CreateOnly, Mcp!NoTask, Mcp!LeaseExpires, TaskRows
    <2>7. QED
      BY <1>1, <2>2, <2>3, <2>4, <2>5, <2>6 DEF Mcp!Next
  <1>2. QED
    BY <1>1, McpAlways, PTL DEF Mcp!Spec
=============================================================================
