--------------------------- MODULE ChatRunsProofs ---------------------------
(***************************************************************************)
(* What the runs of a conversation guarantee for any number of requests,   *)
(* concurrent calls and attempts: one run is in progress at a time, an     *)
(* answer is that of the current attempt of a completed run, a completed   *)
(* run stays so, and the runs implement fenced work.                       *)
(***************************************************************************)
EXTENDS ChatRuns, FiniteSetTheorems, TLAPS

Rows == [state : PhaseSet \cup Ended \cup {"none"},
         attempt : 0 .. MaxAttempts, lease : {"none", "live", "expired"}]
Calls == [pc : PhaseSet \cup {"idle", "stopped", "failing"}, run : Runs \cup {NoRun},
          attempt : 0 .. MaxAttempts, aborted : BOOLEAN, canceled : BOOLEAN]

\* What holds of a run and of the answer to its message.
RowOK(row, a) ==
    /\ row.lease # "none" <=> row.state \in PhaseSet
    /\ row.state = "none" <=> row.attempt = 0
    /\ a = IF row.state = "completed" THEN row.attempt ELSE 0

\* A call in progress remembers the attempt that it made.
CallOK(call) == call.pc # "idle" => call.run \in Runs /\ call.attempt > 0

Inv ==
    /\ open \in BOOLEAN
    /\ run \in [Runs -> Rows] /\ answer \in [Runs -> 0 .. MaxAttempts]
    /\ handler \in [Handlers -> Calls]
    /\ \A r \in Runs : RowOK(run[r], answer[r])
    /\ \A h \in Handlers : CallOK(handler[h])
    /\ \A q, r \in Runs : run[q].state \in PhaseSet /\ run[r].state \in PhaseSet => q = r

\* How a step may change a run.
Follows(old, new) ==
    \/ new.state = "none" /\ new.attempt = 0
    \/ /\ new.attempt = old.attempt
       /\ \/ new.state = old.state
          \/ old.state \in PhaseSet /\ new.state \in PhaseSet \cup {"completed"}
          \/ /\ old.state # "completed" /\ old.attempt > 0
             /\ new.state \in {"failed", "canceled"}
    \/ /\ old.state # "completed"
       /\ new.state = "accepted" /\ new.attempt = old.attempt + 1

\* What is shown of each action: the invariant holds again, every run follows from
\* the run it was, and a completed run stays while the conversation does.
StepOK ==
    /\ Inv'
    /\ \A r \in Runs : Follows(run[r], run'[r])
    /\ \A r \in Runs : run[r].state = "completed" /\ open' => run'[r] = run[r]
-----------------------------------------------------------------------------
(* Phases and rows.                                                        *)

LEMMA PhaseNames == PhaseSet = {"accepted", "embedding", "retrieving", "generating", "publishing"}
  BY DEF PhaseSet, Phases

\* The phase after another one is a phase.
LEMMA NextPhase ==
    ASSUME NEW p \in PhaseSet, p # "publishing"
    PROVE  Phases[PhaseOf(p) + 1] \in PhaseSet
  <1>1. PICK i \in 1 .. 5 : Phases[i] = p
    BY DEF PhaseSet
  <1>2. PhaseOf(p) \in 1 .. 5 /\ Phases[PhaseOf(p)] = p
    BY <1>1 DEF PhaseOf
  <1>3. PhaseOf(p) # 5
    BY <1>2 DEF Phases
  <1>4. PhaseOf(p) + 1 \in 1 .. 5
    BY <1>2, <1>3
  <1>5. QED
    BY <1>4 DEF PhaseSet

LEMMA NewRow ==
    ASSUME ChatAssumption
    PROVE  NoRow \in Rows /\ NoRow.state = "none" /\ NoRow.attempt = 0 /\ RowOK(NoRow, 0)
  BY PhaseNames DEF NoRow, Rows, RowOK, ChatAssumption

LEMMA MovedRow ==
    ASSUME NEW row \in Rows, NEW state \in PhaseSet
    PROVE  /\ Moved(row, state) \in Rows
           /\ Moved(row, state).state = state /\ Moved(row, state).attempt = row.attempt
           /\ Moved(row, state).lease = "live"
  <1>1. Moved(row, state) \in Rows
    BY Zenon DEF Moved, Rows
  <1>2. QED
    BY <1>1, Zenon DEF Moved, Rows

LEMMA ClosedRow ==
    ASSUME NEW row \in Rows, NEW state \in Ended
    PROVE  /\ Closed(row, state) \in Rows
           /\ Closed(row, state).state = state /\ Closed(row, state).attempt = row.attempt
           /\ Closed(row, state).lease = "none"
  <1>1. Closed(row, state) \in Rows
    BY Zenon DEF Closed, Rows
  <1>2. QED
    BY <1>1, Zenon DEF Closed, Rows

LEMMA FailedRow ==
    ASSUME NEW row \in Rows
    PROVE  /\ Failed(row) \in Rows
           /\ Failed(row).state = "failed" /\ Failed(row).attempt = row.attempt
           /\ Failed(row).lease = "none"
  <1>1. Failed(row) \in Rows
    BY Zenon DEF Failed, Rows, Ended
  <1>2. QED
    BY <1>1, Zenon DEF Failed, Rows

LEMMA ExpiredRow ==
    ASSUME run \in [Runs -> Rows], NEW r \in Runs, run' = [run EXCEPT ![r].lease = "expired"]
    PROVE  /\ run' \in [Runs -> Rows]
           /\ run'[r].state = run[r].state /\ run'[r].attempt = run[r].attempt
           /\ run'[r].lease = "expired"
           /\ \A q \in Runs : q # r => run'[q] = run[q]
  <1>1. run' \in [Runs -> Rows]
    BY Zenon DEF Rows
  <1>2. /\ run'[r].state = run[r].state /\ run'[r].attempt = run[r].attempt
        /\ run'[r].lease = "expired"
    BY Zenon DEF Rows
  <1>3. \A q \in Runs : q # r => run'[q] = run[q]
    OBVIOUS
  <1>4. QED
    BY <1>1, <1>2, <1>3

\* Recovery only fails runs in progress.
LEMMA RecoveredRows ==
    ASSUME Inv
    PROVE  /\ Recovered \in [Runs -> Rows]
           /\ \A r \in Runs :
                /\ RowOK(Recovered[r], answer[r]) /\ Recovered[r].attempt = run[r].attempt
                /\ \/ Recovered[r] = run[r]
                   \/ run[r].state \in PhaseSet /\ Recovered[r].state = "failed"
  <1>1. ASSUME NEW r \in Runs
        PROVE  /\ Recovered[r] \in Rows
               /\ RowOK(Recovered[r], answer[r]) /\ Recovered[r].attempt = run[r].attempt
               /\ \/ Recovered[r] = run[r]
                  \/ run[r].state \in PhaseSet /\ Recovered[r].state = "failed"
    <2>1. run[r] \in Rows /\ RowOK(run[r], answer[r])
      BY DEF Inv
    <2>2. CASE run[r].state \in PhaseSet /\ run[r].lease = "expired"
      <3>1. Recovered[r] = Failed(run[r])
        BY <2>2 DEF Recovered
      <3>2. /\ Failed(run[r]) \in Rows /\ Failed(run[r]).state = "failed"
            /\ Failed(run[r]).attempt = run[r].attempt /\ Failed(run[r]).lease = "none"
        BY <2>1, FailedRow
      <3>3. RowOK(Failed(run[r]), answer[r])
        BY <2>1, <2>2, <3>2, PhaseNames DEF RowOK
      <3>4. QED
        BY <2>2, <3>1, <3>2, <3>3
    <2>3. CASE ~(run[r].state \in PhaseSet /\ run[r].lease = "expired")
      <3>1. Recovered[r] = run[r]
        BY <2>3 DEF Recovered
      <3>2. QED
        BY <2>1, <3>1
    <2>4. QED
      BY <2>2, <2>3
  <1>2. Recovered = [r \in Runs |-> Recovered[r]]
    BY DEF Recovered
  <1>3. QED
    BY <1>1, <1>2
-----------------------------------------------------------------------------
(* Steps.                                                                  *)

\* One run and its answer are written by a call that found the run its own.
LEMMA RowStep ==
    ASSUME ChatAssumption, Inv, handler' \in [Handlers -> Calls],
           \A h \in Handlers : CallOK(handler'[h]), UNCHANGED open,
           NEW r \in Runs, NEW row \in Rows, NEW a \in 0 .. MaxAttempts,
           run' = [run EXCEPT ![r] = row], answer' = [answer EXCEPT ![r] = a],
           RowOK(row, a), Follows(run[r], row), run[r].state # "completed",
           row.state \in PhaseSet => run[r].state \in PhaseSet
    PROVE  StepOK
  <1>1. run' \in [Runs -> Rows] /\ answer' \in [Runs -> 0 .. MaxAttempts]
    BY DEF Inv
  <1>2. \A q \in Runs : q # r => run'[q] = run[q] /\ answer'[q] = answer[q]
    BY DEF Inv
  <1>3. run'[r] = row /\ answer'[r] = a
    BY DEF Inv
  <1>4. \A q \in Runs : RowOK(run'[q], answer'[q])
    BY <1>2, <1>3 DEF Inv
  <1>5. \A q \in Runs : Follows(run[q], run'[q])
    BY <1>2, <1>3 DEF Follows
  <1>6. \A q \in Runs : run'[q].state \in PhaseSet => run[q].state \in PhaseSet
    BY <1>2, <1>3
  <1>7. \A q \in Runs : run[q].state = "completed" => run'[q] = run[q]
    BY <1>2
  <1>8. QED
    BY <1>1, <1>4, <1>5, <1>6, <1>7 DEF StepOK, Inv

\* No run is written.
LEMMA CallStep ==
    ASSUME Inv, handler' \in [Handlers -> Calls],
           \A h \in Handlers : CallOK(handler'[h]), UNCHANGED <<open, run, answer>>
    PROVE  StepOK
  <1>1. Inv'
    BY DEF Inv
  <1>2. \A r \in Runs : Follows(run[r], run'[r])
    BY DEF Follows
  <1>3. QED
    BY <1>1, <1>2 DEF StepOK

\* A call ends, or goes on to another position.
LEMMA CallMoves ==
    ASSUME ChatAssumption, Inv, NEW h \in Handlers, handler[h].pc # "idle",
           \/ handler' = [handler EXCEPT ![h] = Idle]
           \/ \E pc \in PhaseSet \cup {"stopped", "failing"} : Goes(h, pc)
           \/ handler' = [handler EXCEPT ![h].aborted = TRUE]
           \/ handler' = [handler EXCEPT ![h] = Canceled(handler[h])]
    PROVE  /\ handler' \in [Handlers -> Calls]
           /\ \A i \in Handlers : CallOK(handler'[i])
  <1> DEFINE call == handler[h]
  <1>1. handler \in [Handlers -> Calls] /\ \A i \in Handlers : CallOK(handler[i])
    BY DEF Inv
  <1>2. call \in Calls /\ call.run \in Runs /\ call.attempt > 0
    BY <1>1 DEF CallOK
  <1>3. CASE handler' = [handler EXCEPT ![h] = Idle]
    <2>1. Idle \in Calls /\ CallOK(Idle)
      BY DEF Idle, Calls, CallOK, ChatAssumption
    <2>2. QED
      BY <1>1, <1>3, <2>1
  <1>4. ASSUME NEW pc \in PhaseSet \cup {"stopped", "failing"}, Goes(h, pc)
        PROVE  /\ handler' \in [Handlers -> Calls]
               /\ \A i \in Handlers : CallOK(handler'[i])
    <2>1. handler' \in [Handlers -> Calls]
      BY <1>1, <1>4, Zenon DEF Goes, Calls
    <2>2. handler'[h].run = call.run /\ handler'[h].attempt = call.attempt
      BY <1>1, <1>4, Zenon DEF Goes, Calls
    <2>3. \A i \in Handlers : i # h => handler'[i] = handler[i]
      BY <1>1, <1>4 DEF Goes
    <2>4. QED
      BY <1>1, <1>2, <2>1, <2>2, <2>3 DEF CallOK
  <1>5. CASE handler' = [handler EXCEPT ![h].aborted = TRUE]
    <2>1. handler' \in [Handlers -> Calls]
      BY <1>1, <1>5, Zenon DEF Calls
    <2>2. handler'[h].run = call.run /\ handler'[h].attempt = call.attempt
      BY <1>1, <1>5, Zenon DEF Calls
    <2>3. \A i \in Handlers : i # h => handler'[i] = handler[i]
      BY <1>1, <1>5
    <2>4. QED
      BY <1>1, <1>2, <2>1, <2>2, <2>3 DEF CallOK
  <1>6. CASE handler' = [handler EXCEPT ![h] = Canceled(call)]
    <2>1. (call.aborted \/ call.pc \in PhaseSet) \in BOOLEAN
      BY Zenon
    <2>2. Canceled(call) \in Calls
      BY <1>2, <2>1, Zenon DEF Canceled, Calls
    <2>3. Canceled(call).run = call.run /\ Canceled(call).attempt = call.attempt
      BY <1>2, <2>2, Zenon DEF Canceled, Calls
    <2>4. CallOK(Canceled(call))
      BY <1>2, <2>3 DEF CallOK
    <2> HIDE DEF call
    <2>5. QED
      BY <1>1, <1>6, <2>2, <2>4
  <1>7. QED
    BY <1>3, <1>4, <1>5, <1>6

LEMMA SameCalls ==
    ASSUME Inv, UNCHANGED handler
    PROVE  handler' \in [Handlers -> Calls] /\ \A h \in Handlers : CallOK(handler'[h])
  BY DEF Inv

\* Only the recovery of a refused or repeated message is kept.
LEMMA RecoveryStep ==
    ASSUME Inv, run' = Recovered, UNCHANGED <<open, answer, handler>>
    PROVE  StepOK
  <1>1. \A r \in Runs :
           /\ RowOK(Recovered[r], answer[r]) /\ Recovered[r].attempt = run[r].attempt
           /\ \/ Recovered[r] = run[r]
              \/ run[r].state \in PhaseSet /\ Recovered[r].state = "failed"
    BY RecoveredRows
  <1>2. \A r \in Runs : RowOK(run[r], answer[r]) /\ run[r].attempt \in Nat
    BY DEF Inv, Rows
  <1>3. \A r \in Runs : Follows(run[r], run'[r])
    BY <1>1, <1>2, PhaseNames DEF Follows, RowOK
  <1>4. \A r \in Runs : run'[r].state \in PhaseSet => run[r].state \in PhaseSet
    BY <1>1
  <1>5. \A r \in Runs : run[r].state = "completed" => run'[r] = run[r]
    BY <1>1, PhaseNames
  <1>6. Inv'
    BY <1>1, <1>4, RecoveredRows DEF Inv
  <1>7. QED
    BY <1>3, <1>5, <1>6 DEF StepOK

LEMMA AcceptKeepsInv ==
    ASSUME ChatAssumption, Inv, NEW h \in Handlers, NEW r \in Runs, Accept(h, r)
    PROVE  StepOK
  <1> DEFINE n == run[r].attempt + 1
             row == [state |-> "accepted", attempt |-> n, lease |-> "live"]
             call == Answering(r, n)
  <1>1. /\ Recovered \in [Runs -> Rows]
        /\ \A q \in Runs :
              /\ RowOK(Recovered[q], answer[q]) /\ Recovered[q].attempt = run[q].attempt
              /\ \/ Recovered[q] = run[q]
                 \/ run[q].state \in PhaseSet /\ Recovered[q].state = "failed"
    BY RecoveredRows
  <1>2. /\ run' = [Recovered EXCEPT ![r] = row] /\ handler' = [handler EXCEPT ![h] = call]
        /\ UNCHANGED <<open, answer>>
        /\ Startable(r) /\ Competing(r) = {} /\ run[r].attempt < MaxAttempts
    BY DEF Accept
  <1>3. n \in 1 .. MaxAttempts /\ run[r].attempt \in Nat /\ n = run[r].attempt + 1
    BY <1>2 DEF Inv, Rows, ChatAssumption
  <1> HIDE DEF n
  <1>4. row \in Rows /\ row.state = "accepted" /\ row.attempt = n /\ row.lease = "live"
    BY <1>3, PhaseNames DEF Rows
  <1>5. Recovered[r].state \notin PhaseSet \cup {"completed"} /\ answer[r] = 0
    BY <1>1, <1>2, PhaseNames DEF Startable, RowOK
  <1>6. RowOK(row, answer[r])
    BY <1>3, <1>4, <1>5, PhaseNames DEF RowOK
  <1>7. run[r].state # "completed"
    BY <1>1, <1>5, PhaseNames
  <1> HIDE DEF row
  <1>8. /\ run' \in [Runs -> Rows] /\ run'[r] = row
        /\ \A q \in Runs : q # r => run'[q] = Recovered[q]
    BY <1>1, <1>2, <1>4
  <1>9. \A q \in Runs : q # r => Recovered[q].state \notin PhaseSet
    BY <1>2 DEF Competing, Active
  <1>10. \A q \in Runs : RowOK(run'[q], answer'[q])
    BY <1>1, <1>2, <1>6, <1>8
  <1>11. ASSUME NEW q \in Runs
         PROVE  Follows(run[q], run'[q])
    <2>1. CASE q = r
      BY <1>3, <1>4, <1>7, <1>8, <2>1 DEF Follows
    <2>2. CASE q # r
      <3>1. RowOK(run[q], answer[q]) /\ run[q].attempt \in Nat
        BY DEF Inv, Rows
      <3>2. QED
        BY <1>1, <1>8, <2>2, <3>1, PhaseNames DEF Follows, RowOK
    <2>3. QED
      BY <2>1, <2>2
  <1>12. \A q \in Runs : run[q].state = "completed" => run'[q] = run[q]
    BY <1>1, <1>7, <1>8, PhaseNames
  <1>13. call \in Calls /\ CallOK(call)
    BY <1>3, PhaseNames DEF Answering, Calls, CallOK
  <1>14. handler' \in [Handlers -> Calls] /\ \A i \in Handlers : CallOK(handler'[i])
    BY <1>2, <1>13 DEF Inv
  <1>15. \A p, q \in Runs : run'[p].state \in PhaseSet /\ run'[q].state \in PhaseSet => p = q
    BY <1>8, <1>9
  <1>16. Inv'
    BY <1>2, <1>8, <1>10, <1>14, <1>15 DEF Inv
  <1>17. QED
    BY <1>11, <1>12, <1>16 DEF StepOK

\* What a call in progress knows of the run that it owns.
LEMMA Owned ==
    ASSUME ChatAssumption, Inv, NEW h \in Handlers, handler[h].pc # "idle"
    PROVE  LET r == handler[h].run IN
           /\ r \in Runs /\ run[r] \in Rows /\ RowOK(run[r], answer[r])
           /\ handler[h].attempt \in 1 .. MaxAttempts
           /\ Owns(h) => run[r].attempt = handler[h].attempt
  <1>1. handler[h] \in Calls /\ CallOK(handler[h])
    BY DEF Inv
  <1>2. handler[h].run \in Runs /\ handler[h].attempt \in 1 .. MaxAttempts
    BY <1>1 DEF CallOK, Calls
  <1>3. QED
    BY <1>2 DEF Inv, Owns

LEMMA TransitionKeepsInv ==
    ASSUME ChatAssumption, Inv, NEW h \in Handlers, Transition(h)
    PROVE  StepOK
  <1> DEFINE r == handler[h].run
             to == Phases[PhaseOf(handler[h].pc) + 1]
             row == Moved(run[r], to)
  <1>1. handler[h].pc \in PhaseSet /\ handler[h].pc # "publishing" /\ UNCHANGED <<open, answer>>
    BY DEF Transition, Working
  <1>2. handler[h].pc # "idle" /\ to \in PhaseSet
    BY <1>1, NextPhase, PhaseNames
  <1>3. CASE Owns(h) /\ run[r].state = handler[h].pc
    <2>1. run' = [run EXCEPT ![r] = row] /\ Goes(h, to)
      BY <1>3 DEF Transition
    <2> HIDE DEF to
    <2>2. r \in Runs /\ run[r] \in Rows /\ RowOK(run[r], answer[r])
      BY <1>2, Owned
    <2>3. row \in Rows /\ row.state = to /\ row.attempt = run[r].attempt /\ row.lease = "live"
      BY <1>2, <2>2, MovedRow
    <2> HIDE DEF row
    <2>4. answer[r] = 0 /\ run[r].state \in PhaseSet /\ run[r].state # "completed"
      BY <1>1, <1>3, <2>2, PhaseNames DEF RowOK
    <2>5. RowOK(row, 0) /\ Follows(run[r], row)
      BY <1>2, <2>2, <2>3, <2>4, PhaseNames DEF RowOK, Follows
    <2>6. handler' \in [Handlers -> Calls] /\ \A i \in Handlers : CallOK(handler'[i])
      BY <1>2, <2>1, CallMoves
    <2>7. answer' = [answer EXCEPT ![r] = 0] /\ 0 \in 0 .. MaxAttempts
      BY <1>1, <2>4 DEF Inv, ChatAssumption
    <2>8. QED
      BY <1>1, <2>1, <2>2, <2>3, <2>4, <2>5, <2>6, <2>7, RowStep
  <1>4. CASE ~(Owns(h) /\ run[r].state = handler[h].pc)
    <2>1. Goes(h, "failing") /\ UNCHANGED run
      BY <1>4 DEF Transition
    <2>2. QED
      BY <1>1, <1>2, <2>1, CallMoves, CallStep
  <1>5. QED
    BY <1>3, <1>4

LEMMA RenewKeepsInv ==
    ASSUME ChatAssumption, Inv, NEW h \in Handlers, Renew(h)
    PROVE  StepOK
  <1> DEFINE r == handler[h].run
             row == Moved(run[r], run[r].state)
  <1>1. handler[h].pc # "idle" /\ UNCHANGED <<open, answer>>
    BY PhaseNames DEF Renew, Working
  <1>2. CASE Owns(h) /\ run[r].state \in PhaseSet
    <2>1. run' = [run EXCEPT ![r] = row] /\ UNCHANGED handler
      BY <1>2 DEF Renew
    <2>2. r \in Runs /\ run[r] \in Rows /\ RowOK(run[r], answer[r])
      BY <1>1, Owned
    <2>3. /\ row \in Rows /\ row.state = run[r].state /\ row.attempt = run[r].attempt
          /\ row.lease = "live"
      BY <1>2, <2>2, MovedRow
    <2> HIDE DEF row
    <2>4. answer[r] = 0 /\ run[r].state # "completed"
      BY <1>2, <2>2, PhaseNames DEF RowOK
    <2>5. RowOK(row, 0) /\ Follows(run[r], row)
      BY <1>2, <2>2, <2>3, <2>4, PhaseNames DEF RowOK, Follows
    <2>6. answer' = [answer EXCEPT ![r] = 0] /\ 0 \in 0 .. MaxAttempts
      BY <1>1, <2>4 DEF Inv, ChatAssumption
    <2>7. QED
      BY <1>1, <1>2, <2>1, <2>2, <2>3, <2>4, <2>5, <2>6, SameCalls, RowStep
  <1>3. CASE ~(Owns(h) /\ run[r].state \in PhaseSet)
    <2>1. handler' = [handler EXCEPT ![h].aborted = TRUE] /\ UNCHANGED run
      BY <1>3 DEF Renew
    <2>2. QED
      BY <1>1, <2>1, CallMoves, CallStep
  <1>4. QED
    BY <1>2, <1>3

LEMMA PublishKeepsInv ==
    ASSUME ChatAssumption, Inv, NEW h \in Handlers, Publish(h)
    PROVE  StepOK
  <1> DEFINE r == handler[h].run
             row == Closed(run[r], "completed")
  <1>1. handler[h].pc # "idle" /\ UNCHANGED open
    BY DEF Publish
  <1>2. \/ handler' = [handler EXCEPT ![h] = Idle]
        \/ Goes(h, "failing")
    BY DEF Publish
  <1>3. handler' \in [Handlers -> Calls] /\ \A i \in Handlers : CallOK(handler'[i])
    BY <1>1, <1>2, CallMoves
  <1>4. CASE ~handler[h].canceled /\ Publishable(h)
    <2>1. /\ run' = [run EXCEPT ![r] = row]
          /\ answer' = [answer EXCEPT ![r] = handler[h].attempt]
      BY <1>4 DEF Publish
    <2>2. Owns(h) /\ run[r].state = "publishing"
      BY <1>4 DEF Publishable
    <2>3. /\ r \in Runs /\ run[r] \in Rows /\ RowOK(run[r], answer[r])
          /\ handler[h].attempt \in 1 .. MaxAttempts /\ run[r].attempt = handler[h].attempt
      BY <1>1, <2>2, Owned
    <2>4. /\ row \in Rows /\ row.state = "completed" /\ row.attempt = run[r].attempt
          /\ row.lease = "none"
      BY <2>3, ClosedRow DEF Ended
    <2> HIDE DEF row
    <2>5. RowOK(row, handler[h].attempt) /\ Follows(run[r], row)
      BY <2>2, <2>3, <2>4, PhaseNames DEF RowOK, Follows
    <2>6. handler[h].attempt \in 0 .. MaxAttempts
      BY <2>3
    <2>7. row.state \notin PhaseSet
      BY <2>4, PhaseNames
    <2>8. QED
      BY <1>1, <1>3, <2>1, <2>2, <2>3, <2>4, <2>5, <2>6, <2>7, RowStep
  <1>5. CASE ~(~handler[h].canceled /\ Publishable(h))
    <2>1. UNCHANGED <<run, answer>>
      BY <1>5 DEF Publish
    <2>2. QED
      BY <1>1, <1>3, <2>1, CallStep
  <1>6. QED
    BY <1>4, <1>5

LEMMA FailRunKeepsInv ==
    ASSUME ChatAssumption, Inv, NEW h \in Handlers, FailRun(h)
    PROVE  StepOK
  <1> DEFINE r == handler[h].run
             state == IF handler[h].canceled THEN "canceled" ELSE "failed"
             row == Closed(run[r], state)
  <1>1. /\ handler[h].pc # "idle" /\ handler' = [handler EXCEPT ![h] = Idle]
        /\ UNCHANGED <<open, answer>>
    BY DEF FailRun
  <1>2. handler' \in [Handlers -> Calls] /\ \A i \in Handlers : CallOK(handler'[i])
    BY <1>1, CallMoves
  <1>3. CASE Failable(h) /\ run' = [run EXCEPT ![r] = row]
    <2>1. Owns(h) /\ run[r].state # "completed"
      BY <1>3 DEF Failable
    <2>2. /\ r \in Runs /\ run[r] \in Rows /\ RowOK(run[r], answer[r])
          /\ handler[h].attempt \in 1 .. MaxAttempts /\ run[r].attempt = handler[h].attempt
      BY <1>1, <2>1, Owned
    <2>3. state \in {"failed", "canceled"} /\ state \in Ended
      BY DEF Ended
    <2> HIDE DEF state
    <2>4. /\ row \in Rows /\ row.state = state /\ row.attempt = run[r].attempt
          /\ row.lease = "none"
      BY <2>2, <2>3, ClosedRow
    <2> HIDE DEF row
    <2>5. answer[r] = 0
      BY <2>1, <2>2 DEF RowOK
    <2>6. RowOK(row, 0) /\ Follows(run[r], row) /\ row.state \notin PhaseSet
      BY <2>1, <2>2, <2>3, <2>4, PhaseNames DEF RowOK, Follows
    <2>7. answer' = [answer EXCEPT ![r] = 0] /\ 0 \in 0 .. MaxAttempts
      BY <1>1, <2>5 DEF Inv, ChatAssumption
    <2>8. QED
      BY <1>1, <1>2, <1>3, <2>1, <2>2, <2>4, <2>6, <2>7, RowStep
  <1>4. CASE UNCHANGED run
    BY <1>1, <1>2, <1>4, CallStep
  <1>5. QED
    BY <1>3, <1>4 DEF FailRun

LEMMA ExpireKeepsInv ==
    ASSUME ChatAssumption, Inv, NEW r \in Runs, ExpireLease(r)
    PROVE  StepOK
  <1>1. /\ run[r].lease = "live" /\ run' = [run EXCEPT ![r].lease = "expired"]
        /\ UNCHANGED <<open, answer, handler>> /\ run \in [Runs -> Rows]
    BY DEF ExpireLease, Inv
  <1>2. /\ run' \in [Runs -> Rows]
        /\ run'[r].state = run[r].state /\ run'[r].attempt = run[r].attempt
        /\ run'[r].lease = "expired"
        /\ \A q \in Runs : q # r => run'[q] = run[q]
    BY <1>1, ExpiredRow
  <1>3. RowOK(run[r], answer[r])
    BY DEF Inv
  <1>4. \A q \in Runs : RowOK(run'[q], answer'[q])
    BY <1>1, <1>2, <1>3 DEF Inv, RowOK
  <1>5. run[r].state # "completed"
    BY <1>1, <1>3, PhaseNames DEF RowOK
  <1>6. \A q \in Runs : Follows(run[q], run'[q])
    BY <1>2 DEF Follows
  <1>7. \A q \in Runs : run[q].state = "completed" => run'[q] = run[q]
    BY <1>2, <1>5
  <1>8. \A q \in Runs : run'[q].state = run[q].state
    BY <1>2
  <1>9. Inv'
    BY <1>1, <1>2, <1>4, <1>8 DEF Inv
  <1>10. QED
    BY <1>6, <1>7, <1>9 DEF StepOK

LEMMA DeleteKeepsInv ==
    ASSUME ChatAssumption, Inv, Delete
    PROVE  StepOK
  <1>1. /\ open' = FALSE /\ UNCHANGED handler
        /\ run' = [r \in Runs |-> NoRow] /\ answer' = [r \in Runs |-> 0]
    BY DEF Delete
  <1>2. NoRow \in Rows /\ NoRow.state = "none" /\ NoRow.attempt = 0 /\ RowOK(NoRow, 0)
    BY NewRow
  <1>3. \A r \in Runs : run'[r] = NoRow /\ answer'[r] = 0
    BY <1>1
  <1>4. run' \in [Runs -> Rows] /\ answer' \in [Runs -> 0 .. MaxAttempts]
    BY <1>1, <1>2 DEF ChatAssumption
  <1>5. Inv'
    BY <1>1, <1>2, <1>3, <1>4, PhaseNames DEF Inv
  <1>6. \A r \in Runs : Follows(run[r], run'[r])
    BY <1>2, <1>3 DEF Follows
  <1>7. QED
    BY <1>1, <1>5, <1>6 DEF StepOK
-----------------------------------------------------------------------------
LEMMA InitInv ==
    ASSUME ChatAssumption, Init
    PROVE  Inv
  <1>1. NoRow \in Rows /\ NoRow.state = "none" /\ RowOK(NoRow, 0)
    BY NewRow
  <1>2. Idle \in Calls /\ CallOK(Idle)
    BY DEF Idle, Calls, CallOK, ChatAssumption
  <1>3. QED
    BY <1>1, <1>2, PhaseNames DEF Init, Inv, ChatAssumption

LEMMA StepInv ==
    ASSUME ChatAssumption, Inv, [Next]_vars
    PROVE  StepOK
  <1>1. CASE Delete
    BY <1>1, DeleteKeepsInv
  <1>2. ASSUME NEW r \in Runs, ExpireLease(r) PROVE StepOK
    BY <1>2, ExpireKeepsInv
  <1>3. ASSUME NEW h \in Handlers, Transition(h) PROVE StepOK
    BY <1>3, TransitionKeepsInv
  <1>4. ASSUME NEW h \in Handlers, Renew(h) PROVE StepOK
    BY <1>4, RenewKeepsInv
  <1>5. ASSUME NEW h \in Handlers, Publish(h) PROVE StepOK
    BY <1>5, PublishKeepsInv
  <1>6. ASSUME NEW h \in Handlers, FailRun(h) PROVE StepOK
    BY <1>6, FailRunKeepsInv
  <1>7. ASSUME NEW h \in Handlers, NEW r \in Runs, Accept(h, r) PROVE StepOK
    BY <1>7, AcceptKeepsInv
  <1>8. ASSUME NEW h \in Handlers, NEW r \in Runs,
               AcceptCompleted(h, r) \/ AcceptInProgress(h, r)
        PROVE  StepOK
    BY <1>8, RecoveryStep DEF AcceptCompleted, AcceptInProgress
  <1>9. ASSUME NEW h \in Handlers,
               Fail(h) \/ RenewalFails(h) \/ Cancel(h) \/ StopLease(h) \/ Crash(h)
        PROVE  StepOK
    <2>1. handler[h].pc # "idle" /\ UNCHANGED <<open, run, answer>>
      BY <1>9, PhaseNames DEF Fail, RenewalFails, Cancel, StopLease, Crash, Working
    <2>2. \/ handler' = [handler EXCEPT ![h] = Idle]
          \/ Goes(h, "failing") \/ Goes(h, "stopped")
          \/ handler' = [handler EXCEPT ![h].aborted = TRUE]
          \/ handler' = [handler EXCEPT ![h] = Canceled(handler[h])]
      BY <1>9, Zenon DEF Fail, RenewalFails, Cancel, StopLease, Crash
    <2>3. QED
      BY <2>1, <2>2, CallMoves, CallStep
  <1>10. CASE UNCHANGED vars
    BY <1>10, SameCalls, CallStep DEF vars
  <1>11. QED
    BY <1>1, <1>2, <1>3, <1>4, <1>5, <1>6, <1>7, <1>8, <1>9, <1>10 DEF Next

\* At most one run in progress, as a number.
LEMMA OneAtATime ==
    ASSUME Inv
    PROVE  OneRunInProgress
  <1>1. \A q, r \in Active(run) : q = r
    BY DEF Active, Inv
  <1>2. CASE Active(run) = {}
    BY <1>2, FS_EmptySet DEF OneRunInProgress
  <1>3. CASE Active(run) # {}
    <2>1. PICK r \in Active(run) : Active(run) = {r}
      BY <1>1, <1>3
    <2>2. Cardinality({r}) = 1
      BY FS_Singleton
    <2>3. QED
      BY <2>1, <2>2 DEF OneRunInProgress
  <1>4. QED
    BY <1>2, <1>3

LEMMA InvImplies ==
    ASSUME ChatAssumption, Inv
    PROVE  TypeOK /\ AnswersAreCurrent
  <1>1. TypeOK
    <2>1. \A r \in Runs : run[r].lease # "none" <=> run[r].state \in PhaseSet
      BY DEF Inv, RowOK
    <2>2. QED
      BY <2>1, Zenon DEF Inv, TypeOK, Rows, Calls
  <1>2. AnswersAreCurrent
    <2> SUFFICES ASSUME NEW r \in Runs
                 PROVE  /\ run[r].state = "completed" <=> answer[r] # 0
                        /\ answer[r] # 0 => answer[r] = run[r].attempt
      BY DEF AnswersAreCurrent
    <2>1. RowOK(run[r], answer[r])
      BY DEF Inv
    <2>2. QED
      BY <2>1 DEF RowOK
  <1>3. QED
    BY <1>1, <1>2

\* The rows, the answers and the calls are typed in every behaviour.
THEOREM TypeCorrect ==
    ASSUME ChatAssumption
    PROVE  Spec => []TypeOK
  <1>1. Init => Inv
    BY InitInv
  <1>2. Inv /\ [Next]_vars => Inv'
    BY StepInv DEF StepOK
  <1>3. Inv => TypeOK
    BY InvImplies
  <1>4. QED
    BY <1>1, <1>2, <1>3, PTL DEF Spec

\* However many calls, recoveries and retries race, one run of the conversation
\* is in progress at a time.
THEOREM OneRunAtATime ==
    ASSUME ChatAssumption
    PROVE  Spec => []OneRunInProgress
  <1>1. Init => Inv
    BY InitInv
  <1>2. Inv /\ [Next]_vars => Inv'
    BY StepInv DEF StepOK
  <1>3. Inv => OneRunInProgress
    BY OneAtATime
  <1>4. QED
    BY <1>1, <1>2, <1>3, PTL DEF Spec

\* A run has an assistant message exactly when it is completed, and the message
\* is of its current attempt.
THEOREM AnswersStayCurrent ==
    ASSUME ChatAssumption
    PROVE  Spec => []AnswersAreCurrent
  <1>1. Init => Inv
    BY InitInv
  <1>2. Inv /\ [Next]_vars => Inv'
    BY StepInv DEF StepOK
  <1>3. Inv => AnswersAreCurrent
    BY InvImplies
  <1>4. QED
    BY <1>1, <1>2, <1>3, PTL DEF Spec

\* A completed run stays completed while its conversation exists.
THEOREM CompletedStays ==
    ASSUME ChatAssumption
    PROVE  Spec => [][CompletedIsFinal]_vars
  <1>1. Init => Inv
    BY InitInv
  <1>2. Inv /\ [Next]_vars => Inv' /\ CompletedIsFinal
    BY StepInv DEF StepOK, CompletedIsFinal
  <1>3. QED
    BY <1>1, <1>2, PTL DEF Spec
\* What a call does that is not idle is its own step, and only one that owns its
\* attempt writes runs.
LEMMA StaleStep ==
    ASSUME Inv, [Next]_vars
    PROVE  StaleCallsAreFenced
  <1> SUFFICES ASSUME NEW h \in Handlers, handler[h].pc # "idle", ~Owns(h), handler'[h] # handler[h]
               PROVE  run' = run
    BY DEF StaleCallsAreFenced
  <1>1. \A g \in Handlers : \A value : handler' = [handler EXCEPT ![g] = value] => g = h
    BY DEF Inv
  <1>2. ~(UNCHANGED handler)
    OBVIOUS
  <1>3. ASSUME NEW g \in Handlers, Transition(g) \/ Renew(g) \/ Publish(g) \/ FailRun(g)
        PROVE  run' = run
    <2>1. g = h \/ UNCHANGED handler
      BY <1>1, <1>3, Zenon DEF Transition, Renew, Publish, FailRun, Goes
    <2>2. QED
      BY <1>2, <1>3, <2>1 DEF Transition, Renew, Publish, FailRun, Publishable, Failable
  <1>4. ASSUME NEW g \in Handlers, NEW r \in Runs, Accept(g, r) PROVE FALSE
    BY <1>1, <1>4 DEF Accept
  <1>5. QED
    BY <1>2, <1>3, <1>4
    DEF Next, Delete, ExpireLease, Fail, RenewalFails, Cancel, StopLease, Crash, AcceptCompleted,
        AcceptInProgress, vars

\* A call that has lost its attempt, or whose conversation is deleted, changes no run: its
\* transitions, renewals, publication and failure are fenced by the attempt number.
THEOREM StaleCallsChangeNothing ==
    ASSUME ChatAssumption
    PROVE  Spec => [][StaleCallsAreFenced]_vars
  <1>1. Init => Inv
    BY InitInv
  <1>2. Inv /\ [Next]_vars => Inv' /\ StaleCallsAreFenced
    BY StepInv, StaleStep DEF StepOK
  <1>3. QED
    BY <1>1, <1>2, PTL DEF Spec
-----------------------------------------------------------------------------
(* The runs implement fenced work.                                         *)

Abstract(row, a) ==
    [state |-> CASE row.state = "none" -> "none"
                 [] row.state = "completed" -> "delivered"
                 [] row.state \in PhaseSet -> "open"
                 [] OTHER -> "dropped",
     attempt |-> row.attempt, result |-> a]

\* The four kinds of runs, as abstract items.
LEMMA AbstractRows ==
    ASSUME NEW row \in Rows, NEW a, RowOK(row, a)
    PROVE  /\ row.state = "none" =>
                Abstract(row, a) = [state |-> "none", attempt |-> 0, result |-> 0]
           /\ row.state = "completed" =>
                Abstract(row, a) = [state |-> "delivered", attempt |-> row.attempt,
                                    result |-> row.attempt]
           /\ row.state \in PhaseSet =>
                Abstract(row, a) = [state |-> "open", attempt |-> row.attempt, result |-> 0]
           /\ row.state \in {"failed", "canceled"} =>
                Abstract(row, a) = [state |-> "dropped", attempt |-> row.attempt, result |-> 0]
           /\ row.state \in {"none", "completed", "failed", "canceled"} \cup PhaseSet
  <1>1. ASSUME row.state = "none"
        PROVE  Abstract(row, a) = [state |-> "none", attempt |-> 0, result |-> 0]
    <2>1. /\ row.attempt = 0 /\ a = 0
          /\ row.state # "completed" /\ row.state \notin PhaseSet
      BY <1>1, PhaseNames DEF RowOK
    <2>2. Abstract(row, a).state = "none"
      BY <1>1, <2>1, Zenon DEF Abstract
    <2>3. QED
      BY <1>1, <2>1, <2>2, Zenon DEF Abstract
  <1>2. ASSUME row.state = "completed"
        PROVE  Abstract(row, a) = [state |-> "delivered", attempt |-> row.attempt,
                                   result |-> row.attempt]
    <2>1. a = row.attempt /\ row.state # "none" /\ row.state \notin PhaseSet
      BY <1>2, PhaseNames DEF RowOK
    <2>2. Abstract(row, a).state = "delivered"
      BY <1>2, <2>1, Zenon DEF Abstract
    <2>3. QED
      BY <1>2, <2>1, <2>2, Zenon DEF Abstract
  <1>3. row.state \in PhaseSet =>
           Abstract(row, a) = [state |-> "open", attempt |-> row.attempt, result |-> 0]
    <2>1. row.state \in PhaseSet => row.state # "none" /\ row.state # "completed" /\ a = 0
      BY PhaseNames DEF RowOK
    <2>2. QED
      BY <2>1, Zenon DEF Abstract
  <1>4. row.state \in {"failed", "canceled"} =>
           Abstract(row, a) = [state |-> "dropped", attempt |-> row.attempt, result |-> 0]
    <2>1. row.state \in {"failed", "canceled"} =>
             row.state # "none" /\ row.state # "completed" /\ row.state \notin PhaseSet /\ a = 0
      BY PhaseNames DEF RowOK
    <2>2. QED
      BY <2>1, Zenon DEF Abstract
  <1>5. row.state \in {"none", "completed", "failed", "canceled"} \cup PhaseSet
    BY DEF Rows, Ended
  <1>6. QED
    BY <1>1, <1>2, <1>3, <1>4, <1>5

\* A run that follows from another does what the abstract item may do.
LEMMA FollowsImplements ==
    ASSUME NEW old \in Rows, NEW new \in Rows, NEW a, NEW b,
           RowOK(old, a), RowOK(new, b), Follows(old, new)
    PROVE  Abstract(new, b) \in Work!After(Abstract(old, a))
  <1> DEFINE o == Abstract(old, a)
             n == Abstract(new, b)
  <1>1. /\ old.attempt \in Nat
        /\ old.state = "none" <=> old.attempt = 0
        /\ new.state = "none" <=> new.attempt = 0
    BY DEF Rows, RowOK
  <1>2. /\ old.state = "none" => o = [state |-> "none", attempt |-> 0, result |-> 0]
        /\ old.state = "completed" =>
             o = [state |-> "delivered", attempt |-> old.attempt, result |-> old.attempt]
        /\ old.state \in PhaseSet =>
             o = [state |-> "open", attempt |-> old.attempt, result |-> 0]
        /\ old.state \in {"failed", "canceled"} =>
             o = [state |-> "dropped", attempt |-> old.attempt, result |-> 0]
        /\ old.state \in {"none", "completed", "failed", "canceled"} \cup PhaseSet
    BY AbstractRows
  <1>3. /\ new.state = "none" => n = [state |-> "none", attempt |-> 0, result |-> 0]
        /\ new.state = "completed" =>
             n = [state |-> "delivered", attempt |-> new.attempt, result |-> new.attempt]
        /\ new.state \in PhaseSet =>
             n = [state |-> "open", attempt |-> new.attempt, result |-> 0]
        /\ new.state \in {"failed", "canceled"} =>
             n = [state |-> "dropped", attempt |-> new.attempt, result |-> 0]
        /\ new.state \in {"none", "completed", "failed", "canceled"} \cup PhaseSet
    BY AbstractRows
  <1> SUFFICES n \in Work!After(o)
    OBVIOUS
  <1> HIDE DEF o, n
  <1>4. CASE new.state = "none"
    BY <1>3, <1>4 DEF Work!After, Work!None
  <1>5. CASE new.attempt = old.attempt /\ new.state = old.state
    <2>1. n = o
      BY <1>2, <1>3, <1>5
    <2>2. QED
      BY <2>1 DEF Work!After
  <1>6. CASE /\ new.attempt = old.attempt
             /\ old.state \in PhaseSet /\ new.state \in PhaseSet
    <2>1. n = o
      BY <1>2, <1>3, <1>6
    <2>2. QED
      BY <2>1 DEF Work!After
  <1>7. CASE /\ new.attempt = old.attempt
             /\ old.state \in PhaseSet /\ new.state = "completed"
    <2>1. /\ o = [state |-> "open", attempt |-> old.attempt, result |-> 0]
          /\ n = [state |-> "delivered", attempt |-> old.attempt, result |-> old.attempt]
          /\ old.attempt > 0
      BY <1>1, <1>2, <1>3, <1>7, PhaseNames
    <2>2. QED
      BY <2>1 DEF Work!After, Work!Delivered
  <1>8. CASE /\ new.attempt = old.attempt /\ old.state # "completed" /\ old.attempt > 0
             /\ new.state \in {"failed", "canceled"}
    <2>1. n = [state |-> "dropped", attempt |-> old.attempt, result |-> 0]
      BY <1>3, <1>8
    <2>2. CASE old.state \in PhaseSet
      <3>1. o = [state |-> "open", attempt |-> old.attempt, result |-> 0]
        BY <1>2, <2>2
      <3>2. QED
        BY <1>8, <2>1, <3>1 DEF Work!After, Work!Dropped
    <2>3. CASE old.state \notin PhaseSet
      <3>1. n = o
        BY <1>1, <1>2, <1>8, <2>1, <2>3
      <3>2. QED
        BY <3>1 DEF Work!After
    <2>4. QED
      BY <2>2, <2>3
  <1>9. CASE /\ old.state # "completed"
             /\ new.state = "accepted" /\ new.attempt = old.attempt + 1
    <2>1. n = [state |-> "open", attempt |-> old.attempt + 1, result |-> 0]
      BY <1>3, <1>9, PhaseNames
    <2>2. o.attempt = old.attempt /\ o.state \in {"none", "open", "dropped"}
      BY <1>1, <1>2, <1>9
    <2>3. QED
      BY <2>1, <2>2 DEF Work!After, Work!Opened
  <1>10. QED
    BY <1>4, <1>5, <1>6, <1>7, <1>8, <1>9 DEF Follows

\* Every step of the runs is a step of fenced work or changes none of it.
LEMMA StepImplements ==
    ASSUME ChatAssumption, Inv, [Next]_vars
    PROVE  Work!Next
  <1> DEFINE work == [r \in Runs |-> WorkOf(r)]
  <1>1. StepOK
    BY StepInv
  <1>2. ASSUME NEW r \in Runs
        PROVE  work'[r] \in Work!After(work[r])
    <2>1. work[r] = Abstract(run[r], answer[r])
      BY DEF WorkOf, Abstract
    <2>2. work'[r] = Abstract(run'[r], answer'[r])
      BY Zenon DEF WorkOf, Abstract
    <2>3. /\ run[r] \in Rows /\ RowOK(run[r], answer[r])
          /\ run'[r] \in Rows /\ RowOK(run'[r], answer'[r])
          /\ Follows(run[r], run'[r])
      BY <1>1 DEF StepOK, Inv
    <2>4. QED
      BY <2>1, <2>2, <2>3, FollowsImplements
  <1>3. work' \in [Runs -> UNION {Work!After(work[r]) : r \in Runs}]
    BY <1>2
  <1>4. QED
    BY <1>2, <1>3 DEF Work!Next

\* Whatever calls race, repeat or die, an assistant message is written by the
\* latest attempt of its run and stands until the conversation is deleted.
THEOREM ImplementsFencedWork ==
    ASSUME ChatAssumption
    PROVE  Spec => RunsImplementFencedWork
  <1>1. Init => Inv /\ Work!Init
    <2> SUFFICES ASSUME Init PROVE Work!Init
      BY InitInv
    <2>1. NoRow \in Rows /\ NoRow.state = "none" /\ RowOK(NoRow, 0)
      BY NewRow
    <2>2. Abstract(NoRow, 0) = Work!None
      BY <2>1, AbstractRows DEF Work!None
    <2>3. ASSUME NEW r \in Runs
          PROVE  WorkOf(r) = Work!None
      <3>1. run[r] = NoRow /\ answer[r] = 0
        BY DEF Init
      <3>2. WorkOf(r) = Abstract(run[r], answer[r])
        BY Zenon DEF WorkOf, Abstract
      <3>3. QED
        BY <2>2, <3>1, <3>2
    <2>4. QED
      BY <2>3 DEF Work!Init
  <1>2. Inv /\ [Next]_vars => Inv'
    BY StepInv DEF StepOK
  <1>3. Inv /\ [Next]_vars => Work!Next
    BY StepImplements
  <1>4. QED
    BY <1>1, <1>2, <1>3, PTL DEF Spec, RunsImplementFencedWork, Work!Spec
=============================================================================
