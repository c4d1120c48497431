------------------------------ MODULE ChatRuns ------------------------------
(***************************************************************************)
(* The runs of one conversation.  A request answers one user message; its  *)
(* id is the id of the run, so a client that lost the answer sends the     *)
(* same id again.  Handlers (requests being answered by some web process)  *)
(* share the tables only.  A lease expires whenever ExpireLease says so.   *)
(***************************************************************************)
EXTENDS Naturals, FiniteSets

CONSTANTS
    Runs,           \* request ids
    Handlers,       \* concurrent calls of answerChatMessageWithRuntime
    MaxAttempts,    \* bound: attempts of a run
    NoRun

ChatAssumption == NoRun \notin Runs /\ MaxAttempts \in Nat \ {0}

Phases == <<"accepted", "embedding", "retrieving", "generating", "publishing">>
PhaseSet == {Phases[i] : i \in 1 .. 5}
Ended == {"completed", "failed", "canceled"}

VARIABLES
    open,       \* the conversation exists
    run,        \* chat_runs: state, attempt_count and lease of each run
    answer,     \* chat_messages: the attempt that wrote the assistant message, or 0
    handler     \* what each call has reached

vars == <<open, run, answer, handler>>

NoRow == [state |-> "none", attempt |-> 0, lease |-> "none"]
Idle == [pc |-> "idle", run |-> NoRun, attempt |-> 0, aborted |-> FALSE, canceled |-> FALSE]

Init ==
    /\ open = TRUE
    /\ run = [r \in Runs |-> NoRow] /\ answer = [r \in Runs |-> 0]
    /\ handler = [h \in Handlers |-> Idle]

Active(rows) == {r \in Runs : rows[r].state \in PhaseSet}
-----------------------------------------------------------------------------
(* acceptUserMessage, one transaction under the conversation's row lock.    *)

FailedKeepsLease(row) == [row EXCEPT !.state = "failed"]
Failed(row) == [row EXCEPT !.state = "failed", !.lease = "none"]
NotRecovered == run
Recovered == [r \in Runs |->
    IF run[r].state \in PhaseSet /\ run[r].lease = "expired" THEN Failed(run[r]) ELSE run[r]]

NoCompetitor(r) == {}
Competing(r) == Active(Recovered) \ {r}
Startable(r) == Recovered[r].state \in {"none", "failed", "canceled"}

Answering(r, n) ==
    [pc |-> "accepted", run |-> r, attempt |-> n, aborted |-> FALSE, canceled |-> FALSE]

\* A new run, or another attempt at one that failed or was canceled.
Accept(h, r) ==
    /\ handler[h].pc = "idle" /\ open /\ Startable(r) /\ Competing(r) = {}
    /\ run[r].attempt < MaxAttempts
    /\ run' = [Recovered EXCEPT ![r] =
                  [state |-> "accepted", attempt |-> run[r].attempt + 1, lease |-> "live"]]
    /\ handler' = [handler EXCEPT ![h] =
                      Answering(r, run[r].attempt + 1)]
    /\ UNCHANGED <<open, answer>>

\* A completed run is read back: the recovery of the other runs is kept.
AcceptCompleted(h, r) ==
    /\ handler[h].pc = "idle" /\ open /\ Recovered[r].state = "completed"
    /\ run' = Recovered /\ run' # run
    /\ UNCHANGED <<open, answer, handler>>

\* The run is in progress (its recovery is committed); a conflict with another
\* run instead rolls the transaction back, which changes nothing.
AcceptInProgress(h, r) ==
    /\ handler[h].pc = "idle" /\ open /\ Recovered[r].state \in PhaseSet
    /\ run' = Recovered /\ run' # run
    /\ UNCHANGED <<open, answer, handler>>
-----------------------------------------------------------------------------
(* A call that owns an attempt.                                             *)

Working(h) == handler[h].pc \in PhaseSet
Owns(h) == open /\ run[handler[h].run].attempt = handler[h].attempt
Goes(h, pc) == handler' = [handler EXCEPT ![h].pc = pc]
PhaseOf(p) == CHOOSE i \in 1 .. 5 : Phases[i] = p

Moved(row, state) == [row EXCEPT !.state = state, !.lease = "live"]
Closed(row, state) == [row EXCEPT !.state = state, !.lease = "none"]

\* One phase is done: transitionRun moves the row on, or finds it changed.
Transition(h) ==
    LET r == handler[h].run
        to == Phases[PhaseOf(handler[h].pc) + 1] IN
    /\ Working(h) /\ handler[h].pc # "publishing"
    /\ IF Owns(h) /\ run[r].state = handler[h].pc
       THEN run' = [run EXCEPT ![r] = Moved(run[r], to)] /\ Goes(h, to)
       ELSE Goes(h, "failing") /\ UNCHANGED run
    /\ UNCHANGED <<open, answer>>

\* A phase fails, or notices the signal of the lease.
Fail(h) ==
    /\ Working(h) /\ Goes(h, "failing")
    /\ UNCHANGED <<open, run, answer>>

\* The heartbeat: a renewal that finds the run gone or another attempt's aborts.
Renew(h) ==
    LET r == handler[h].run IN
    /\ Working(h) /\ ~handler[h].aborted
    /\ IF Owns(h) /\ run[r].state \in PhaseSet
       THEN run' = [run EXCEPT ![r] = Moved(run[r], run[r].state)] /\ UNCHANGED handler
       ELSE handler' = [handler EXCEPT ![h].aborted = TRUE] /\ UNCHANGED run
    /\ UNCHANGED <<open, answer>>
RenewalFails(h) ==
    /\ Working(h) /\ ~handler[h].aborted
    /\ handler' = [handler EXCEPT ![h].aborted = TRUE]
    /\ UNCHANGED <<open, run, answer>>

Canceled(call) ==
    [call EXCEPT !.canceled = TRUE, !.aborted = call.aborted \/ call.pc \in PhaseSet]

\* The client goes away.
Cancel(h) ==
    /\ Working(h) \/ handler[h].pc = "stopped"
    /\ ~handler[h].canceled
    /\ handler' = [handler EXCEPT ![h] = Canceled(handler[h])]
    /\ UNCHANGED <<open, run, answer>>

\* The answer is ready: the heartbeat is stopped, unless it has failed.
StopLease(h) ==
    /\ handler[h].pc = "publishing" /\ ~handler[h].aborted /\ Goes(h, "stopped")
    /\ UNCHANGED <<open, run, answer>>

AnyAttempt(h) == open /\ run[handler[h].run].state = "publishing"
Publishable(h) == Owns(h) /\ run[handler[h].run].state = "publishing"

\* publishAssistant.  What comes after the commit may still fail.
Publish(h) ==
    LET r == handler[h].run IN
    /\ handler[h].pc = "stopped"
    /\ IF ~handler[h].canceled /\ Publishable(h)
       THEN /\ run' = [run EXCEPT ![r] = Closed(run[r], "completed")]
            /\ answer' = [answer EXCEPT ![r] = handler[h].attempt]
            /\ \/ handler' = [handler EXCEPT ![h] = Idle]
               \/ Goes(h, "failing")
       ELSE Goes(h, "failing") /\ UNCHANGED <<run, answer>>
    /\ UNCHANGED open

AnyState(h) == Owns(h)
Failable(h) == Owns(h) /\ run[handler[h].run].state # "completed"

\* failRun; it may not reach the database.
FailRun(h) ==
    LET r == handler[h].run IN
    /\ handler[h].pc = "failing" /\ handler' = [handler EXCEPT ![h] = Idle]
    /\ \/ /\ Failable(h)
          /\ run' = [run EXCEPT ![r] =
                        Closed(run[r], IF handler[h].canceled THEN "canceled" ELSE "failed")]
       \/ UNCHANGED run
    /\ UNCHANGED <<open, answer>>

\* The process dies.
Crash(h) ==
    /\ handler[h].pc # "idle" /\ handler' = [handler EXCEPT ![h] = Idle]
    /\ UNCHANGED <<open, run, answer>>
-----------------------------------------------------------------------------
ExpireLease(r) ==
    /\ run[r].lease = "live" /\ run' = [run EXCEPT ![r].lease = "expired"]
    /\ UNCHANGED <<open, answer, handler>>

\* deleteConversation: the rows of its runs and messages go with it.
Delete ==
    /\ open /\ open' = FALSE
    /\ run' = [r \in Runs |-> NoRow] /\ answer' = [r \in Runs |-> 0]
    /\ UNCHANGED handler

Next ==
    \/ Delete
    \/ \E r \in Runs : ExpireLease(r)
    \/ \E h \in Handlers :
          \/ Transition(h) \/ Fail(h) \/ Renew(h) \/ RenewalFails(h) \/ Cancel(h)
          \/ StopLease(h) \/ Publish(h) \/ FailRun(h) \/ Crash(h)
          \/ \E r \in Runs : Accept(h, r) \/ AcceptCompleted(h, r) \/ AcceptInProgress(h, r)

Spec == Init /\ [][Next]_vars

Abandoned(r) == \A h \in Handlers : handler[h].run = r => handler[h].attempt # run[r].attempt

\* Calls go on, an abandoned lease expires, and the user keeps sending messages.
Fairness ==
    /\ \A h \in Handlers : WF_vars(Transition(h) \/ Fail(h) \/ StopLease(h) \/ Publish(h) \/ FailRun(h))
    /\ \A r \in Runs :
          /\ WF_vars(Abandoned(r) /\ ExpireLease(r))
          /\ SF_vars(\E h \in Handlers :
                 Accept(h, r) \/ AcceptCompleted(h, r) \/ AcceptInProgress(h, r))

FairSpec == Spec /\ Fairness
-----------------------------------------------------------------------------
(* Properties.                                                              *)

\* Type invariant.
TypeOK ==
    /\ open \in BOOLEAN
    /\ run \in [Runs -> [state : PhaseSet \cup Ended \cup {"none"},
                         attempt : 0 .. MaxAttempts, lease : {"none", "live", "expired"}]]
    /\ \A r \in Runs : run[r].lease # "none" <=> run[r].state \in PhaseSet
    /\ answer \in [Runs -> 0 .. MaxAttempts]
    /\ handler \in [Handlers ->
          [pc : PhaseSet \cup {"idle", "stopped", "failing"}, run : Runs \cup {NoRun},
           attempt : 0 .. MaxAttempts, aborted : BOOLEAN, canceled : BOOLEAN]]

\* However many calls, recoveries and retries race, one run of the conversation
\* is in progress at a time.
OneRunInProgress == Cardinality(Active(run)) <= 1

\* A run has an assistant message exactly when it is completed, and the message
\* is of its current attempt: no call that lost its run publishes into it.
AnswersAreCurrent == \A r \in Runs :
    /\ run[r].state = "completed" <=> answer[r] # 0
    /\ answer[r] # 0 => answer[r] = run[r].attempt

\* A completed run stays completed while the conversation exists, whatever late
\* failures, recoveries and repeated requests follow.
CompletedIsFinal ==
    \A r \in Runs : run[r].state = "completed" /\ open' => run'[r] = run[r]

\* A call that no longer owns its attempt changes no run.
StaleCallsAreFenced ==
    \A h \in Handlers :
        handler[h].pc \notin {"idle"} /\ ~Owns(h) /\ handler'[h] # handler[h] => run' = run

\* A conversation is never blocked for good: a run in progress ends, or the next
\* message finds its lease expired and fails it.
NeverBlocked == \A r \in Runs :
    run[r].state \in PhaseSet ~>
        run[r].state \notin PhaseSet \/ (\A q \in Runs : run[q].attempt = MaxAttempts)

\* The runs implement fenced work: a phase in progress is open, a failed or
\* canceled run is dropped until its message is sent again.
WorkOf(r) ==
    [state |-> CASE run[r].state = "none" -> "none"
                 [] run[r].state = "completed" -> "delivered"
                 [] run[r].state \in PhaseSet -> "open"
                 [] OTHER -> "dropped",
     attempt |-> run[r].attempt, result |-> answer[r]]

Work == INSTANCE FencedWork WITH Items <- Runs, work <- [r \in Runs |-> WorkOf(r)]

\* Whatever calls race, repeat or die, an assistant message is written by the
\* latest attempt of its run and stands until the conversation is deleted.
RunsImplementFencedWork == Work!Spec
=============================================================================
