------------------------- MODULE LeaseHeartbeatProofs -------------------------
(***************************************************************************)
(* What the lease heartbeat guarantees for every length of the lease and   *)
(* every delay of its first confirmation: a working holder is watched, and *)
(* works on for a bounded time after its row has expired; a stopped one    *)
(* leaves nothing behind; a lost lease stays lost.                         *)
(***************************************************************************)
EXTENDS LeaseHeartbeat, Sequences, FiniteSets, SequenceTheorems, FiniteSetTheorems,
        WellFoundedInduction, TLAPS

Third == Lease \div 3
Overrun == Later(MaxDelay, Lease - Third)

Typed ==
    /\ now \in Nat /\ now <= MaxTime /\ expiry \in Int /\ taken \in BOOLEAN
    /\ phase \in {"starting", "working", "stopping", "stopped"} /\ aborted \in BOOLEAN
    /\ renewal \in {NoRenewal, "sent", "granted", "null"}
    /\ renewAt \in Int /\ deadlineAt \in Int /\ confirmed \in Int
    /\ renewAt = Unset \/ (now <= renewAt /\ renewAt <= now + Lease)
    /\ deadlineAt = Unset \/ (now <= deadlineAt /\ deadlineAt <= now + Lease)

\* Only a working holder plans a renewal, one at a time.
OneRenewal == renewAt # Unset => Working /\ renewal = NoRenewal

\* Before the first confirmation nothing has happened.
Starting ==
    phase = "starting" =>
        /\ ~aborted /\ renewal = NoRenewal /\ renewAt = Unset /\ deadlineAt = Unset
        /\ expiry = Lease /\ now <= MaxDelay

Quiet ==
    /\ phase \in {"stopping", "stopped"} => renewAt = Unset /\ deadlineAt = Unset
    /\ phase = "stopped" => renewal = NoRenewal

\* The last confirmation is not far behind the row; a renewal is sent a third of a
\* lease after it at the earliest, so its grant carries the row as far ahead.
Watched ==
    Working =>
        /\ deadlineAt = confirmed /\ now <= confirmed
        /\ renewal # NoRenewal \/ renewAt # Unset
        /\ confirmed <= expiry + Overrun
        /\ renewAt # Unset => renewAt <= confirmed /\ confirmed + Third <= renewAt + Lease
        /\ renewal # NoRenewal => confirmed + Third <= now + Lease
        /\ renewal = "granted" => confirmed + Third <= expiry

Inv == Typed /\ OneRenewal /\ Starting /\ Quiet /\ Watched

LEMMA Thirds ==
    ASSUME HeartbeatAssumption
    PROVE  /\ Third \in Int /\ 1 <= Third /\ Third <= Lease
           /\ Overrun \in Int /\ MaxDelay <= Overrun /\ Lease <= Overrun + Third
           /\ Lease \in Int /\ 6 <= Lease /\ MaxDelay \in Int /\ 0 <= MaxDelay /\ MaxTime \in Nat
  <1>1. /\ Lease \in Int /\ 6 <= Lease /\ MaxDelay \in Int /\ 0 <= MaxDelay /\ MaxTime \in Nat
    BY DEF HeartbeatAssumption
  <1>2. Third \in Int /\ 1 <= Third /\ Third <= Lease
    BY <1>1 DEF Third
  <1>3. Overrun \in Int /\ MaxDelay <= Overrun /\ Lease <= Overrun + Third
    BY <1>1, <1>2 DEF Overrun, Later
  <1>4. QED
    BY <1>1, <1>2, <1>3

\* A confirmation that arrives while the holder is not stopping.
LEMMA Confirmed ==
    ASSUME HeartbeatAssumption, Inv, Confirm
    PROVE  IF phase = "stopping" THEN UNCHANGED <<confirmed, timers>>
           ELSE /\ confirmed' = now + Lease /\ deadlineAt' = now + Lease
                /\ renewAt' = IF aborted THEN renewAt ELSE now + Third
  BY Thirds DEF Confirm, Scheduled, Later, Third

LEMMA InitInv ==
    ASSUME HeartbeatAssumption, Init
    PROVE  Inv
  <1>1. /\ now = 0 /\ expiry = Lease /\ ~taken /\ taken \in BOOLEAN
        /\ phase = "starting" /\ ~aborted /\ aborted \in BOOLEAN /\ renewal = "none"
        /\ renewAt = -1 /\ deadlineAt = -1 /\ confirmed = 0
    BY DEF Init, Unset, NoRenewal
  <1>2. Typed
    BY <1>1, Thirds DEF Typed, Unset, NoRenewal
  <1>3. OneRenewal /\ Starting
    BY <1>1, Thirds DEF OneRenewal, Starting, Unset, NoRenewal
  <1>4. Quiet /\ Watched
    BY <1>1 DEF Quiet, Watched, Working
  <1>5. QED
    BY <1>2, <1>3, <1>4 DEF Inv

LEMMA StartKeepsInv ==
    ASSUME HeartbeatAssumption, Inv, Start
    PROVE  Inv'
  <1>1. /\ phase = "starting" /\ phase' = "working" /\ UNCHANGED <<now, row, aborted, renewal>>
        /\ ~aborted /\ renewal = NoRenewal /\ expiry = Lease /\ now <= MaxDelay
        /\ confirmed' = now + Lease /\ deadlineAt' = now + Lease /\ renewAt' = now + Third
    BY Confirmed DEF Start, Inv, Starting
  <1>2. QED
    BY <1>1, Thirds DEF Inv, Typed, OneRenewal, Starting, Quiet, Watched, Working, Unset,
                        NoRenewal, row

\* The lease is lost, at any time.
LEMMA LossStep ==
    ASSUME HeartbeatAssumption, Inv, LoseLease, UNCHANGED <<now, row, confirmed>>,
           phase' # "starting",
           phase' = phase \/ (phase = "starting" /\ phase' = "working"),
           renewal' \in {renewal, NoRenewal}
    PROVE  Inv'
  <1>1. /\ aborted' = TRUE /\ UNCHANGED <<now, expiry, taken, confirmed>>
        /\ aborted => UNCHANGED <<renewAt, deadlineAt>>
        /\ ~aborted => renewAt' = Unset /\ deadlineAt' = Unset
    BY DEF LoseLease, row, timers
  <1>2. phase' # "starting" /\ (phase' # phase => phase' = "working")
    OBVIOUS
  <1>3. Typed'
    BY <1>1, Thirds DEF Inv, Typed, Unset, NoRenewal
  <1>4. OneRenewal' /\ Quiet'
    BY <1>1, <1>2 DEF Inv, OneRenewal, Quiet, Starting, Working
  <1>5. Starting' /\ Watched'
    BY <1>1, <1>2 DEF Starting, Watched, Working
  <1>6. QED
    BY <1>3, <1>4, <1>5 DEF Inv

LEMMA RenewalTimerKeepsInv ==
    ASSUME HeartbeatAssumption, Inv, RenewalTimer
    PROVE  Inv'
  BY Thirds DEF RenewalTimer, Inv, Typed, OneRenewal, Starting, Quiet, Watched, Working, Unset,
                NoRenewal, row

LEMMA DeadlineTimerKeepsInv ==
    ASSUME HeartbeatAssumption, Inv, DeadlineTimer
    PROVE  Inv'
  <1>1. CASE aborted
    BY <1>1, Thirds DEF DeadlineTimer, Inv, Typed, OneRenewal, Starting, Quiet, Watched, Working,
                        Unset, NoRenewal, row
  <1>2. CASE ~aborted
    <2>1. LoseLease /\ UNCHANGED <<now, row, phase, renewal, confirmed>>
      BY <1>2 DEF DeadlineTimer
    <2>2. phase # "starting"
      BY DEF DeadlineTimer, Inv, Typed, Starting, Unset
    <2>3. QED
      BY <2>1, <2>2, LossStep
  <1>3. QED
    BY <1>1, <1>2

LEMMA ExecuteKeepsInv ==
    ASSUME HeartbeatAssumption, Inv, Execute
    PROVE  Inv'
  BY Thirds DEF Execute, Inv, Typed, OneRenewal, Starting, Quiet, Watched, Working, Unset,
                NoRenewal, timers

LEMMA AnswerKeepsInv ==
    ASSUME HeartbeatAssumption, Inv, Answer
    PROVE  Inv'
  <1>1. CASE renewal = "granted"
    <2>1. Confirm /\ UNCHANGED aborted /\ renewal' = NoRenewal /\ UNCHANGED <<now, row, phase>>
      BY <1>1 DEF Answer
    <2>2. phase # "starting" /\ phase # "stopped"
      BY <1>1 DEF Inv, Starting, Quiet, NoRenewal
    <2>3. CASE phase = "stopping"
      <3>1. UNCHANGED <<confirmed, timers>>
        BY <2>1, <2>3, Confirmed
      <3>2. QED
        BY <2>1, <2>3, <3>1, Thirds DEF Inv, Typed, OneRenewal, Starting, Quiet, Watched, Working,
                                        Unset, NoRenewal, row, timers
    <2>4. CASE phase # "stopping"
      <3>1. /\ confirmed' = now + Lease /\ deadlineAt' = now + Lease
            /\ renewAt' = IF aborted THEN renewAt ELSE now + Third
        BY <2>1, <2>4, Confirmed
      <3>2. QED
        BY <1>1, <2>1, <2>2, <2>4, <3>1, Thirds DEF Inv, Typed, OneRenewal, Starting, Quiet,
                                        Watched, Working, Unset, NoRenewal, row
    <2>5. QED
      BY <2>3, <2>4
  <1>2. CASE renewal # "granted"
    <2>1. LoseLease /\ renewal' = NoRenewal /\ UNCHANGED <<now, row, phase, confirmed>>
      BY <1>2 DEF Answer
    <2>2. phase # "starting"
      BY DEF Answer, Inv, Starting, NoRenewal
    <2>3. QED
      BY <2>1, <2>2, LossStep
  <1>3. QED
    BY <1>1, <1>2

LEMMA FailKeepsInv ==
    ASSUME HeartbeatAssumption, Inv, Fail
    PROVE  Inv'
  <1>1. CASE confirmed <= now
    <2>1. LoseLease /\ renewal' = NoRenewal /\ UNCHANGED <<now, row, phase, confirmed>>
      BY <1>1 DEF Fail
    <2>2. phase # "starting"
      BY DEF Fail, Inv, Starting, NoRenewal
    <2>3. QED
      BY <2>1, <2>2, LossStep
  <1>2. CASE ~(confirmed <= now)
    <2>1. /\ renewal # NoRenewal /\ renewal' = NoRenewal
          /\ renewAt' = Scheduled(Sooner(1, (confirmed - now) \div 6))
          /\ UNCHANGED <<now, row, phase, aborted, deadlineAt, confirmed>>
      BY <1>2 DEF Fail
    <2>2. (confirmed - now) \div 6 \in Int
      BY DEF Inv, Typed
    <2>3. renewAt' = IF phase = "stopping" \/ aborted THEN renewAt ELSE now + 1
      BY <2>1, <2>2 DEF Scheduled, Sooner, Later
    <2>4. QED
      BY <1>2, <2>1, <2>3, Thirds DEF Inv, Typed, OneRenewal, Starting, Quiet, Watched, Working,
                                      Unset, NoRenewal, row
  <1>3. QED
    BY <1>1, <1>2

LEMMA StopKeepsInv ==
    ASSUME HeartbeatAssumption, Inv, Stop \/ Stopped
    PROVE  Inv'
  BY Thirds DEF Stop, Stopped, Inv, Typed, OneRenewal, Starting, Quiet, Watched, Working, Unset,
                NoRenewal, row, timers

LEMMA TakeOverKeepsInv ==
    ASSUME HeartbeatAssumption, Inv, TakeOver
    PROVE  Inv'
  BY Thirds DEF TakeOver, Inv, Typed, OneRenewal, Starting, Quiet, Watched, Working, Unset,
                NoRenewal, timers

LEMMA TickKeepsInv ==
    ASSUME HeartbeatAssumption, Inv, Tick
    PROVE  Inv'
  BY Thirds DEF Tick, Inv, Typed, OneRenewal, Starting, Quiet, Watched, Working, Unset,
                NoRenewal, row, timers

LEMMA StepInv ==
    ASSUME HeartbeatAssumption, Inv, [Next]_vars
    PROVE  Inv'
  <1>1. CASE Start
    BY <1>1, StartKeepsInv
  <1>2. CASE StartFails \/ OwnerLoses
    BY <1>2, LossStep DEF StartFails, OwnerLoses
  <1>3. CASE RenewalTimer \/ DeadlineTimer
    BY <1>3, RenewalTimerKeepsInv, DeadlineTimerKeepsInv
  <1>4. CASE Execute \/ Answer \/ Fail
    BY <1>4, ExecuteKeepsInv, AnswerKeepsInv, FailKeepsInv
  <1>5. CASE Stop \/ Stopped
    BY <1>5, StopKeepsInv
  <1>6. CASE TakeOver \/ Tick
    BY <1>6, TakeOverKeepsInv, TickKeepsInv
  <1>7. CASE UNCHANGED vars
    BY <1>7 DEF vars, row, timers, Inv, Typed, OneRenewal, Starting, Quiet, Watched, Working
  <1>8. QED
    BY <1>1, <1>2, <1>3, <1>4, <1>5, <1>6, <1>7 DEF Next
-----------------------------------------------------------------------------
LEMMA InvImplies ==
    ASSUME HeartbeatAssumption, Inv
    PROVE  TypeOK /\ AlwaysWatched /\ OverrunIsBounded /\ NothingLeftBehind
  <1>1. TypeOK
    BY Thirds DEF Inv, Typed, TypeOK, HeartbeatAssumption
  <1>2. AlwaysWatched
    BY Thirds DEF Inv, Typed, Watched, AlwaysWatched
  <1>3. OverrunIsBounded
    <2>1. Working => now <= expiry + Overrun
      BY Thirds DEF Inv, Typed, Watched
    <2>2. QED
      BY <2>1 DEF OverrunIsBounded, Overrun, Third
  <1>4. NothingLeftBehind
    BY DEF Inv, Quiet, NothingLeftBehind
  <1>5. QED
    BY <1>1, <1>2, <1>3, <1>4

\* Instants, timers and the row are typed; no timer is late.
THEOREM TypeCorrect ==
    ASSUME HeartbeatAssumption
    PROVE  Spec => []TypeOK
  <1>1. Init => Inv
    BY InitInv
  <1>2. Inv /\ [Next]_vars => Inv'
    BY StepInv
  <1>3. Inv => TypeOK
    BY InvImplies
  <1>4. QED
    BY <1>1, <1>2, <1>3, PTL DEF Spec

\* A working holder has its deadline timer set and a renewal planned or under way.
THEOREM HolderIsWatched ==
    ASSUME HeartbeatAssumption
    PROVE  Spec => []AlwaysWatched
  <1>1. Init => Inv
    BY InitInv
  <1>2. Inv /\ [Next]_vars => Inv'
    BY StepInv
  <1>3. Inv => AlwaysWatched
    BY InvImplies
  <1>4. QED
    BY <1>1, <1>2, <1>3, PTL DEF Spec

\* The holder works on for a bounded time after its row has expired, whatever the
\* length of the lease and the delays of the messages.
THEOREM OverrunStaysBounded ==
    ASSUME HeartbeatAssumption
    PROVE  Spec => []OverrunIsBounded
  <1>1. Init => Inv
    BY InitInv
  <1>2. Inv /\ [Next]_vars => Inv'
    BY StepInv
  <1>3. Inv => OverrunIsBounded
    BY InvImplies
  <1>4. QED
    BY <1>1, <1>2, <1>3, PTL DEF Spec

\* Nothing of a heartbeat outlives its stop().
THEOREM StopIsComplete ==
    ASSUME HeartbeatAssumption
    PROVE  Spec => []NothingLeftBehind
  <1>1. Init => Inv
    BY InitInv
  <1>2. Inv /\ [Next]_vars => Inv'
    BY StepInv
  <1>3. Inv => NothingLeftBehind
    BY InvImplies
  <1>4. QED
    BY <1>1, <1>2, <1>3, PTL DEF Spec

\* No answer brings a lost lease back, and no renewal is sent once the lease is
\* lost or the heartbeat stops.
THEOREM LostStaysLost ==
    ASSUME HeartbeatAssumption
    PROVE  Spec => [][LostForGood]_vars
  <1>1. Init => Inv
    BY InitInv
  <1>2. Inv /\ [Next]_vars => Inv'
    BY StepInv
  <1>3. Inv /\ [Next]_vars => LostForGood
    <2> SUFFICES ASSUME Inv, [Next]_vars PROVE LostForGood
      OBVIOUS
    <2>1. aborted => aborted'
      BY DEF Next, vars, Start, StartFails, RenewalTimer, DeadlineTimer, Execute, Answer, Fail,
             Stop, Stopped, OwnerLoses, TakeOver, Tick, LoseLease
    <2>2. ASSUME renewal = NoRenewal, renewal' = "sent"
          PROVE  Working
      <3>1. RenewalTimer
        BY <2>2 DEF Next, vars, Start, StartFails, DeadlineTimer, Execute, Answer, Fail,
                    Stop, Stopped, OwnerLoses, TakeOver, Tick, NoRenewal
      <3>2. QED
        BY <3>1 DEF RenewalTimer, Inv, Typed, OneRenewal, Unset
    <2>3. QED
      BY <2>1, <2>2 DEF LostForGood
  <1>4. QED
    BY <1>1, <1>2, <1>3, PTL DEF Spec
-----------------------------------------------------------------------------
(***************************************************************************)
(* The limiter that shares places between the tasks of a process           *)
(* (TaskLimiter), for any number of tasks and places.                      *)
(***************************************************************************)

CONSTANTS Tasks, Capacity
VARIABLES active, waiters, pc, taskAborted, started

Limiter == INSTANCE TaskLimiter WITH aborted <- taskAborted

\* What is in queue q, and a queue that has everything once.
Queued(q) == {q[i] : i \in 1 .. Len(q)}
Distinct(q) == \A i, j \in 1 .. Len(q) : q[i] = q[j] => i = j

LimiterInv ==
    /\ Limiter!TypeOK /\ Limiter!NoIdlePlace
    /\ active = Cardinality(Limiter!Holders)
    /\ Distinct(waiters) /\ Queued(waiters) = {t \in Tasks : pc[t] = "waiting"}

LEMMA LimiterCardinality ==
    ASSUME NEW S
    PROVE  Limiter!Cardinality(S) = Cardinality(S)
  BY DEF Limiter!Cardinality, Cardinality

LEMMA LimiterFinite ==
    ASSUME Limiter!LimiterAssumption
    PROVE  Capacity \in Nat \ {0} /\ IsFiniteSet(Tasks)
  BY DEF Limiter!LimiterAssumption, Limiter!IsFiniteSet, IsFiniteSet

\* push and shift.
LEMMA QueuePush ==
    ASSUME NEW S, NEW q \in Seq(S), Distinct(q), NEW t \in S, t \notin Queued(q)
    PROVE  /\ Append(q, t) \in Seq(S) /\ Append(q, t) # <<>>
           /\ Distinct(Append(q, t)) /\ Queued(Append(q, t)) = Queued(q) \cup {t}
  <1> DEFINE p == Append(q, t)
  <1>1. /\ p \in Seq(S) /\ p # <<>> /\ Len(p) = Len(q) + 1
        /\ \A i \in 1 .. Len(q) : p[i] = q[i]
        /\ p[Len(q) + 1] = t
    BY AppendProperties
  <1>2. Len(q) \in Nat
    BY LenProperties
  <1> HIDE DEF p
  <1>3. Distinct(p)
    BY <1>1, <1>2 DEF Distinct, Queued
  <1>4. Queued(p) = Queued(q) \cup {t}
    <2>1. Queued(p) \subseteq Queued(q) \cup {t}
      BY <1>1, <1>2 DEF Queued
    <2>2. ASSUME NEW i \in 1 .. Len(q)
          PROVE  q[i] \in Queued(p)
      <3>1. i \in 1 .. Len(p) /\ p[i] = q[i]
        BY <1>1, <1>2
      <3>2. QED
        BY <3>1 DEF Queued
    <2>3. t \in Queued(p)
      <3>1. Len(q) + 1 \in 1 .. Len(p)
        BY <1>1, <1>2
      <3>2. QED
        BY <1>1, <3>1 DEF Queued
    <2>4. QED
      BY <2>1, <2>2, <2>3 DEF Queued
  <1>5. QED
    BY <1>1, <1>3, <1>4 DEF p

LEMMA QueueShift ==
    ASSUME NEW S, NEW q \in Seq(S), Distinct(q), q # <<>>
    PROVE  /\ Tail(q) \in Seq(S) /\ Head(q) \in Queued(q) /\ Head(q) \in S
           /\ Distinct(Tail(q)) /\ Queued(Tail(q)) = Queued(q) \ {Head(q)}
  <1> DEFINE p == Tail(q)
             h == Head(q)
  <1>1. /\ p \in Seq(S) /\ h \in S /\ Len(p) = Len(q) - 1
        /\ \A i \in 1 .. Len(p) : p[i] = q[i + 1]
    BY HeadTailProperties
  <1>2. Len(q) \in Nat \ {0} /\ h = q[1]
    BY EmptySeq
  <1> HIDE DEF p, h
  <1>3. Distinct(p)
    BY <1>1, <1>2 DEF Distinct
  <1>4. Queued(p) = Queued(q) \ {h}
    <2>1. ASSUME NEW i \in 1 .. Len(p)
          PROVE  p[i] \in Queued(q) \ {h}
      <3>1. i + 1 \in 1 .. Len(q) /\ p[i] = q[i + 1] /\ i + 1 # 1 /\ 1 \in 1 .. Len(q)
        BY <1>1, <1>2
      <3>2. q[i + 1] # q[1]
        BY <3>1 DEF Distinct
      <3>3. QED
        BY <1>2, <3>1, <3>2 DEF Queued
    <2>2. ASSUME NEW i \in 1 .. Len(q), q[i] # h
          PROVE  q[i] \in Queued(p)
      <3>1. i - 1 \in 1 .. Len(p) /\ p[i - 1] = q[i]
        BY <1>1, <1>2, <2>2
      <3>2. QED
        BY <3>1 DEF Queued
    <2>3. QED
      BY <2>1, <2>2 DEF Queued
  <1>5. h \in Queued(q)
    <2>1. 1 \in 1 .. Len(q)
      BY <1>2
    <2>2. QED
      BY <1>2, <2>1 DEF Queued
  <1>6. QED
    BY <1>1, <1>3, <1>4, <1>5 DEF p, h

\* indexOf and splice.
LEMMA QueueRemove ==
    ASSUME NEW S, NEW q \in Seq(S), Distinct(q), NEW t \in Queued(q)
    PROVE  /\ Limiter!RemoveFirst(q, t) \in Seq(S) /\ q # <<>>
           /\ Distinct(Limiter!RemoveFirst(q, t))
           /\ Queued(Limiter!RemoveFirst(q, t)) = Queued(q) \ {t}
  <1>1. PICK k \in 1 .. Len(q) : q[k] = t
    BY DEF Queued
  <1>2. Len(q) \in Nat /\ \A i \in 1 .. Len(q) : q[i] \in S
    BY LenProperties, ElementOfSeq
  <1>3. \A i \in 1 .. Len(q) : q[i] = t <=> i = k
    BY <1>1 DEF Distinct
  <1>4. Limiter!SelectInSeq(q, LAMBDA v : v = t) = k
    <2>1. {i \in 1 .. Len(q) : q[i] = t} = {k}
      BY <1>1, <1>3
    <2>2. (CHOOSE x \in {k} : \A y \in {k} : x <= y) = k
      BY <1>1
    <2>3. QED
      BY <2>1, <2>2 DEF Limiter!SelectInSeq, Limiter!Min
  <1> DEFINE a == SubSeq(q, 1, k - 1)
             b == SubSeq(q, k + 1, Len(q))
             p == a \o b
  <1>5. Limiter!RemoveFirst(q, t) = p
    BY <1>1, <1>4 DEF Limiter!RemoveFirst, Limiter!RemoveAt
  <1>6. /\ a \in Seq(S) /\ Len(a) = k - 1
        /\ \A i \in 1 .. k - 1 : a[i] = q[i]
    <2>1. 1 \in Int /\ k - 1 \in Int /\ \A i \in 1 .. k - 1 : q[i] \in S
      BY <1>1, <1>2
    <2>2. /\ a \in Seq(S) /\ Len(a) = IF 1 <= k - 1 THEN (k - 1) - 1 + 1 ELSE 0
          /\ \A i \in 1 .. (k - 1) - 1 + 1 : a[i] = q[1 + i - 1]
      BY <2>1, SubSeqProperties
    <2> HIDE DEF a
    <2>3. QED
      BY <1>1, <2>2
  <1>7. /\ b \in Seq(S) /\ Len(b) = Len(q) - k
        /\ \A i \in 1 .. Len(q) - k : b[i] = q[k + i]
    <2>1. k + 1 \in Int /\ Len(q) \in Int /\ \A i \in k + 1 .. Len(q) : q[i] \in S
      BY <1>1, <1>2
    <2>2. /\ b \in Seq(S) /\ Len(b) = IF k + 1 <= Len(q) THEN Len(q) - (k + 1) + 1 ELSE 0
          /\ \A i \in 1 .. Len(q) - (k + 1) + 1 : b[i] = q[(k + 1) + i - 1]
      BY <2>1, SubSeqProperties
    <2> HIDE DEF b
    <2>3. QED
      BY <1>1, <1>2, <2>2
  <1>8. /\ p \in Seq(S) /\ Len(p) = Len(a) + Len(b)
        /\ \A i \in 1 .. Len(a) + Len(b) : p[i] = IF i <= Len(a) THEN a[i] ELSE b[i - Len(a)]
    BY <1>6, <1>7, ConcatProperties
  <1> HIDE DEF a, b, p
  <1>9. /\ p \in Seq(S) /\ Len(p) = Len(q) - 1
        /\ \A i \in 1 .. Len(q) - 1 : p[i] = IF i < k THEN q[i] ELSE q[i + 1]
    <2>1. p \in Seq(S) /\ Len(a) = k - 1 /\ Len(a) + Len(b) = Len(q) - 1
          /\ Len(p) = Len(q) - 1
      BY <1>1, <1>2, <1>6, <1>7, <1>8
    <2>2. ASSUME NEW i \in 1 .. Len(q) - 1, i < k
          PROVE  p[i] = q[i]
      <3>1. i \in 1 .. Len(a) + Len(b) /\ i <= Len(a) /\ i \in 1 .. k - 1
        BY <1>1, <1>2, <2>1, <2>2
      <3>2. QED
        BY <1>6, <1>8, <3>1
    <2>3. ASSUME NEW i \in 1 .. Len(q) - 1, ~(i < k)
          PROVE  p[i] = q[i + 1]
      <3>1. i \in 1 .. Len(a) + Len(b) /\ ~(i <= Len(a)) /\ i - (k - 1) \in 1 .. Len(q) - k
            /\ k + (i - (k - 1)) = i + 1 /\ i - Len(a) = i - (k - 1)
        BY <1>1, <1>2, <2>1, <2>3
      <3>2. QED
        BY <1>7, <1>8, <3>1
    <2>4. QED
      BY <2>1, <2>2, <2>3
  <1>10. Distinct(p)
    <2> SUFFICES ASSUME NEW i \in 1 .. Len(p), NEW j \in 1 .. Len(p), p[i] = p[j]
                 PROVE  i = j
      BY DEF Distinct
    <2> DEFINE n(x) == IF x < k THEN x ELSE x + 1
    <2>1. n(i) \in 1 .. Len(q) /\ n(j) \in 1 .. Len(q) /\ p[i] = q[n(i)] /\ p[j] = q[n(j)]
      BY <1>1, <1>2, <1>9
    <2>2. n(i) = n(j)
      BY <2>1 DEF Distinct
    <2>3. QED
      BY <1>1, <1>2, <1>9, <2>2
  <1>11. Queued(p) = Queued(q) \ {t}
    <2>1. ASSUME NEW i \in 1 .. Len(p)
          PROVE  p[i] \in Queued(q) \ {t}
      <3> DEFINE n == IF i < k THEN i ELSE i + 1
      <3>1. n \in 1 .. Len(q) /\ p[i] = q[n] /\ n # k
        BY <1>1, <1>2, <1>9
      <3>2. QED
        BY <1>3, <3>1 DEF Queued
    <2>2. ASSUME NEW i \in 1 .. Len(q), q[i] # t
          PROVE  q[i] \in Queued(p)
      <3> DEFINE n == IF i < k THEN i ELSE i - 1
      <3>1. n \in 1 .. Len(p) /\ p[n] = q[i]
        BY <1>1, <1>2, <1>3, <1>9, <2>2
      <3>2. QED
        BY <3>1 DEF Queued
    <2>3. QED
      BY <2>1, <2>2 DEF Queued
  <1>12. q # <<>>
    BY <1>1, EmptySeq
  <1>13. QED
    BY <1>5, <1>9, <1>10, <1>11, <1>12

\* A queue without duplicates is as long as the set of its tasks.
LEMMA QueueLength ==
    ASSUME NEW S, NEW q \in Seq(S), Distinct(q)
    PROVE  Len(q) = Cardinality(Queued(q))
  <1>1. Len(q) \in Nat /\ q \in [1 .. Len(q) -> S]
    BY LenProperties
  <1>2. q \in [1 .. Len(q) -> Queued(q)]
    BY <1>1 DEF Queued
  <1>3. q \in Bijection(1 .. Len(q), Queued(q))
    BY <1>2 DEF Bijection, Injection, Surjection, IsInjective, Distinct, Queued
  <1>4. ExistsBijection(1 .. Len(q), Queued(q))
    BY <1>3 DEF ExistsBijection
  <1>5. QED
    BY <1>1, <1>4, FS_CountingElements

LEMMA HoldersFinite ==
    ASSUME Limiter!LimiterAssumption
    PROVE  IsFiniteSet(Limiter!Holders)
  BY LimiterFinite, FS_Subset DEF Limiter!Holders

\* release: the place goes to the first waiter, or back.
LEMMA LimiterHanded ==
    ASSUME Limiter!LimiterAssumption, LimiterInv, NEW t \in Tasks,
           pc[t] \in {"granted", "starting", "running"}, Limiter!Handed(t, "ended"),
           taskAborted' \subseteq Tasks, started' \in [Tasks -> {"none", "pending", "value", "error"}]
    PROVE  LimiterInv'
  <1>1. t \in Limiter!Holders /\ IsFiniteSet(Limiter!Holders)
    BY HoldersFinite DEF Limiter!Holders
  <1>2. /\ active \in 0 .. Capacity /\ Capacity \in Nat \ {0} /\ waiters \in Seq(Tasks)
        /\ pc \in [Tasks -> {"idle", "waiting", "granted", "starting", "running", "ended"}]
        /\ Distinct(waiters) /\ Queued(waiters) = {x \in Tasks : pc[x] = "waiting"}
        /\ active = Cardinality(Limiter!Holders)
    BY LimiterFinite DEF LimiterInv, Limiter!TypeOK
  <1>3. CASE waiters = <<>>
    <2>1. active' = active - 1 /\ pc' = [pc EXCEPT ![t] = "ended"] /\ waiters' = waiters
      BY <1>3 DEF Limiter!Handed, Limiter!Goes
    <2>2. Limiter!Holders' = Limiter!Holders \ {t}
      BY <1>2, <2>1 DEF Limiter!Holders
    <2>3. active' = Cardinality(Limiter!Holders')
      BY <1>1, <1>2, <2>1, <2>2, FS_RemoveElement
    <2>4. Cardinality(Limiter!Holders') \in Nat
      BY <1>1, <2>2, FS_RemoveElement, FS_CardinalityType
    <2>5. Limiter!TypeOK' /\ Limiter!NoIdlePlace'
      BY <1>2, <1>3, <2>1, <2>3, <2>4 DEF Limiter!TypeOK, Limiter!NoIdlePlace
    <2>6. Queued(waiters') = {x \in Tasks : pc'[x] = "waiting"}
      BY <1>2, <2>1
    <2>7. Distinct(waiters')
      BY <1>2, <2>1
    <2>8. QED
      BY <2>3, <2>5, <2>6, <2>7 DEF LimiterInv, Distinct, Queued
  <1>4. CASE waiters # <<>>
    <2> DEFINE h == Head(waiters)
    <2>1. /\ waiters' = Tail(waiters) /\ active' = active
          /\ pc' = [pc EXCEPT ![t] = "ended", ![h] = "granted"]
      BY <1>4 DEF Limiter!Handed
    <2>2. /\ Tail(waiters) \in Seq(Tasks) /\ h \in Queued(waiters) /\ h \in Tasks
          /\ Distinct(Tail(waiters)) /\ Queued(Tail(waiters)) = Queued(waiters) \ {h}
      BY <1>2, <1>4, QueueShift
    <2> HIDE DEF h
    <2>3. h \in Tasks /\ pc[h] = "waiting" /\ h # t
      BY <1>2, <2>2
    <2>4. Limiter!Holders' = (Limiter!Holders \ {t}) \cup {h} /\ h \notin Limiter!Holders
      BY <1>2, <2>1, <2>3 DEF Limiter!Holders
    <2>5. active' = Cardinality(Limiter!Holders')
      <3>1. IsFiniteSet(Limiter!Holders \ {t}) /\ Cardinality(Limiter!Holders \ {t}) = active - 1
        BY <1>1, <1>2, FS_RemoveElement
      <3>2. Cardinality((Limiter!Holders \ {t}) \cup {h}) = active - 1 + 1
        BY <2>4, <3>1, FS_AddElement
      <3>3. QED
        BY <1>2, <2>1, <2>4, <3>2
    <2>6. Queued(waiters') = {x \in Tasks : pc'[x] = "waiting"}
      BY <1>2, <2>1, <2>2, <2>3
    <2>7. Limiter!TypeOK' /\ Limiter!NoIdlePlace'
      BY <1>2, <1>4, <2>1, <2>2 DEF LimiterInv, Limiter!TypeOK, Limiter!NoIdlePlace
    <2>8. Distinct(waiters')
      BY <2>1, <2>2
    <2>9. QED
      BY <2>5, <2>6, <2>7, <2>8 DEF LimiterInv, Distinct, Queued
  <1>5. QED
    BY <1>3, <1>4

LEMMA LimiterRun ==
    ASSUME Limiter!LimiterAssumption, LimiterInv, NEW t \in Tasks, Limiter!Run(t)
    PROVE  LimiterInv'
  <1>1. t \notin Limiter!Holders /\ IsFiniteSet(Limiter!Holders) /\ pc[t] = "idle"
        /\ taskAborted' = taskAborted
    BY HoldersFinite DEF Limiter!Holders, Limiter!Run
  <1>2. /\ active \in 0 .. Capacity /\ Capacity \in Nat \ {0} /\ waiters \in Seq(Tasks)
        /\ pc \in [Tasks -> {"idle", "waiting", "granted", "starting", "running", "ended"}]
        /\ Distinct(waiters) /\ Queued(waiters) = {x \in Tasks : pc[x] = "waiting"}
        /\ active = Cardinality(Limiter!Holders) /\ taskAborted \subseteq Tasks
        /\ started \in [Tasks -> {"none", "pending", "value", "error"}]
        /\ waiters # <<>> => active = Capacity
    BY LimiterFinite DEF LimiterInv, Limiter!TypeOK, Limiter!NoIdlePlace
  <1>3. started' \in [Tasks -> {"none", "pending", "value", "error"}]
    BY <1>2 DEF Limiter!Run, Limiter!Rejected
  <1>4. CASE t \in taskAborted
    <2>1. pc' = [pc EXCEPT ![t] = "ended"] /\ UNCHANGED <<active, waiters>>
      BY <1>4 DEF Limiter!Run, Limiter!Goes
    <2>2. Limiter!Holders' = Limiter!Holders
          /\ {x \in Tasks : pc'[x] = "waiting"} = {x \in Tasks : pc[x] = "waiting"}
      BY <1>1, <1>2, <2>1 DEF Limiter!Holders
    <2>3. QED
      BY <1>1, <1>2, <1>3, <2>1, <2>2
      DEF LimiterInv, Limiter!TypeOK, Limiter!NoIdlePlace, Distinct, Queued
  <1>5. CASE t \notin taskAborted /\ active < Capacity
    <2>1. /\ pc' = [pc EXCEPT ![t] = "granted"] /\ active' = active + 1 /\ waiters' = waiters
          /\ waiters = <<>>
      BY <1>2, <1>5 DEF Limiter!Run, Limiter!Goes
    <2>2. Limiter!Holders' = Limiter!Holders \cup {t}
          /\ {x \in Tasks : pc'[x] = "waiting"} = {x \in Tasks : pc[x] = "waiting"}
      BY <1>1, <1>2, <2>1 DEF Limiter!Holders
    <2>3. active' = Cardinality(Limiter!Holders')
      BY <1>1, <1>2, <2>1, <2>2, FS_AddElement
    <2>4. Limiter!TypeOK' /\ Limiter!NoIdlePlace'
      BY <1>1, <1>2, <1>3, <1>5, <2>1 DEF Limiter!TypeOK, Limiter!NoIdlePlace
    <2>5. QED
      BY <1>2, <2>1, <2>2, <2>3, <2>4 DEF LimiterInv, Distinct, Queued
  <1>6. CASE t \notin taskAborted /\ ~(active < Capacity)
    <2>1. pc' = [pc EXCEPT ![t] = "waiting"] /\ active' = active /\ waiters' = Append(waiters, t)
          /\ active = Capacity
      BY <1>2, <1>6 DEF Limiter!Run, Limiter!Goes
    <2>2. t \notin Queued(waiters)
      BY <1>1, <1>2
    <2>3. /\ waiters' \in Seq(Tasks)
          /\ Distinct(waiters') /\ Queued(waiters') = Queued(waiters) \cup {t}
      BY <1>2, <2>1, <2>2, QueuePush
    <2>4. Limiter!Holders' = Limiter!Holders
          /\ {x \in Tasks : pc'[x] = "waiting"} = {x \in Tasks : pc[x] = "waiting"} \cup {t}
      BY <1>1, <1>2, <2>1 DEF Limiter!Holders
    <2>5. Limiter!TypeOK' /\ Limiter!NoIdlePlace'
      BY <1>1, <1>2, <1>3, <2>1, <2>3 DEF Limiter!TypeOK, Limiter!NoIdlePlace
    <2>6. QED
      BY <1>2, <2>1, <2>3, <2>4, <2>5 DEF LimiterInv, Distinct, Queued
  <1>7. QED
    BY <1>4, <1>5, <1>6

LEMMA LimiterAbort ==
    ASSUME Limiter!LimiterAssumption, LimiterInv, NEW t \in Tasks, Limiter!Abort(t)
    PROVE  LimiterInv'
  <1>1. active' = active /\ taskAborted' \subseteq Tasks
    BY DEF Limiter!Abort, LimiterInv, Limiter!TypeOK
  <1>2. /\ waiters \in Seq(Tasks)
        /\ pc \in [Tasks -> {"idle", "waiting", "granted", "starting", "running", "ended"}]
        /\ Distinct(waiters) /\ Queued(waiters) = {x \in Tasks : pc[x] = "waiting"}
        /\ active = Cardinality(Limiter!Holders)
        /\ started \in [Tasks -> {"none", "pending", "value", "error"}]
        /\ waiters # <<>> => active = Capacity
    BY DEF LimiterInv, Limiter!TypeOK, Limiter!NoIdlePlace
  <1>3. CASE pc[t] # "waiting"
    BY <1>1, <1>3 DEF Limiter!Abort, LimiterInv, Limiter!TypeOK, Limiter!NoIdlePlace,
                      Limiter!Holders, Distinct, Queued
  <1>4. CASE pc[t] = "waiting"
    <2>1. /\ pc' = [pc EXCEPT ![t] = "ended"] /\ waiters' = Limiter!RemoveFirst(waiters, t)
          /\ started' = [started EXCEPT ![t] = "error"]
      BY <1>4 DEF Limiter!Abort, Limiter!Goes, Limiter!Removed, Limiter!Rejected
    <2>2. /\ waiters' \in Seq(Tasks) /\ waiters # <<>>
          /\ Distinct(waiters') /\ Queued(waiters') = Queued(waiters) \ {t}
      <3>1. t \in Queued(waiters)
        BY <1>2, <1>4
      <3>2. QED
        BY <1>2, <2>1, <3>1, QueueRemove
    <2>3. Limiter!Holders' = Limiter!Holders
          /\ {x \in Tasks : pc'[x] = "waiting"} = {x \in Tasks : pc[x] = "waiting"} \ {t}
      BY <1>2, <1>4, <2>1 DEF Limiter!Holders
    <2>4. Limiter!TypeOK' /\ Limiter!NoIdlePlace'
      BY <1>1, <1>2, <2>1, <2>2 DEF LimiterInv, Limiter!TypeOK, Limiter!NoIdlePlace
    <2>5. QED
      BY <1>1, <1>2, <2>2, <2>3, <2>4 DEF LimiterInv, Distinct, Queued
  <1>5. QED
    BY <1>3, <1>4

\* A run that goes on keeps its place or its want of one.
LEMMA LimiterMoves ==
    ASSUME Limiter!LimiterAssumption, LimiterInv, NEW t \in Tasks, NEW s,
           \/ pc[t] \in {"granted", "starting"} /\ s \in {"starting", "running"}
           \/ pc[t] = "ended" /\ s = "idle",
           Limiter!Goes(t, s), UNCHANGED <<active, waiters>>,
           taskAborted' \subseteq Tasks, started' \in [Tasks -> {"none", "pending", "value", "error"}]
    PROVE  LimiterInv'
  <1>1. pc \in [Tasks -> {"idle", "waiting", "granted", "starting", "running", "ended"}]
        /\ pc' = [pc EXCEPT ![t] = s]
        /\ s \in {"idle", "starting", "running"}
    BY DEF LimiterInv, Limiter!TypeOK, Limiter!Goes
  <1>2. Limiter!Holders' = Limiter!Holders
        /\ {x \in Tasks : pc'[x] = "waiting"} = {x \in Tasks : pc[x] = "waiting"}
    BY <1>1 DEF Limiter!Holders
  <1>3. Limiter!TypeOK' /\ Limiter!NoIdlePlace'
    BY <1>1 DEF LimiterInv, Limiter!TypeOK, Limiter!NoIdlePlace
  <1>4. QED
    BY <1>2, <1>3 DEF LimiterInv, Distinct, Queued

LEMMA LimiterStep ==
    ASSUME Limiter!LimiterAssumption, LimiterInv, [Limiter!Next]_(Limiter!vars)
    PROVE  LimiterInv'
  <1>1. taskAborted \subseteq Tasks /\ started \in [Tasks -> {"none", "pending", "value", "error"}]
    BY DEF LimiterInv, Limiter!TypeOK
  <1>2. ASSUME NEW t \in Tasks, Limiter!Continue(t)
        PROVE  LimiterInv'
    <2>1. taskAborted' \subseteq Tasks
          /\ started' \in [Tasks -> {"none", "pending", "value", "error"}]
      BY <1>1, <1>2 DEF Limiter!Continue, Limiter!Rejected
    <2>2. CASE t \in taskAborted
      BY <1>2, <2>1, <2>2, LimiterHanded DEF Limiter!Continue
    <2>3. CASE t \notin taskAborted
      <3>1. pc[t] = "granted" /\ Limiter!Goes(t, "starting") /\ UNCHANGED <<active, waiters>>
        BY <1>2, <2>3 DEF Limiter!Continue
      <3>2. QED
        BY <2>1, <3>1, LimiterMoves
    <2>4. QED
      BY <2>2, <2>3
  <1>3. ASSUME NEW t \in Tasks, Limiter!Started(t) \/ Limiter!Again(t)
        PROVE  LimiterInv'
    <2>1. /\ taskAborted' \subseteq Tasks
          /\ started' \in [Tasks -> {"none", "pending", "value", "error"}]
          /\ UNCHANGED <<active, waiters>>
          /\ \/ pc[t] = "starting" /\ Limiter!Goes(t, "running")
             \/ pc[t] = "ended" /\ Limiter!Goes(t, "idle")
      BY <1>1, <1>3 DEF Limiter!Started, Limiter!Again
    <2>2. QED
      BY <2>1, LimiterMoves
  <1>4. ASSUME NEW t \in Tasks, Limiter!StartFails(t) \/ Limiter!Complete(t)
        PROVE  LimiterInv'
    <2>1. /\ taskAborted' \subseteq Tasks
          /\ started' \in [Tasks -> {"none", "pending", "value", "error"}]
          /\ pc[t] \in {"starting", "running"} /\ Limiter!Handed(t, "ended")
      BY <1>1, <1>4 DEF Limiter!StartFails, Limiter!Complete, Limiter!Rejected
    <2>2. QED
      BY <2>1, LimiterHanded
  <1>5. CASE UNCHANGED Limiter!vars
    BY <1>5 DEF Limiter!vars, LimiterInv, Limiter!TypeOK, Limiter!NoIdlePlace, Limiter!Holders,
                Distinct, Queued
  <1>6. QED
    BY <1>2, <1>3, <1>4, <1>5, LimiterRun, LimiterAbort DEF Limiter!Next

LEMMA LimiterInit ==
    ASSUME Limiter!LimiterAssumption, Limiter!Init
    PROVE  LimiterInv
  <1>1. Limiter!Holders = {} /\ {t \in Tasks : pc[t] = "waiting"} = {}
    BY DEF Limiter!Init, Limiter!Holders
  <1>2. active = Cardinality(Limiter!Holders)
    BY <1>1, FS_EmptySet DEF Limiter!Init
  <1>3. waiters = <<>> /\ Len(waiters) = 0 /\ waiters \in Seq(Tasks)
    BY EmptySeq DEF Limiter!Init
  <1>4. Distinct(waiters) /\ Queued(waiters) = {}
    BY <1>3 DEF Distinct, Queued
  <1>5. Limiter!TypeOK /\ Limiter!NoIdlePlace
    BY <1>3, LimiterFinite DEF Limiter!Init, Limiter!TypeOK, Limiter!NoIdlePlace
  <1>6. QED
    BY <1>1, <1>2, <1>4, <1>5 DEF LimiterInv

LEMMA LimiterAlways ==
    ASSUME Limiter!LimiterAssumption
    PROVE  Limiter!Spec => []LimiterInv
  <1>1. Limiter!Init => LimiterInv
    BY LimiterInit
  <1>2. LimiterInv /\ [Limiter!Next]_(Limiter!vars) => LimiterInv'
    BY LimiterStep
  <1>3. QED
    BY <1>1, <1>2, PTL DEF Limiter!Spec

\* activeTasks counts exactly the runs that own a place, and no more runs own one than
\* there are places, whatever signals abort between a handover and its continuation.
THEOREM LimiterCountsItsPlaces ==
    ASSUME Limiter!LimiterAssumption
    PROVE  Limiter!Spec => [](/\ Limiter!TypeOK /\ Limiter!CountsHolders
                              /\ Cardinality(Limiter!Holders) <= Capacity)
  <1>1. ASSUME LimiterInv
        PROVE  Limiter!TypeOK /\ Limiter!CountsHolders /\ Cardinality(Limiter!Holders) <= Capacity
    <2>1. Limiter!TypeOK /\ active = Cardinality(Limiter!Holders)
      BY <1>1 DEF LimiterInv
    <2>2. QED
      BY <2>1, LimiterCardinality, LimiterFinite DEF Limiter!CountsHolders, Limiter!TypeOK
  <1>2. QED
    BY <1>1, LimiterAlways, PTL

\* The queue holds exactly the waiting runs, once each, through every abort of a waiter
\* (indexOf and splice) and every handover (shift).
THEOREM LimiterQueueIsExact ==
    ASSUME Limiter!LimiterAssumption
    PROVE  Limiter!Spec => []Limiter!QueueIsExact
  <1>1. ASSUME LimiterInv
        PROVE  Limiter!QueueIsExact
    <2>1. waiters \in Seq(Tasks) /\ Distinct(waiters)
          /\ Queued(waiters) = {t \in Tasks : pc[t] = "waiting"}
      BY <1>1 DEF LimiterInv, Limiter!TypeOK
    <2>2. Limiter!ToSet(waiters) = Queued(waiters)
      BY <2>1, LenProperties DEF Limiter!ToSet, Queued
    <2>3. Len(waiters) = Cardinality(Queued(waiters))
      BY <2>1, QueueLength
    <2>4. QED
      BY <2>1, <2>2, <2>3, LimiterCardinality DEF Limiter!QueueIsExact
  <1>2. QED
    BY <1>1, LimiterAlways, PTL

\* Nobody waits while a place is free (acquire, release).
THEOREM LimiterLeavesNoPlaceIdle ==
    ASSUME Limiter!LimiterAssumption
    PROVE  Limiter!Spec => []Limiter!NoIdlePlace
  <1>1. LimiterInv => Limiter!NoIdlePlace
    BY DEF LimiterInv
  <1>2. QED
    BY <1>1, LimiterAlways, PTL
-----------------------------------------------------------------------------
(* The shared source libraries and their deletion (SourceLibraries), for any *)
(* number of libraries, workspaces, calls, files and servers; their queue is  *)
(* one like that of the limiter.                                              *)

CONSTANTS Libraries, Workspaces, Calls, Files, Broken, Servers, NoLibrary
VARIABLES library, queue, grant, file, listed, content, call, server

Shared == INSTANCE SourceLibraries

FileRows ==
    {Shared!NoRow, Shared!GoneRow}
        \cup [library : Libraries, job : {"none", "pending", "running", "failed"}, indexed : BOOLEAN]
CallRows ==
    {Shared!NoCall}
        \cup [op : {"upload", "reindex", "retry", "delete"}, library : Libraries, file : Files]
Ticks ==
    {Shared!Idle}
        \cup [pc : {"delete", "check", "postpone"}, library : Libraries, file : Files]

SharedTyped ==
    /\ library \in [Libraries -> {"none", "active", "archived", "deleting", "gone"}]
    /\ queue \in Seq(Libraries)
    /\ grant \in [Libraries -> [Workspaces -> {"none", "use", "manage"}]]
    /\ file \in [Files -> FileRows] /\ listed \in [Libraries -> SUBSET Files]
    /\ content \subseteq Files /\ call \in [Calls -> CallRows] /\ server \in [Servers -> Ticks]

QueueIsExact ==
    Distinct(queue) /\ Queued(queue) = {l \in Libraries : library[l] = "deleting"}

\* Only libraries in deletion are reconciled; what a server deleted last has not come back.
TickIsInDeletion(s) ==
    server[s].pc # "idle" =>
        /\ library[server[s].library] \in {"deleting", "gone"}
        /\ server[s].pc = "check" => file[server[s].file].library # server[s].library

SharedInv ==
    /\ SharedTyped /\ QueueIsExact
    /\ \A s \in Servers : TickIsInDeletion(s)
    /\ Shared!ClosedIsQuiet /\ Shared!NothingIsForgotten

LEMMA SharedCardinality ==
    ASSUME NEW S
    PROVE  Shared!Cardinality(S) = Cardinality(S)
  BY DEF Shared!Cardinality, Cardinality

LEMMA SharedRemoveFirst ==
    ASSUME NEW q, NEW l
    PROVE  Shared!RemoveFirst(q, l) = Limiter!RemoveFirst(q, l)
  BY DEF Shared!RemoveFirst, Shared!RemoveAt, Shared!SelectInSeq, Shared!Min,
         Limiter!RemoveFirst, Limiter!RemoveAt, Limiter!SelectInSeq, Limiter!Min

LEMMA RowsAre ==
    /\ Shared!NoRow = [library |-> NoLibrary, job |-> "none", indexed |-> FALSE]
    /\ Shared!GoneRow = [library |-> NoLibrary, job |-> "gone", indexed |-> FALSE]
    /\ Shared!NoCall.op = "none" /\ Shared!Idle.pc = "idle"
  BY DEF Shared!NoRow, Shared!GoneRow, Shared!NoCall, Shared!Idle

\* The next source is one of those listed.
LEMMA FirstIsListed ==
    ASSUME NEW S \in SUBSET Nat, S # {}
    PROVE  Shared!First(S) \in S
  <1> DEFINE Rel == OpToRel(<, Nat)
  <1>1. IsWellFoundedOn(Rel, Nat)
    BY NatLessThanWellFounded, Zenon
  <1>2. \A n, k \in Nat : <<k, n>> \in Rel <=> k < n
    BY DEF OpToRel
  <1> HIDE DEF Rel
  <1>3. PICK n \in S : \A k \in S : ~ (<<k, n>> \in Rel)
    BY <1>1, WFMin
  <1>4. \A k \in S : ~ (k < n)
    BY <1>2, <1>3, Zenon
  <1>5. \E f \in S : \A k \in S : f <= k
    BY <1>4
  <1>6. QED
    BY <1>5 DEF Shared!First

\* A file changes its row, and in no library but an active one does work come to it.
LEMMA RowChanges ==
    ASSUME Shared!LibraryAssumption, SharedInv, NEW f \in Files, NEW r \in FileRows,
           file' = [file EXCEPT ![f] = r], UNCHANGED <<library, queue, grant, listed>>,
           content' \subseteq Files, call' \in [Calls -> CallRows], server' \in [Servers -> Ticks],
           \/ r.library = NoLibrary \/ library[r.library] = "active"
           \/ r.library = file[f].library /\ (Shared!Active(f) \/ r.job \notin {"pending", "running"}),
           \A s \in Servers : TickIsInDeletion(s)'
    PROVE  SharedInv'
  <1>1. file \in [Files -> FileRows] /\ library \in [Libraries -> {"none", "active", "archived", "deleting", "gone"}]
    BY DEF SharedInv, SharedTyped
  <1>2. SharedTyped' /\ QueueIsExact'
    BY <1>1 DEF SharedInv, SharedTyped, QueueIsExact, Distinct, Queued
  <1>3. /\ \A g \in Files : g # f => file'[g] = file[g]
        /\ file'[f] = r
    BY <1>1
  <1>4. /\ NoLibrary \notin Libraries
        /\ r.library = NoLibrary => r.job \in {"none", "gone"}
    BY RowsAre DEF Shared!LibraryAssumption, FileRows
  <1>5. Shared!ClosedIsQuiet'
    <2> SUFFICES ASSUME NEW l \in Libraries, library[l] \in {"archived", "deleting"}, NEW g \in Files,
                        file'[g].library = l
                 PROVE  file'[g].job \notin {"pending", "running"}
      BY DEF Shared!ClosedIsQuiet, Shared!Quiet, Shared!In, Shared!Active
    <2>1. file[g].library = l => file[g].job \notin {"pending", "running"}
      BY DEF SharedInv, Shared!ClosedIsQuiet, Shared!Quiet, Shared!In, Shared!Active
    <2>2. CASE g # f
      BY <1>3, <2>1, <2>2
    <2>3. CASE g = f
      BY <1>3, <1>4, <2>1, <2>3 DEF Shared!Active
    <2>4. QED
      BY <2>2, <2>3
  <1>6. Shared!NothingIsForgotten'
    <2> SUFFICES ASSUME NEW l \in Libraries, NEW g \in Files, file'[g].library = l
                 PROVE  /\ library[l] = "deleting" => g \in listed[l]
                        /\ library[l] \notin {"none", "gone"}
      BY DEF Shared!NothingIsForgotten, Shared!In
    <2>1. file[g].library = l => /\ library[l] = "deleting" => g \in listed[l]
                                 /\ library[l] \notin {"none", "gone"}
      BY DEF SharedInv, Shared!NothingIsForgotten, Shared!In
    <2>2. CASE g # f
      BY <1>3, <2>1, <2>2
    <2>3. CASE g = f
      BY <1>3, <1>4, <2>1, <2>3
    <2>4. QED
      BY <2>2, <2>3
  <1>7. QED
    BY <1>2, <1>5, <1>6 DEF SharedInv

\* What a server deleted last does not come back by such a change.
LEMMA RowKeepsTicks ==
    ASSUME Shared!LibraryAssumption, SharedInv, NEW f \in Files, NEW r \in FileRows,
           file' = [file EXCEPT ![f] = r], UNCHANGED <<library, server>>,
           r.library = NoLibrary \/ library[r.library] = "active" \/ r.library = file[f].library
    PROVE  \A s \in Servers : TickIsInDeletion(s)'
  <1> SUFFICES ASSUME NEW s \in Servers, server[s].pc # "idle"
               PROVE  /\ library[server[s].library] \in {"deleting", "gone"}
                      /\ server[s].pc = "check" => file'[server[s].file].library # server[s].library
    BY DEF TickIsInDeletion
  <1>1. /\ library[server[s].library] \in {"deleting", "gone"}
        /\ server[s].pc = "check" => file[server[s].file].library # server[s].library
    BY DEF SharedInv, TickIsInDeletion
  <1>2. server[s].library \in Libraries /\ server[s].file \in Files
    BY RowsAre DEF SharedInv, SharedTyped, Ticks
  <1>3. file \in [Files -> FileRows] /\ NoLibrary \notin Libraries
    BY DEF SharedInv, SharedTyped, Shared!LibraryAssumption
  <1>4. CASE server[s].file = f
    BY <1>1, <1>2, <1>3, <1>4
  <1>5. CASE server[s].file # f
    BY <1>1, <1>2, <1>3, <1>5
  <1>6. QED
    BY <1>4, <1>5

\* Nothing changes but the call that ends.
LEMMA CallEnds ==
    ASSUME SharedInv, NEW c \in Calls, Shared!Ends(c)
    PROVE  call' \in [Calls -> CallRows]
  BY DEF SharedInv, SharedTyped, Shared!Ends, CallRows

LEMMA FilesStay ==
    ASSUME SharedInv, UNCHANGED <<library, queue, grant, file, listed, server>>,
           call' \in [Calls -> CallRows], content' \subseteq Files
    PROVE  SharedInv'
  BY DEF SharedInv, SharedTyped, QueueIsExact, Distinct, Queued, TickIsInDeletion,
         Shared!ClosedIsQuiet, Shared!Quiet, Shared!In, Shared!Active, Shared!NothingIsForgotten

LEMMA SharedPrepare ==
    ASSUME Shared!LibraryAssumption, SharedInv, NEW c \in Calls, Shared!Prepare(c)
    PROVE  SharedInv'
  <1> DEFINE f == call[c].file
             l == call[c].library
  <1>1. f \in Files /\ l \in Libraries /\ file[f] \in FileRows /\ content \subseteq Files
    BY RowsAre DEF SharedInv, SharedTyped, CallRows, Shared!Prepare
  <1>2. Shared!Ends(c) /\ UNCHANGED <<library, queue, grant, listed, server, content>>
    BY DEF Shared!Prepare, Shared!Refused, Shared!documents
  <1>3. call' \in [Calls -> CallRows]
    BY <1>2, CallEnds
  <1>4. CASE Shared!LockActive(l) /\ ~Shared!Active(f)
    <2>1. [library |-> l, job |-> "pending", indexed |-> file[f].indexed] \in FileRows
      <3>1. file[f].indexed \in BOOLEAN
        <4>1. CASE file[f] \in {Shared!NoRow, Shared!GoneRow}
          <5>1. Shared!NoRow.indexed = FALSE /\ Shared!GoneRow.indexed = FALSE
            BY DEF Shared!NoRow, Shared!GoneRow
          <5>2. QED
            BY <4>1, <5>1, Zenon
        <4>2. CASE file[f] \notin {Shared!NoRow, Shared!GoneRow}
          BY <1>1, <4>2 DEF FileRows
        <4>3. QED
          BY <4>1, <4>2
      <3>2. PICK b \in BOOLEAN : file[f].indexed = b
        BY <3>1, Zenon
      <3>3. [library |-> l, job |-> "pending", indexed |-> b]
              \in [library : Libraries, job : {"none", "pending", "running", "failed"}, indexed : BOOLEAN]
        BY <1>1
      <3>4. QED
        BY <3>2, <3>3, Zenon DEF FileRows
    <2>2. PICK r \in FileRows : r = [library |-> l, job |-> "pending", indexed |-> file[f].indexed]
      BY <2>1
    <2>3. file' = [file EXCEPT ![f] = r] /\ library[r.library] = "active"
      BY <1>4, <2>2 DEF Shared!Prepare, Shared!LockActive
    <2> HIDE DEF f, l
    <2>4. \A s \in Servers : TickIsInDeletion(s)'
      BY <1>1, <1>2, <2>3, RowKeepsTicks
    <2>5. server' \in [Servers -> Ticks] /\ content' \subseteq Files
      BY <1>1, <1>2 DEF SharedInv, SharedTyped
    <2>6. QED
      BY <1>1, <1>2, <1>3, <2>3, <2>4, <2>5, RowChanges
  <1>5. CASE ~(Shared!LockActive(l) /\ ~Shared!Active(f))
    <2>1. file' = file
      BY <1>5 DEF Shared!Prepare, Shared!Refused, Shared!documents
    <2>2. QED
      BY <1>1, <1>2, <1>3, <2>1, FilesStay
  <1>6. QED
    BY <1>4, <1>5

LEMMA SharedRetry ==
    ASSUME Shared!LibraryAssumption, SharedInv, NEW c \in Calls, Shared!Retry(c)
    PROVE  SharedInv'
  <1> DEFINE f == call[c].file
  <1>1. f \in Files /\ file[f] \in FileRows /\ content \subseteq Files
    BY RowsAre DEF SharedInv, SharedTyped, CallRows, Shared!Retry
  <1>2. Shared!Ends(c) /\ UNCHANGED <<library, queue, grant, listed, server, content>>
    BY DEF Shared!Retry, Shared!Refused, Shared!documents
  <1>3. call' \in [Calls -> CallRows]
    BY <1>2, CallEnds
  <1>4. CASE file[f].job = "failed" /\ Shared!LockActive(file[f].library)
    <2>1. [file[f] EXCEPT !.job = "pending"] \in FileRows
      BY <1>1, <1>4, RowsAre DEF FileRows
    <2>2. PICK r \in FileRows : r = [file[f] EXCEPT !.job = "pending"]
      BY <2>1
    <2>3. file' = [file EXCEPT ![f] = r]
      BY <1>4, <2>2 DEF Shared!Retry
    <2>4. r.library = file[f].library
      BY <1>1, <1>4, <2>2, RowsAre DEF FileRows
    <2>5. library[r.library] = "active"
      BY <1>4, <2>4 DEF Shared!LockActive
    <2> HIDE DEF f
    <2>6. \A s \in Servers : TickIsInDeletion(s)'
      BY <1>1, <1>2, <2>3, <2>5, RowKeepsTicks
    <2>7. server' \in [Servers -> Ticks] /\ content' \subseteq Files
      BY <1>1, <1>2 DEF SharedInv, SharedTyped
    <2>8. QED
      BY <1>1, <1>2, <1>3, <2>3, <2>5, <2>6, <2>7, RowChanges
  <1>5. CASE ~(file[f].job = "failed" /\ Shared!LockActive(file[f].library))
    <2>1. file' = file
      BY <1>5 DEF Shared!Retry, Shared!Refused, Shared!documents
    <2>2. QED
      BY <1>1, <1>2, <1>3, <2>1, FilesStay
  <1>6. QED
    BY <1>4, <1>5

LEMMA SharedDeleteDocument ==
    ASSUME Shared!LibraryAssumption, SharedInv, NEW c \in Calls, Shared!DeleteDocument(c)
    PROVE  SharedInv'
  <1> DEFINE f == call[c].file
  <1>1. f \in Files /\ content \subseteq Files
    BY RowsAre DEF SharedInv, SharedTyped, CallRows, Shared!DeleteDocument
  <1>2. Shared!Ends(c) /\ UNCHANGED <<library, queue, grant, listed, server>>
    BY DEF Shared!DeleteDocument, Shared!Refused
  <1>3. call' \in [Calls -> CallRows]
    BY <1>2, CallEnds
  <1>4. CASE Shared!DeleteRows(f)
    <2>1. PICK r \in FileRows : r = Shared!GoneRow /\ r.library = NoLibrary
      BY RowsAre DEF FileRows
    <2>2. file' = [file EXCEPT ![f] = r] /\ content' \subseteq Files
      BY <1>1, <1>4, <2>1 DEF Shared!DeleteRows
    <2> HIDE DEF f
    <2>3. \A s \in Servers : TickIsInDeletion(s)'
      BY <1>1, <1>2, <2>1, <2>2, RowKeepsTicks
    <2>4. server' \in [Servers -> Ticks]
      BY <1>2 DEF SharedInv, SharedTyped
    <2>5. QED
      BY <1>1, <1>2, <1>3, <2>1, <2>2, <2>3, <2>4, RowChanges
  <1>5. CASE ~Shared!DeleteRows(f)
    <2>1. file' = file /\ content' = content
      BY <1>5 DEF Shared!DeleteDocument, Shared!Refused, Shared!documents
    <2>2. QED
      BY <1>1, <1>2, <1>3, <2>1, FilesStay
  <1>6. QED
    BY <1>4, <1>5

LEMMA SharedDeleteSource ==
    ASSUME Shared!LibraryAssumption, SharedInv, NEW s \in Servers, Shared!DeleteSource(s)
    PROVE  SharedInv'
  <1> DEFINE f == server[s].file
             l == server[s].library
  <1>1. /\ f \in Files /\ l \in Libraries /\ content \subseteq Files /\ file[f] \in FileRows
        /\ library[l] \in {"deleting", "gone"} /\ server[s].pc = "delete"
    BY RowsAre DEF SharedInv, SharedTyped, Ticks, TickIsInDeletion, Shared!DeleteSource
  <1>2. UNCHANGED <<library, queue, grant, listed, call>>
    BY DEF Shared!DeleteSource
  <1>3. \E t \in {"check", "postpone"} : server' = [server EXCEPT ![s].pc = t]
    BY DEF Shared!DeleteSource
  <1>4. /\ server' \in [Servers -> Ticks]
        /\ server'[s].library = l /\ server'[s].file = f
        /\ \A p \in Servers \ {s} : server'[p] = server[p]
    <2>1. server \in [Servers -> Ticks]
      BY DEF SharedInv, SharedTyped
    <2>2. \A t \in {"check", "postpone"} : [server[s] EXCEPT !.pc = t] \in Ticks
      BY <1>1, <2>1, RowsAre DEF Ticks
    <2>3. PICK t \in {"check", "postpone"} : server' = [server EXCEPT ![s].pc = t]
      BY <1>3
    <2>4. PICK k \in Ticks : k = [server[s] EXCEPT !.pc = t]
      BY <2>2
    <2>5. server' = [server EXCEPT ![s] = k]
      BY <2>3, <2>4
    <2>6. k.library = l /\ k.file = f
      BY <1>1, <2>1, <2>4, RowsAre DEF Ticks
    <2>7. QED
      BY <2>1, <2>5, <2>6
  <1>5. \A p \in Servers \ {s} : TickIsInDeletion(p)
    BY DEF SharedInv
  <1>6. PICK r \in FileRows : /\ file' = [file EXCEPT ![f] = r]
                              /\ r = file[f] \/ r.library = NoLibrary
    <2>1. file \in [Files -> FileRows]
      BY DEF SharedInv, SharedTyped
    <2>2. file' = file \/ file' = [file EXCEPT ![f] = Shared!GoneRow]
      BY DEF Shared!DeleteSource, Shared!DeleteRows, Shared!documents
    <2>3. Shared!GoneRow \in FileRows /\ Shared!GoneRow.library = NoLibrary
      BY RowsAre DEF FileRows
    <2>4. file = [file EXCEPT ![f] = file[f]]
      BY <1>1, <2>1
    <2>5. QED
      BY <1>1, <2>2, <2>3, <2>4
  <1>7. content' \subseteq Files /\ call' \in [Calls -> CallRows]
    BY <1>1, <1>2 DEF SharedInv, SharedTyped, Shared!DeleteSource, Shared!DeleteRows, Shared!documents
  <1>8. server'[s].pc = "check" => file'[f].library # l
    <2>1. file \in [Files -> FileRows] /\ server \in [Servers -> Ticks] /\ NoLibrary \notin Libraries
      BY DEF SharedInv, SharedTyped, Shared!LibraryAssumption
    <2>2. CASE Shared!Active(f)
      <3>1. server' = [server EXCEPT ![s].pc = "postpone"]
        BY <2>2 DEF Shared!DeleteSource
      <3>2. server'[s] = [server[s] EXCEPT !.pc = "postpone"]
        BY <2>1, <3>1
      <3>3. server'[s].pc = "postpone"
        BY <1>1, <2>1, <3>2, RowsAre DEF Ticks
      <3>4. QED
        BY <3>3
    <2>3. CASE ~Shared!Active(f) /\ Shared!Present(f)
      BY <1>1, <2>1, <2>3, RowsAre DEF Shared!DeleteSource, Shared!DeleteRows
    <2>4. CASE ~Shared!Active(f) /\ ~Shared!Present(f)
      BY <1>1, <2>1, <2>4 DEF Shared!DeleteSource, Shared!Present
    <2>5. QED
      BY <2>2, <2>3, <2>4
  <1>9. \A p \in Servers : TickIsInDeletion(p)'
    <2>1. TickIsInDeletion(s)'
      BY <1>1, <1>2, <1>4, <1>8 DEF TickIsInDeletion
    <2>2. ASSUME NEW p \in Servers \ {s}, server[p].pc # "idle"
          PROVE  /\ library[server[p].library] \in {"deleting", "gone"}
                 /\ server[p].pc = "check" => file'[server[p].file].library # server[p].library
      <3>1. /\ library[server[p].library] \in {"deleting", "gone"}
            /\ server[p].pc = "check" => file[server[p].file].library # server[p].library
        BY <1>5, <2>2 DEF TickIsInDeletion
      <3>2. /\ server[p].library \in Libraries /\ file \in [Files -> FileRows]
            /\ NoLibrary \notin Libraries
        BY <2>2, RowsAre DEF SharedInv, SharedTyped, Ticks, Shared!LibraryAssumption
      <3>3. file'[server[p].file] = file[server[p].file] \/ file'[server[p].file] = r
        BY <1>1, <1>6, <2>2, <3>2, RowsAre DEF SharedInv, SharedTyped, Ticks
      <3>4. CASE r = file[f]
        <4>1. file' = file
          BY <1>1, <1>6, <3>2, <3>4
        <4>2. QED
          BY <3>1, <4>1
      <3>5. CASE r.library = NoLibrary
        BY <3>1, <3>2, <3>3, <3>5
      <3>6. QED
        BY <1>6, <3>4, <3>5
    <2>3. \A p \in Servers \ {s} : TickIsInDeletion(p)'
      BY <1>2, <1>4, <2>2 DEF TickIsInDeletion
    <2>4. QED
      BY <2>1, <2>3
  <1> HIDE DEF f, l
  <1>10. r.library = NoLibrary \/ (r.library = file[f].library
           /\ (Shared!Active(f) \/ r.job \notin {"pending", "running"}))
    BY <1>6 DEF Shared!Active
  <1>11. QED
    BY <1>1, <1>2, <1>4, <1>6, <1>7, <1>9, <1>10, RowChanges

\* A postponed library is the last one of the same queue.
LEMMA PostponedIsExact ==
    ASSUME SharedInv, NEW s \in Servers, server[s].pc = "postpone"
    PROVE  LET q == Shared!Postponed(queue, server[s].library) IN
           q \in Seq(Libraries) /\ Distinct(q) /\ Queued(q) = Queued(queue)
  <1> DEFINE l == server[s].library
             w == Shared!Without(queue, l)
  <1>1. queue \in Seq(Libraries) /\ Distinct(queue) /\ l \in Libraries
    BY RowsAre DEF SharedInv, SharedTyped, QueueIsExact, Ticks
  <1>2. CASE l \in Queued(queue)
    <2>1. w \in Seq(Libraries) /\ Distinct(w) /\ Queued(w) = Queued(queue) \ {l}
      BY <1>1, <1>2, QueueRemove, SharedRemoveFirst DEF Shared!Without
    <2>2. w # queue
      BY <1>2, <2>1
    <2>3. Shared!Postponed(queue, l) = Append(w, l)
      BY <2>2 DEF Shared!Postponed
    <2> HIDE DEF l, w
    <2>4. /\ Append(w, l) \in Seq(Libraries) /\ Distinct(Append(w, l))
          /\ Queued(Append(w, l)) = Queued(w) \cup {l}
      BY <1>1, <2>1, QueuePush
    <2>5. QED
      BY <1>2, <2>1, <2>3, <2>4 DEF l
  <1>3. CASE l \notin Queued(queue)
    <2>1. w = queue
      BY <1>3 DEF Shared!Without, Shared!RemoveFirst, Queued
    <2>2. QED
      BY <1>1, <2>1 DEF Shared!Postponed
  <1>4. QED
    BY <1>2, <1>3

LEMMA SharedCreateShared ==
    ASSUME Shared!LibraryAssumption, SharedInv, NEW l \in Libraries, NEW w \in Workspaces,
           Shared!CreateShared(l, w)
    PROVE  SharedInv'
  <1>1. SharedTyped'
    BY DEF Shared!CreateShared, Shared!documents, SharedInv, SharedTyped, Shared!NoRow,
           Shared!GoneRow, Shared!NoCall, Shared!Idle, Shared!Active
  <1>2. QueueIsExact'
    BY DEF Shared!CreateShared, Shared!documents, SharedInv, QueueIsExact, Distinct, Queued,
           Shared!NoRow, Shared!GoneRow, Shared!NoCall, Shared!Idle, Shared!Active
  <1>3. (\A s_1 \in Servers : TickIsInDeletion(s_1))'
    BY DEF Shared!CreateShared, Shared!documents, SharedInv, TickIsInDeletion, Shared!NoRow,
           Shared!GoneRow, Shared!NoCall, Shared!Idle, Shared!Active
  <1>4. Shared!ClosedIsQuiet'
    BY DEF Shared!CreateShared, Shared!documents, SharedInv, Shared!ClosedIsQuiet, Shared!Quiet,
           Shared!In, Shared!Active, Shared!NoRow, Shared!GoneRow, Shared!NoCall, Shared!Idle
  <1>5. Shared!NothingIsForgotten'
    BY DEF Shared!CreateShared, Shared!documents, SharedInv, Shared!NothingIsForgotten,
           Shared!In, Shared!NoRow, Shared!GoneRow, Shared!NoCall, Shared!Idle, Shared!Active
  <1>6. QED
    BY <1>1, <1>2, <1>3, <1>4, <1>5 DEF SharedInv

LEMMA SharedArchiveShared ==
    ASSUME Shared!LibraryAssumption, SharedInv, NEW l \in Libraries, Shared!ArchiveShared(l)
    PROVE  SharedInv'
  <1>1. SharedTyped'
    BY DEF Shared!ArchiveShared, Shared!Active, Shared!documents, SharedInv, SharedTyped,
           Shared!NoRow, Shared!GoneRow, Shared!NoCall, Shared!Idle
  <1>2. QueueIsExact'
    BY DEF Shared!ArchiveShared, Shared!Active, Shared!documents, SharedInv, QueueIsExact,
           Distinct, Queued, Shared!NoRow, Shared!GoneRow, Shared!NoCall, Shared!Idle
  <1>3. (\A s_1 \in Servers : TickIsInDeletion(s_1))'
    BY DEF Shared!ArchiveShared, Shared!Active, Shared!documents, SharedInv, TickIsInDeletion,
           Shared!NoRow, Shared!GoneRow, Shared!NoCall, Shared!Idle
  <1>4. Shared!ClosedIsQuiet'
    BY DEF Shared!ArchiveShared, Shared!Quiet, Shared!In, Shared!Active, Shared!documents,
           SharedInv, Shared!ClosedIsQuiet, Shared!NoRow, Shared!GoneRow, Shared!NoCall,
           Shared!Idle
  <1>5. Shared!NothingIsForgotten'
    BY DEF Shared!ArchiveShared, Shared!In, Shared!Active, Shared!documents, SharedInv,
           Shared!NothingIsForgotten, Shared!NoRow, Shared!GoneRow, Shared!NoCall, Shared!Idle
  <1>6. QED
    BY <1>1, <1>2, <1>3, <1>4, <1>5 DEF SharedInv

LEMMA SharedRestoreShared ==
    ASSUME Shared!LibraryAssumption, SharedInv, NEW l \in Libraries, Shared!RestoreShared(l)
    PROVE  SharedInv'
  <1>1. SharedTyped'
    BY DEF Shared!RestoreShared, Shared!documents, SharedInv, SharedTyped, Shared!NoRow,
           Shared!GoneRow, Shared!NoCall, Shared!Idle, Shared!Active
  <1>2. QueueIsExact'
    BY DEF Shared!RestoreShared, Shared!documents, SharedInv, QueueIsExact, Distinct, Queued,
           Shared!NoRow, Shared!GoneRow, Shared!NoCall, Shared!Idle, Shared!Active
  <1>3. (\A s_1 \in Servers : TickIsInDeletion(s_1))'
    BY DEF Shared!RestoreShared, Shared!documents, SharedInv, TickIsInDeletion, Shared!NoRow,
           Shared!GoneRow, Shared!NoCall, Shared!Idle, Shared!Active
  <1>4. Shared!ClosedIsQuiet'
    BY DEF Shared!RestoreShared, Shared!documents, SharedInv, Shared!ClosedIsQuiet,
           Shared!Quiet, Shared!In, Shared!Active, Shared!NoRow, Shared!GoneRow, Shared!NoCall,
           Shared!Idle
  <1>5. Shared!NothingIsForgotten'
    BY DEF Shared!RestoreShared, Shared!documents, SharedInv, Shared!NothingIsForgotten,
           Shared!In, Shared!NoRow, Shared!GoneRow, Shared!NoCall, Shared!Idle, Shared!Active
  <1>6. QED
    BY <1>1, <1>2, <1>3, <1>4, <1>5 DEF SharedInv

LEMMA SharedSetGrant ==
    ASSUME Shared!LibraryAssumption, SharedInv, NEW l \in Libraries, NEW w \in Workspaces,
           NEW g \in {"use", "manage"}, Shared!SetGrant(l, w, g)
    PROVE  SharedInv'
  <1>1. SharedTyped'
    BY DEF Shared!SetGrant, Shared!documents, SharedInv, SharedTyped, Shared!NoRow,
           Shared!GoneRow, Shared!NoCall, Shared!Idle, Shared!Active
  <1>2. QueueIsExact'
    BY DEF Shared!SetGrant, Shared!documents, SharedInv, QueueIsExact, Distinct, Queued,
           Shared!NoRow, Shared!GoneRow, Shared!NoCall, Shared!Idle, Shared!Active
  <1>3. (\A s_1 \in Servers : TickIsInDeletion(s_1))'
    BY DEF Shared!SetGrant, Shared!documents, SharedInv, TickIsInDeletion, Shared!NoRow,
           Shared!GoneRow, Shared!NoCall, Shared!Idle, Shared!Active
  <1>4. Shared!ClosedIsQuiet'
    BY DEF Shared!SetGrant, Shared!documents, SharedInv, Shared!ClosedIsQuiet, Shared!Quiet,
           Shared!In, Shared!Active, Shared!NoRow, Shared!GoneRow, Shared!NoCall, Shared!Idle
  <1>5. Shared!NothingIsForgotten'
    BY DEF Shared!SetGrant, Shared!documents, SharedInv, Shared!NothingIsForgotten, Shared!In,
           Shared!NoRow, Shared!GoneRow, Shared!NoCall, Shared!Idle, Shared!Active
  <1>6. QED
    BY <1>1, <1>2, <1>3, <1>4, <1>5 DEF SharedInv

LEMMA SharedRevokeGrant ==
    ASSUME Shared!LibraryAssumption, SharedInv, NEW l \in Libraries, NEW w \in Workspaces,
           Shared!RevokeGrant(l, w)
    PROVE  SharedInv'
  <1>1. SharedTyped'
    BY DEF Shared!RevokeGrant, Shared!documents, SharedInv, SharedTyped, Shared!NoRow,
           Shared!GoneRow, Shared!NoCall, Shared!Idle, Shared!Active
  <1>2. QueueIsExact'
    BY DEF Shared!RevokeGrant, Shared!documents, SharedInv, QueueIsExact, Distinct, Queued,
           Shared!NoRow, Shared!GoneRow, Shared!NoCall, Shared!Idle, Shared!Active
  <1>3. (\A s_1 \in Servers : TickIsInDeletion(s_1))'
    BY DEF Shared!RevokeGrant, Shared!documents, SharedInv, TickIsInDeletion, Shared!NoRow,
           Shared!GoneRow, Shared!NoCall, Shared!Idle, Shared!Active
  <1>4. Shared!ClosedIsQuiet'
    BY DEF Shared!RevokeGrant, Shared!documents, SharedInv, Shared!ClosedIsQuiet, Shared!Quiet,
           Shared!In, Shared!Active, Shared!NoRow, Shared!GoneRow, Shared!NoCall, Shared!Idle
  <1>5. Shared!NothingIsForgotten'
    BY DEF Shared!RevokeGrant, Shared!documents, SharedInv, Shared!NothingIsForgotten,
           Shared!In, Shared!NoRow, Shared!GoneRow, Shared!NoCall, Shared!Idle, Shared!Active
  <1>6. QED
    BY <1>1, <1>2, <1>3, <1>4, <1>5 DEF SharedInv

LEMMA SharedRequestDeletion ==
    ASSUME Shared!LibraryAssumption, SharedInv, NEW l \in Libraries, Shared!RequestDeletion(l)
    PROVE  SharedInv'
  <1>1. SharedTyped'
    BY DEF Shared!RequestDeletion, Shared!Quiet, Shared!In, Shared!Active,
           Shared!DeletionSources, Shared!documents, SharedInv, SharedTyped, FileRows,
           Shared!NoRow, Shared!GoneRow, CallRows, Shared!NoCall, Ticks, Shared!Idle,
           QueueIsExact, Distinct, Queued, TickIsInDeletion, Shared!ClosedIsQuiet,
           Shared!NothingIsForgotten
  <1>2. QueueIsExact'
    BY DEF Shared!RequestDeletion, Shared!Quiet, Shared!In, Shared!Active,
           Shared!DeletionSources, Shared!documents, SharedInv, QueueIsExact, Distinct, Queued,
           SharedTyped, FileRows, Shared!NoRow, Shared!GoneRow, CallRows, Shared!NoCall, Ticks,
           Shared!Idle, TickIsInDeletion, Shared!ClosedIsQuiet, Shared!NothingIsForgotten
  <1>3. (\A s_1 \in Servers : TickIsInDeletion(s_1))'
    BY DEF Shared!RequestDeletion, Shared!Active, Shared!DeletionSources, Shared!documents,
           SharedInv, TickIsInDeletion, Shared!NoRow, Shared!GoneRow, Shared!NoCall, Shared!Idle
  <1>4. Shared!ClosedIsQuiet'
    BY DEF Shared!RequestDeletion, Shared!Quiet, Shared!In, Shared!Active,
           Shared!DeletionSources, Shared!documents, SharedInv, Shared!ClosedIsQuiet,
           Shared!NoRow, Shared!GoneRow, Shared!NoCall, Shared!Idle
  <1>5. Shared!NothingIsForgotten'
    BY DEF Shared!RequestDeletion, Shared!In, Shared!Active, Shared!DeletionSources,
           Shared!documents, SharedInv, Shared!NothingIsForgotten, SharedTyped, FileRows,
           Shared!NoRow, Shared!GoneRow, CallRows, Shared!NoCall, Ticks, Shared!Idle
  <1>6. QED
    BY <1>1, <1>2, <1>3, <1>4, <1>5 DEF SharedInv

LEMMA SharedAuthorize ==
    ASSUME Shared!LibraryAssumption, SharedInv, NEW c \in Calls, NEW w \in Workspaces,
           NEW l \in Libraries, NEW o \in {"upload", "reindex", "retry", "delete"},
           NEW f \in Files, Shared!Authorize(c, w, l, o, f)
    PROVE  SharedInv'
  <1>1. SharedTyped'
    BY DEF Shared!Authorize, Shared!NoCall, Shared!MayManage, Shared!NoRow, Shared!documents,
           SharedInv, SharedTyped, FileRows, Shared!GoneRow, CallRows, Ticks, Shared!Idle,
           Shared!Active
  <1>2. QueueIsExact'
    BY DEF Shared!Authorize, Shared!NoCall, Shared!MayManage, Shared!NoRow, Shared!documents,
           SharedInv, QueueIsExact, Distinct, Queued, Shared!GoneRow, Shared!Idle, Shared!Active
  <1>3. (\A s_1 \in Servers : TickIsInDeletion(s_1))'
    BY DEF Shared!Authorize, Shared!NoCall, Shared!MayManage, Shared!NoRow, Shared!documents,
           SharedInv, TickIsInDeletion, Shared!GoneRow, Shared!Idle, Shared!Active
  <1>4. Shared!ClosedIsQuiet'
    BY DEF Shared!Authorize, Shared!NoCall, Shared!MayManage, Shared!NoRow, Shared!documents,
           SharedInv, Shared!ClosedIsQuiet, Shared!Quiet, Shared!In, Shared!Active,
           Shared!GoneRow, Shared!Idle
  <1>5. Shared!NothingIsForgotten'
    BY DEF Shared!Authorize, Shared!NoCall, Shared!MayManage, Shared!NoRow, Shared!documents,
           SharedInv, Shared!NothingIsForgotten, Shared!In, Shared!GoneRow, Shared!Idle,
           Shared!Active
  <1>6. QED
    BY <1>1, <1>2, <1>3, <1>4, <1>5 DEF SharedInv

LEMMA SharedClaim ==
    ASSUME Shared!LibraryAssumption, SharedInv, NEW f \in Files, Shared!Claim(f)
    PROVE  SharedInv'
  <1>1. SharedTyped'
    <2>1. file[f] \in [library : Libraries, job : {"none", "pending", "running", "failed"}, indexed : BOOLEAN]
      BY RowsAre DEF SharedInv, SharedTyped, FileRows, Shared!Claim
    <2>2. [file[f] EXCEPT !.job = "running"]
            \in [library : Libraries, job : {"none", "pending", "running", "failed"}, indexed : BOOLEAN]
      BY <2>1
    <2>3. PICK r \in FileRows : r = [file[f] EXCEPT !.job = "running"]
      BY <2>2 DEF FileRows
    <2>4. file' = [file EXCEPT ![f] = r]
      BY <2>3 DEF Shared!Claim
    <2>5. QED
      BY <2>4 DEF SharedInv, SharedTyped, Shared!Claim
  <1>2. QueueIsExact'
    BY DEF Shared!Claim, SharedInv, QueueIsExact, Distinct, Queued, Shared!NoRow,
           Shared!GoneRow, Shared!NoCall, Shared!Idle, Shared!Active
  <1>3. (\A s_1 \in Servers : TickIsInDeletion(s_1))'
    BY DEF Shared!Claim, SharedInv, TickIsInDeletion, Shared!NoRow, Shared!GoneRow,
           Shared!NoCall, Shared!Idle, Shared!Active
  <1>4. Shared!ClosedIsQuiet'
    BY DEF Shared!Claim, SharedInv, Shared!ClosedIsQuiet, Shared!Quiet, Shared!In,
           Shared!Active, Shared!NoRow, Shared!GoneRow, Shared!NoCall, Shared!Idle
  <1>5. Shared!NothingIsForgotten'
    BY DEF Shared!Claim, SharedInv, Shared!NothingIsForgotten, Shared!In, Shared!NoRow,
           Shared!GoneRow, Shared!NoCall, Shared!Idle, Shared!Active
  <1>6. QED
    BY <1>1, <1>2, <1>3, <1>4, <1>5 DEF SharedInv

LEMMA SharedPublish ==
    ASSUME Shared!LibraryAssumption, SharedInv, NEW f \in Files, Shared!Publish(f)
    PROVE  SharedInv'
  <1>1. SharedTyped'
    <2>1. file[f] \in [library : Libraries, job : {"none", "pending", "running", "failed"}, indexed : BOOLEAN]
      BY RowsAre DEF SharedInv, SharedTyped, FileRows, Shared!Publish
    <2>2. [file[f] EXCEPT !.job = "none", !.indexed = TRUE]
            \in [library : Libraries, job : {"none", "pending", "running", "failed"}, indexed : BOOLEAN]
      BY <2>1
    <2>3. PICK r \in FileRows : r = [file[f] EXCEPT !.job = "none", !.indexed = TRUE]
      BY <2>2 DEF FileRows
    <2>4. file' = [file EXCEPT ![f] = r]
      BY <2>3 DEF Shared!Publish
    <2>5. QED
      BY <2>4 DEF SharedInv, SharedTyped, Shared!Publish
  <1>2. QueueIsExact'
    BY DEF Shared!Publish, SharedInv, QueueIsExact, Distinct, Queued, Shared!NoRow,
           Shared!GoneRow, Shared!NoCall, Shared!Idle, Shared!Active
  <1>3. (\A s_1 \in Servers : TickIsInDeletion(s_1))'
    BY DEF Shared!Publish, SharedInv, TickIsInDeletion, Shared!NoRow, Shared!GoneRow,
           Shared!NoCall, Shared!Idle, Shared!Active
  <1>4. Shared!ClosedIsQuiet'
    BY DEF Shared!Publish, SharedInv, Shared!ClosedIsQuiet, Shared!Quiet, Shared!In,
           Shared!Active, Shared!NoRow, Shared!GoneRow, Shared!NoCall, Shared!Idle
  <1>5. Shared!NothingIsForgotten'
    BY DEF Shared!Publish, SharedInv, Shared!NothingIsForgotten, Shared!In, Shared!NoRow,
           Shared!GoneRow, Shared!NoCall, Shared!Idle, Shared!Active
  <1>6. QED
    BY <1>1, <1>2, <1>3, <1>4, <1>5 DEF SharedInv

LEMMA SharedJobFails ==
    ASSUME Shared!LibraryAssumption, SharedInv, NEW f \in Files, Shared!JobFails(f)
    PROVE  SharedInv'
  <1>1. SharedTyped'
    <2>1. file[f] \in [library : Libraries, job : {"none", "pending", "running", "failed"}, indexed : BOOLEAN]
      BY RowsAre DEF SharedInv, SharedTyped, FileRows, Shared!JobFails
    <2>2. [file[f] EXCEPT !.job = "failed"]
            \in [library : Libraries, job : {"none", "pending", "running", "failed"}, indexed : BOOLEAN]
      BY <2>1
    <2>3. PICK r \in FileRows : r = [file[f] EXCEPT !.job = "failed"]
      BY <2>2 DEF FileRows
    <2>4. file' = [file EXCEPT ![f] = r]
      BY <2>3 DEF Shared!JobFails
    <2>5. QED
      BY <2>4 DEF SharedInv, SharedTyped, Shared!JobFails
  <1>2. QueueIsExact'
    BY DEF Shared!JobFails, SharedInv, QueueIsExact, Distinct, Queued, Shared!NoRow,
           Shared!GoneRow, Shared!NoCall, Shared!Idle, Shared!Active
  <1>3. (\A s_1 \in Servers : TickIsInDeletion(s_1))'
    BY DEF Shared!JobFails, SharedInv, TickIsInDeletion, Shared!NoRow, Shared!GoneRow,
           Shared!NoCall, Shared!Idle, Shared!Active
  <1>4. Shared!ClosedIsQuiet'
    BY DEF Shared!JobFails, SharedInv, Shared!ClosedIsQuiet, Shared!Quiet, Shared!In,
           Shared!Active, Shared!NoRow, Shared!GoneRow, Shared!NoCall, Shared!Idle
  <1>5. Shared!NothingIsForgotten'
    BY DEF Shared!JobFails, SharedInv, Shared!NothingIsForgotten, Shared!In, Shared!NoRow,
           Shared!GoneRow, Shared!NoCall, Shared!Idle, Shared!Active
  <1>6. QED
    BY <1>1, <1>2, <1>3, <1>4, <1>5 DEF SharedInv

LEMMA SharedDeleteContent ==
    ASSUME Shared!LibraryAssumption, SharedInv, NEW f \in Files, Shared!DeleteContent(f)
    PROVE  SharedInv'
  <1>1. SharedTyped'
    BY DEF Shared!DeleteContent, SharedInv, SharedTyped, Shared!NoRow, Shared!GoneRow,
           Shared!NoCall, Shared!Idle, Shared!Active
  <1>2. QueueIsExact'
    BY DEF Shared!DeleteContent, SharedInv, QueueIsExact, Distinct, Queued, Shared!NoRow,
           Shared!GoneRow, Shared!NoCall, Shared!Idle, Shared!Active
  <1>3. (\A s_1 \in Servers : TickIsInDeletion(s_1))'
    BY DEF Shared!DeleteContent, SharedInv, TickIsInDeletion, Shared!NoRow, Shared!GoneRow,
           Shared!NoCall, Shared!Idle, Shared!Active
  <1>4. Shared!ClosedIsQuiet'
    BY DEF Shared!DeleteContent, SharedInv, Shared!ClosedIsQuiet, Shared!Quiet, Shared!In,
           Shared!Active, Shared!NoRow, Shared!GoneRow, Shared!NoCall, Shared!Idle
  <1>5. Shared!NothingIsForgotten'
    BY DEF Shared!DeleteContent, SharedInv, Shared!NothingIsForgotten, Shared!In, Shared!NoRow,
           Shared!GoneRow, Shared!NoCall, Shared!Idle, Shared!Active
  <1>6. QED
    BY <1>1, <1>2, <1>3, <1>4, <1>5 DEF SharedInv

LEMMA SharedPickSource ==
    ASSUME Shared!LibraryAssumption, SharedInv, NEW s \in Servers, Shared!PickSource(s)
    PROVE  SharedInv'
  <1>1. SharedTyped'
    <2> DEFINE l == Head(queue)
    <2>1. l \in Libraries
      BY QueueShift DEF SharedInv, SharedTyped, QueueIsExact, Shared!PickSource
    <2>2. listed[l] \in SUBSET Nat /\ listed[l] # {} /\ listed[l] \subseteq Files
      BY <2>1 DEF SharedInv, SharedTyped, Shared!LibraryAssumption, Shared!PickSource
    <2>3. Shared!First(listed[l]) \in Files
      BY <2>2, FirstIsListed
    <2> HIDE DEF l
    <2>4. [pc |-> "delete", library |-> l, file |-> Shared!First(listed[l])] \in Ticks
      BY <2>1, <2>3 DEF Ticks
    <2>5. QED
      BY <2>4 DEF l, SharedInv, SharedTyped, Shared!PickSource, Shared!documents
  <1>2. QueueIsExact'
    BY DEF Shared!PickSource, Shared!First, Shared!documents, SharedInv, QueueIsExact, Distinct,
           Queued, Shared!NoRow, Shared!GoneRow, Shared!NoCall, Shared!Idle, Shared!Active
  <1>3. (\A s_1 \in Servers : TickIsInDeletion(s_1))'
    BY DEF Shared!PickSource, Shared!First, Shared!documents, SharedInv, TickIsInDeletion,
           SharedTyped, FileRows, Shared!NoRow, Shared!GoneRow, CallRows, Shared!NoCall, Ticks,
           Shared!Idle, QueueIsExact, Distinct, Queued, Shared!ClosedIsQuiet, Shared!Quiet,
           Shared!In, Shared!Active, Shared!NothingIsForgotten
  <1>4. Shared!ClosedIsQuiet'
    BY DEF Shared!PickSource, Shared!First, Shared!documents, SharedInv, Shared!ClosedIsQuiet,
           Shared!Quiet, Shared!In, Shared!Active, Shared!NoRow, Shared!GoneRow, Shared!NoCall,
           Shared!Idle
  <1>5. Shared!NothingIsForgotten'
    BY DEF Shared!PickSource, Shared!First, Shared!documents, SharedInv,
           Shared!NothingIsForgotten, Shared!In, Shared!NoRow, Shared!GoneRow, Shared!NoCall,
           Shared!Idle, Shared!Active
  <1>6. QED
    BY <1>1, <1>2, <1>3, <1>4, <1>5 DEF SharedInv

LEMMA SharedRemoveLibrary ==
    ASSUME Shared!LibraryAssumption, SharedInv, NEW s \in Servers, Shared!RemoveLibrary(s)
    PROVE  SharedInv'
  <1>1. SharedTyped'
    BY DEF Shared!RemoveLibrary, Shared!documents, SharedInv, SharedTyped, Shared!NoRow,
           Shared!GoneRow, Shared!NoCall, Shared!Idle, Shared!Active
  <1>2. QueueIsExact'
    <2> DEFINE l == Head(queue)
    <2>1. /\ l \in Libraries /\ l \in Queued(queue)
          /\ Distinct(Tail(queue)) /\ Queued(Tail(queue)) = Queued(queue) \ {l}
      BY QueueShift DEF SharedInv, SharedTyped, QueueIsExact, Shared!RemoveLibrary
    <2>2. queue' = Tail(queue) /\ library' = [library EXCEPT ![l] = "gone"]
      BY DEF Shared!RemoveLibrary
    <2> HIDE DEF l
    <2>3. {x \in Libraries : library'[x] = "deleting"} = {x \in Libraries : library[x] = "deleting"} \ {l}
      BY <2>1, <2>2 DEF SharedInv, SharedTyped
    <2>4. Queued(queue) = {x \in Libraries : library[x] = "deleting"}
      BY DEF SharedInv, QueueIsExact
    <2>5. Distinct(queue') /\ Queued(queue') = {x \in Libraries : library'[x] = "deleting"}
      BY <2>1, <2>2, <2>3, <2>4
    <2>6. QED
      BY <2>5 DEF QueueIsExact, Distinct, Queued
  <1>3. (\A s_1 \in Servers : TickIsInDeletion(s_1))'
    BY DEF Shared!RemoveLibrary, Shared!documents, SharedInv, TickIsInDeletion, Shared!NoRow,
           Shared!GoneRow, Shared!NoCall, Shared!Idle, Shared!Active
  <1>4. Shared!ClosedIsQuiet'
    BY DEF Shared!RemoveLibrary, Shared!In, Shared!documents, SharedInv, Shared!ClosedIsQuiet,
           Shared!Quiet, Shared!Active, Shared!NoRow, Shared!GoneRow, Shared!NoCall, Shared!Idle
  <1>5. Shared!NothingIsForgotten'
    BY DEF Shared!RemoveLibrary, Shared!In, Shared!documents, SharedInv,
           Shared!NothingIsForgotten, Shared!NoRow, Shared!GoneRow, Shared!NoCall, Shared!Idle,
           Shared!Active
  <1>6. QED
    BY <1>1, <1>2, <1>3, <1>4, <1>5 DEF SharedInv

LEMMA SharedCheckContent ==
    ASSUME Shared!LibraryAssumption, SharedInv, NEW s \in Servers, Shared!CheckContent(s)
    PROVE  SharedInv'
  <1>1. SharedTyped'
    BY DEF Shared!CheckContent, Shared!documents, SharedInv, SharedTyped, FileRows,
           Shared!NoRow, Shared!GoneRow, CallRows, Shared!NoCall, Ticks, Shared!Idle,
           QueueIsExact, Distinct, Queued, TickIsInDeletion, Shared!ClosedIsQuiet, Shared!Quiet,
           Shared!In, Shared!Active, Shared!NothingIsForgotten
  <1>2. QueueIsExact'
    BY DEF Shared!CheckContent, Shared!documents, SharedInv, QueueIsExact, Distinct, Queued,
           Shared!NoRow, Shared!GoneRow, Shared!NoCall, Shared!Idle, Shared!Active
  <1>3. (\A s_1 \in Servers : TickIsInDeletion(s_1))'
    BY DEF Shared!CheckContent, Shared!documents, SharedInv, TickIsInDeletion, Shared!NoRow,
           Shared!GoneRow, Shared!NoCall, Shared!Idle, Shared!Active
  <1>4. Shared!ClosedIsQuiet'
    BY DEF Shared!CheckContent, Shared!documents, SharedInv, Shared!ClosedIsQuiet, Shared!Quiet,
           Shared!In, Shared!Active, Shared!NoRow, Shared!GoneRow, Shared!NoCall, Shared!Idle
  <1>5. Shared!NothingIsForgotten'
    BY DEF Shared!CheckContent, Shared!documents, SharedInv, Shared!NothingIsForgotten,
           Shared!In, SharedTyped, FileRows, Shared!NoRow, Shared!GoneRow, CallRows,
           Shared!NoCall, Ticks, Shared!Idle, QueueIsExact, Distinct, Queued, TickIsInDeletion,
           Shared!ClosedIsQuiet, Shared!Quiet, Shared!Active
  <1>6. QED
    BY <1>1, <1>2, <1>3, <1>4, <1>5 DEF SharedInv

LEMMA SharedPostpone ==
    ASSUME Shared!LibraryAssumption, SharedInv, NEW s \in Servers, Shared!Postpone(s)
    PROVE  SharedInv'
  <1>1. SharedTyped'
    <2>1. queue' \in Seq(Libraries)
      BY PostponedIsExact DEF Shared!Postpone
    <2>2. QED
      BY <2>1 DEF SharedInv, SharedTyped, Ticks, Shared!Postpone, Shared!documents
  <1>2. QueueIsExact'
    <2>1. Distinct(queue') /\ Queued(queue') = Queued(queue)
      BY PostponedIsExact DEF Shared!Postpone
    <2>2. QED
      BY <2>1 DEF SharedInv, QueueIsExact, Shared!Postpone
  <1>3. (\A s_1 \in Servers : TickIsInDeletion(s_1))'
    BY DEF Shared!Postpone, Shared!Postponed, Shared!Without, Shared!Idle, Shared!documents,
           SharedInv, TickIsInDeletion, Shared!NoRow, Shared!GoneRow, Shared!NoCall,
           Shared!Active
  <1>4. Shared!ClosedIsQuiet'
    BY DEF Shared!Postpone, Shared!Postponed, Shared!Without, Shared!Idle, Shared!documents,
           SharedInv, Shared!ClosedIsQuiet, Shared!Quiet, Shared!In, Shared!Active,
           Shared!NoRow, Shared!GoneRow, Shared!NoCall
  <1>5. Shared!NothingIsForgotten'
    BY DEF Shared!Postpone, Shared!Postponed, Shared!Without, Shared!Idle, Shared!documents,
           SharedInv, Shared!NothingIsForgotten, Shared!In, Shared!NoRow, Shared!GoneRow,
           Shared!NoCall, Shared!Active
  <1>6. QED
    BY <1>1, <1>2, <1>3, <1>4, <1>5 DEF SharedInv

LEMMA SharedCrash ==
    ASSUME Shared!LibraryAssumption, SharedInv, NEW s \in Servers, Shared!Crash(s)
    PROVE  SharedInv'
  <1>1. SharedTyped'
    BY DEF Shared!Crash, Shared!Idle, Shared!documents, SharedInv, SharedTyped, FileRows,
           Shared!NoRow, Shared!GoneRow, CallRows, Shared!NoCall, Ticks, Shared!Active
  <1>2. QueueIsExact'
    BY DEF Shared!Crash, Shared!Idle, Shared!documents, SharedInv, QueueIsExact, Distinct,
           Queued, Shared!NoRow, Shared!GoneRow, Shared!NoCall, Shared!Active
  <1>3. (\A s_1 \in Servers : TickIsInDeletion(s_1))'
    BY DEF Shared!Crash, Shared!Idle, Shared!documents, SharedInv, TickIsInDeletion,
           Shared!NoRow, Shared!GoneRow, Shared!NoCall, Shared!Active
  <1>4. Shared!ClosedIsQuiet'
    BY DEF Shared!Crash, Shared!Idle, Shared!documents, SharedInv, Shared!ClosedIsQuiet,
           Shared!Quiet, Shared!In, Shared!Active, Shared!NoRow, Shared!GoneRow, Shared!NoCall
  <1>5. Shared!NothingIsForgotten'
    BY DEF Shared!Crash, Shared!Idle, Shared!documents, SharedInv, Shared!NothingIsForgotten,
           Shared!In, Shared!NoRow, Shared!GoneRow, Shared!NoCall, Shared!Active
  <1>6. QED
    BY <1>1, <1>2, <1>3, <1>4, <1>5 DEF SharedInv

LEMMA SharedStutter ==
    ASSUME Shared!LibraryAssumption, SharedInv, UNCHANGED Shared!vars
    PROVE  SharedInv'
  <1>1. SharedTyped'
    BY DEF Shared!vars, SharedInv, SharedTyped, Shared!NoRow, Shared!GoneRow, Shared!NoCall,
           Shared!Idle, Shared!Active
  <1>2. QueueIsExact'
    BY DEF Shared!vars, SharedInv, QueueIsExact, Distinct, Queued, Shared!NoRow, Shared!GoneRow,
           Shared!NoCall, Shared!Idle, Shared!Active
  <1>3. (\A s_1 \in Servers : TickIsInDeletion(s_1))'
    BY DEF Shared!vars, SharedInv, TickIsInDeletion, Shared!NoRow, Shared!GoneRow,
           Shared!NoCall, Shared!Idle, Shared!Active
  <1>4. Shared!ClosedIsQuiet'
    BY DEF Shared!vars, SharedInv, Shared!ClosedIsQuiet, Shared!Quiet, Shared!In, Shared!Active,
           Shared!NoRow, Shared!GoneRow, Shared!NoCall, Shared!Idle
  <1>5. Shared!NothingIsForgotten'
    BY DEF Shared!vars, SharedInv, Shared!NothingIsForgotten, Shared!In, Shared!NoRow,
           Shared!GoneRow, Shared!NoCall, Shared!Idle, Shared!Active
  <1>6. QED
    BY <1>1, <1>2, <1>3, <1>4, <1>5 DEF SharedInv

LEMMA SharedInit ==
    ASSUME Shared!LibraryAssumption, Shared!Init
    PROVE  SharedInv
  <1>1. /\ Shared!NoRow \in FileRows /\ Shared!NoCall \in CallRows /\ Shared!Idle \in Ticks
        /\ queue = <<>> /\ queue \in Seq(Libraries) /\ Len(queue) = 0
    BY EmptySeq DEF FileRows, CallRows, Ticks, Shared!Init
  <1>2. SharedTyped
    BY <1>1 DEF Shared!Init, SharedTyped
  <1>3. QueueIsExact
    BY <1>1 DEF Shared!Init, QueueIsExact, Distinct, Queued
  <1>4. \A s \in Servers : TickIsInDeletion(s)
    BY RowsAre DEF Shared!Init, TickIsInDeletion
  <1>5. Shared!ClosedIsQuiet /\ Shared!NothingIsForgotten
    BY RowsAre DEF Shared!Init, Shared!ClosedIsQuiet, Shared!NothingIsForgotten, Shared!In,
                   Shared!LibraryAssumption
  <1>6. QED
    BY <1>2, <1>3, <1>4, <1>5 DEF SharedInv

LEMMA SharedStep ==
    ASSUME Shared!LibraryAssumption, SharedInv, [Shared!Next]_(Shared!vars)
    PROVE  SharedInv'
  <1>1. ASSUME NEW l \in Libraries, Shared!AdministrationStep(l)
        PROVE  SharedInv'
    BY <1>1, SharedArchiveShared, SharedRestoreShared, SharedRequestDeletion, SharedCreateShared,
       SharedRevokeGrant, SharedSetGrant DEF Shared!AdministrationStep
  <1>2. ASSUME NEW c \in Calls, Shared!CallStep(c)
        PROVE  SharedInv'
    BY <1>2, SharedAuthorize, SharedPrepare, SharedRetry, SharedDeleteDocument DEF Shared!CallStep
  <1>3. ASSUME NEW f \in Files, Shared!Work(f) \/ Shared!DeleteContent(f)
        PROVE  SharedInv'
    BY <1>3, SharedClaim, SharedPublish, SharedJobFails, SharedDeleteContent DEF Shared!Work
  <1>4. ASSUME NEW s \in Servers, Shared!Reconcile(s) \/ Shared!Crash(s)
        PROVE  SharedInv'
    BY <1>4, SharedPickSource, SharedRemoveLibrary, SharedDeleteSource, SharedCheckContent,
       SharedPostpone, SharedCrash DEF Shared!Reconcile
  <1>5. QED
    BY <1>1, <1>2, <1>3, <1>4, SharedStutter DEF Shared!Next

LEMMA SharedAlways ==
    ASSUME Shared!LibraryAssumption
    PROVE  Shared!Spec => []SharedInv
  <1>1. Shared!Init => SharedInv
    BY SharedInit
  <1>2. SharedInv /\ [Shared!Next]_(Shared!vars) => SharedInv'
    BY SharedStep
  <1>3. QED
    BY <1>1, <1>2, PTL DEF Shared!Spec

\* The reconcilers' queue holds exactly the shared libraries in deletion, once each,
\* whatever servers remove, postpone and crash (deletion-reconciler.ts,
\* postponeSharedSourceLibraryDeletion).
THEOREM DeletionQueueIsExact ==
    ASSUME Shared!LibraryAssumption, IsFiniteSet(Libraries)
    PROVE  Shared!Spec => []Shared!TypeOK
  <1>1. ASSUME SharedInv
        PROVE  Shared!TypeOK
    <2>1. /\ queue \in Seq(Libraries) /\ Distinct(queue) /\ DOMAIN queue = 1 .. Len(queue)
          /\ Queued(queue) = {l \in Libraries : library[l] = "deleting"}
      BY <1>1, LenProperties DEF SharedInv, SharedTyped, QueueIsExact
    <2>2. {queue[i] : i \in DOMAIN queue} = {l \in Libraries : library[l] = "deleting"}
      BY <2>1 DEF Queued
    <2>3. Len(queue) = Shared!Cardinality({l \in Libraries : library[l] = "deleting"})
      BY <2>1, QueueLength, SharedCardinality
    <2>4. \A r \in FileRows : r \in [library : Libraries \cup {NoLibrary},
                                     job : {"none", "pending", "running", "failed", "gone"},
                                     indexed : BOOLEAN]
      <3>1. Shared!NoRow \in [library : Libraries \cup {NoLibrary},
                              job : {"none", "pending", "running", "failed", "gone"}, indexed : BOOLEAN]
        BY DEF Shared!NoRow
      <3>2. Shared!GoneRow \in [library : Libraries \cup {NoLibrary},
                                job : {"none", "pending", "running", "failed", "gone"},
                                indexed : BOOLEAN]
        BY DEF Shared!GoneRow
      <3>3. [library : Libraries, job : {"none", "pending", "running", "failed"}, indexed : BOOLEAN]
              \subseteq [library : Libraries \cup {NoLibrary},
                         job : {"none", "pending", "running", "failed", "gone"}, indexed : BOOLEAN]
        OBVIOUS
      <3>4. QED
        BY <3>1, <3>2, <3>3, Zenon DEF FileRows
    <2>5. \A r \in CallRows : r \in [op : {"none", "upload", "reindex", "retry", "delete"},
                                     library : Libraries \cup {NoLibrary}, file : Files \cup {0}]
      BY DEF CallRows, Shared!NoCall
    <2>6. \A r \in Ticks : r \in [pc : {"idle", "delete", "check", "postpone"},
                                  library : Libraries \cup {NoLibrary}, file : Files \cup {0}]
      BY DEF Ticks, Shared!Idle
    <2>7. /\ file \in [Files -> [library : Libraries \cup {NoLibrary},
                                 job : {"none", "pending", "running", "failed", "gone"},
                                 indexed : BOOLEAN]]
          /\ call \in [Calls -> [op : {"none", "upload", "reindex", "retry", "delete"},
                                 library : Libraries \cup {NoLibrary}, file : Files \cup {0}]]
          /\ server \in [Servers -> [pc : {"idle", "delete", "check", "postpone"},
                                     library : Libraries \cup {NoLibrary}, file : Files \cup {0}]]
      <3>1. file \in [Files -> FileRows] /\ call \in [Calls -> CallRows] /\ server \in [Servers -> Ticks]
        BY <1>1 DEF SharedInv, SharedTyped
      <3>2. QED
        BY <2>4, <2>5, <2>6, <3>1, Zenon
    <2>8. QED
      BY <1>1, <2>2, <2>3, <2>7 DEF SharedInv, SharedTyped, Shared!TypeOK
  <1>2. QED
    BY <1>1, SharedAlways, PTL

\* A shared library that is archived or in deletion has nothing in processing, whatever
\* uploads, retries and reindexings were authorised while it was active (the row lock that
\* lockActiveSourceLibrary takes again when they act).
THEOREM ClosedLibrariesAreQuiet ==
    ASSUME Shared!LibraryAssumption
    PROVE  Shared!Spec => []Shared!ClosedIsQuiet
  <1>1. SharedInv => Shared!ClosedIsQuiet
    BY DEF SharedInv
  <1>2. QED
    BY <1>1, SharedAlways, PTL

\* A file of a library in deletion stays on its deletion list until the file is gone, and a
\* removed library has no file left, whatever servers share the work and crash in it.
THEOREM DeletionsForgetNothing ==
    ASSUME Shared!LibraryAssumption
    PROVE  Shared!Spec => []Shared!NothingIsForgotten
  <1>1. SharedInv => Shared!NothingIsForgotten
    BY DEF SharedInv
  <1>2. QED
    BY <1>1, SharedAlways, PTL
===============================================================================
