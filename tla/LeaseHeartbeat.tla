--------------------------- MODULE LeaseHeartbeat ---------------------------
(***************************************************************************)
(* startLeaseHeartbeat: one holder of a database lease renews it, watches  *)
(* its own deadline and tells the work that depends on it when the lease   *)
(* is lost.  Time is counted in units shared by the database and the       *)
(* process; a timer fires before time passes its instant, a message takes  *)
(* any time.  The renewal statement of the database is external: it        *)
(* extends an unexpired lease of this holder by Lease units, and answers   *)
(* null otherwise.                                                         *)
(***************************************************************************)
EXTENDS Integers

CONSTANTS
    Lease,      \* length of the lease
    MaxDelay,   \* longest delay of the first confirmation
    MaxTime     \* bound: instants

HeartbeatAssumption ==
    /\ Lease \in Nat /\ Lease >= 6 /\ MaxDelay \in Nat /\ MaxTime \in Nat

Unset == -1

VARIABLES
    now,
    expiry,     \* lease_expires_at of the row
    taken,      \* another holder has taken the expired lease
    phase,      \* "starting", "working", "stopping", "stopped"
    aborted,    \* leaseController.signal.aborted
    renewal,    \* the renewal in flight: where it is and what it will answer
    renewAt,    \* renewalTimer
    deadlineAt, \* deadlineTimer
    confirmed   \* confirmedDeadline

vars == <<now, expiry, taken, phase, aborted, renewal, renewAt, deadlineAt, confirmed>>
row == <<expiry, taken>>
timers == <<renewAt, deadlineAt>>

NoRenewal == "none"
Later(a, b) == IF a > b THEN a ELSE b
Sooner(a, b) == IF a < b THEN a ELSE b

\* The lease was granted at time 0; its confirmation is on the way.
Init ==
    /\ now = 0 /\ expiry = Lease /\ taken = FALSE
    /\ phase = "starting" /\ aborted = FALSE /\ renewal = NoRenewal
    /\ renewAt = Unset /\ deadlineAt = Unset /\ confirmed = 0
-----------------------------------------------------------------------------
NoStopCheck(d) == IF aborted THEN renewAt ELSE now + Later(1, d)
NoAbortCheck(d) == IF phase = "stopping" THEN renewAt ELSE now + Later(1, d)
\* scheduleRenewal: nothing is scheduled once stopped or aborted.
Scheduled(d) == IF phase = "stopping" \/ aborted THEN renewAt ELSE now + Later(1, d)

ExtendDeadline ==
    IF phase = "stopping"
    THEN UNCHANGED <<confirmed, timers>>
    ELSE /\ confirmed' = Later(confirmed, now) + Lease /\ deadlineAt' = Later(confirmed, now) + Lease
         /\ renewAt' = Scheduled(Lease \div 3)
\* scheduleConfirmedLease: a new deadline, counted from the arrival of the answer.
Confirm ==
    IF phase = "stopping"
    THEN UNCHANGED <<confirmed, timers>>
    ELSE /\ confirmed' = now + Lease /\ deadlineAt' = now + Lease
         /\ renewAt' = Scheduled(Lease \div 3)

LoseLease ==
    /\ aborted' = TRUE
    /\ IF aborted THEN UNCHANGED timers ELSE renewAt' = Unset /\ deadlineAt' = Unset

\* The first confirmation arrives.
Start ==
    /\ phase = "starting" /\ phase' = "working" /\ Confirm
    /\ UNCHANGED <<now, row, aborted, renewal>>

\* The first renewal fails.
StartFails ==
    /\ phase = "starting" /\ phase' = "working" /\ LoseLease
    /\ UNCHANGED <<now, row, renewal, confirmed>>

RenewalTimer ==
    /\ renewAt = now /\ renewAt' = Unset /\ renewal' = "sent"
    /\ UNCHANGED <<now, row, phase, aborted, deadlineAt, confirmed>>

DeadlineTimer ==
    /\ deadlineAt = now
    /\ IF aborted THEN deadlineAt' = Unset /\ UNCHANGED <<renewAt, aborted>> ELSE LoseLease
    /\ UNCHANGED <<now, row, phase, renewal, confirmed>>

\* The database runs the renewal.
Execute ==
    /\ renewal = "sent"
    /\ IF now < expiry /\ ~taken
       THEN renewal' = "granted" /\ expiry' = now + Lease
       ELSE renewal' = "null" /\ UNCHANGED expiry
    /\ UNCHANGED <<now, taken, phase, aborted, timers, confirmed>>

Answer ==
    /\ renewal \in {"granted", "null"} /\ renewal' = NoRenewal
    /\ IF renewal = "granted" THEN Confirm /\ UNCHANGED aborted
                              ELSE LoseLease /\ UNCHANGED confirmed
    /\ UNCHANGED <<now, row, phase>>

FailUnnoticed ==
    /\ renewal # NoRenewal /\ renewal' = NoRenewal
    /\ UNCHANGED <<now, row, phase, aborted, timers, confirmed>>
\* The call fails, before or after the database ran it.
Fail ==
    /\ renewal # NoRenewal /\ renewal' = NoRenewal
    /\ IF confirmed <= now THEN LoseLease
       ELSE /\ renewAt' = Scheduled(Sooner(1, (confirmed - now) \div 6))
            /\ UNCHANGED <<aborted, deadlineAt>>
    /\ UNCHANGED <<now, row, phase, confirmed>>

\* The work ends, or its owner gives the lease up and then stops.
Stop ==
    /\ phase = "working" /\ phase' = "stopping"
    /\ renewAt' = Unset /\ deadlineAt' = Unset
    /\ UNCHANGED <<now, row, aborted, renewal, confirmed>>
Stopped ==
    /\ phase = "stopping" /\ renewal = NoRenewal /\ phase' = "stopped"
    /\ UNCHANGED <<now, row, aborted, renewal, timers, confirmed>>
OwnerLoses ==
    /\ phase = "working" /\ ~aborted /\ LoseLease
    /\ UNCHANGED <<now, row, phase, renewal, confirmed>>
-----------------------------------------------------------------------------
TakeOver ==
    /\ ~taken /\ expiry <= now /\ taken' = TRUE
    /\ UNCHANGED <<now, expiry, phase, aborted, renewal, timers, confirmed>>

Tick ==
    /\ now < MaxTime /\ renewAt # now /\ deadlineAt # now
    /\ phase = "starting" => now < MaxDelay
    /\ now' = now + 1
    /\ UNCHANGED <<row, phase, aborted, renewal, timers, confirmed>>

Next ==
    \/ Start \/ StartFails \/ RenewalTimer \/ DeadlineTimer \/ Execute \/ Answer \/ Fail
    \/ Stop \/ Stopped \/ OwnerLoses \/ TakeOver \/ Tick

Spec == Init /\ [][Next]_vars
-----------------------------------------------------------------------------
Working == phase = "working" /\ ~aborted

\* Type invariant.
TypeOK ==
    /\ now \in 0 .. MaxTime /\ expiry \in Int /\ taken \in BOOLEAN
    /\ phase \in {"starting", "working", "stopping", "stopped"} /\ aborted \in BOOLEAN
    /\ renewal \in {NoRenewal, "sent", "granted", "null"}
    /\ renewAt = Unset \/ renewAt \in now .. now + Lease
    /\ deadlineAt = Unset \/ deadlineAt \in now .. now + Lease
    /\ confirmed \in Int

\* A working holder is always watched: its deadline timer is set for the last
\* confirmed deadline, and a renewal is under way or scheduled before it.
AlwaysWatched ==
    Working => /\ deadlineAt = confirmed
               /\ renewal # NoRenewal \/ renewAt \in now .. deadlineAt

\* However long renewals take and however often they fail, the holder works on
\* for at most two thirds of a lease, or the delay of the first
\* confirmation, after the row has expired.
OverrunIsBounded ==
    Working => now <= expiry + Later(MaxDelay, Lease - Lease \div 3)

\* Once stop() has resolved no timer and no renewal of the heartbeat is left.
NothingLeftBehind ==
    phase = "stopped" => renewAt = Unset /\ deadlineAt = Unset /\ renewal = NoRenewal

\* An answer that arrives after the abort never lets the holder work again, and
\* no renewal starts after the abort or the stop.
LostForGood ==
    /\ aborted => aborted'
    /\ renewal = NoRenewal /\ renewal' = "sent" => Working
=============================================================================
