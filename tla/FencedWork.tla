----------------------------- MODULE FencedWork -----------------------------
(***************************************************************************)
(* What a lease over an attempt number promises.  Work is attempted again  *)
(* and again by workers that may be slow, dead or repeated; each attempt   *)
(* has a new number, only the latest can deliver, and a delivered result   *)
(* stands until the work itself is erased.                                 *)
(***************************************************************************)
EXTENDS Naturals

CONSTANT Items

VARIABLE work       \* for each item: its state, latest attempt and delivered attempt

None == [state |-> "none", attempt |-> 0, result |-> 0]

Init == work = [i \in Items |-> None]

\* Queued without an attempt yet, or started, or started over.
Opened(w) == {[state |-> "open", attempt |-> n, result |-> 0] : n \in {w.attempt, w.attempt + 1}}
Delivered(w) == [state |-> "delivered", attempt |-> w.attempt, result |-> w.attempt]
Dropped(w) == [state |-> "dropped", attempt |-> w.attempt, result |-> 0]

After(w) ==
    {w, None}
    \cup (IF w.state \in {"none", "open", "dropped"} THEN Opened(w) ELSE {})
    \cup (IF w.state = "open" /\ w.attempt > 0 THEN {Delivered(w), Dropped(w)} ELSE {})

\* One transaction may settle one item and open another.
Next == work' \in [Items -> UNION {After(work[i]) : i \in Items}]
        /\ \A i \in Items : work'[i] \in After(work[i])

Spec == Init /\ [][Next]_work
=============================================================================
