----------------------- MODULE DocumentNotifications -----------------------
(***************************************************************************)
(* Notify me when ready: the documents a page watches, the refresh that    *)
(* asks for their states one after the other, and the browser notification *)
(* at its end.  A refresh that is aborted returns at its next await, so    *)
(* only the refresh of the current controller is kept.                     *)
(***************************************************************************)
EXTENDS Naturals, Sequences, FiniteSets, SequencesExt

CONSTANTS
    Documents,      \* source files, numbers: their order is that of the names
    MaxChanges,     \* changes by the user, reloads and sign-outs
    MaxProcessing   \* changes of the documents in the library

NotificationAssumption ==
    Documents \subseteq Nat /\ IsFiniteSet(Documents) /\ MaxChanges \in Nat /\ MaxProcessing \in Nat

VARIABLES
    status,     \* readDocumentNotificationOutcome of each document: what the catalog says
    subs,       \* documentNotificationSubscriptions
    stored,     \* what the session storage holds
    session,    \* the storage key is known: loadCurrentSession is done
    granted,    \* the browser's permission
    timer,      \* documentNotificationRefreshTimerId
    refresh,    \* the refresh under way
    asked,      \* ghost: documents the user waits for
    told,       \* ghost: documents of the last notification
    changes, processing

vars == <<status, subs, stored, session, granted, timer, refresh, asked, told, changes, processing>>
bounds == <<changes, processing>>

Outcomes == {"processing", "ready", "failed", "removed"}
Idle == [on |-> FALSE, todo |-> <<>>, answer |-> "none", outcomes |-> {}]

Sorted(S) == SetToSortSeq(S, <)

Init ==
    /\ status = [d \in Documents |-> "processing"]
    /\ subs = {} /\ stored = {} /\ session = FALSE /\ granted \in BOOLEAN
    /\ timer = FALSE /\ refresh = Idle
    /\ asked = {} /\ told = {} /\ changes = 0 /\ processing = 0

\* persistDocumentNotifications: without a session nothing is stored.
Persisted(S, loaded) == IF loaded THEN S ELSE stored

\* scheduleDocumentNotificationRefresh.
ScheduleWhenNew(S) == timer' = (timer \/ (S # {} /\ S # subs))
Schedule(S) == timer' = (timer \/ S # {})

-----------------------------------------------------------------------------
(* The library: ingestion, reindexing and deletion. *)

Process(d) ==
    /\ processing < MaxProcessing /\ processing' = processing + 1
    /\ \E s \in Outcomes :
         /\ s # status[d] /\ status[d] # "removed"
         /\ status' = [status EXCEPT ![d] = s]
    /\ told' = {}
    /\ UNCHANGED <<subs, stored, session, granted, timer, refresh, asked, changes>>

-----------------------------------------------------------------------------
(* The user. *)

\* changeDocumentNotification, turned on; the permission is asked for first.
\* The change aborts the refresh under way.
NotAborted == refresh
Aborted == Idle

Change(S) ==
    /\ subs' = S /\ stored' = Persisted(S, session)
    /\ refresh' = Aborted /\ Schedule(S)

TurnOn(d) ==
    /\ changes < MaxChanges /\ changes' = changes + 1
    /\ granted' \in {granted, TRUE} /\ told' = {}
    /\ IF granted'
       THEN Change(subs \cup {d}) /\ asked' = asked \cup {d}
       ELSE UNCHANGED <<subs, stored, refresh, timer, asked>>
    /\ UNCHANGED <<status, session, processing>>

\* Turned off by the user, who sees it on, or by the page, when the document is
\* deleted.  Without a session it stays stored, and the page says that it could
\* not be removed.
TurnOff(d) ==
    /\ d \in subs \/ status[d] = "removed"
    /\ changes < MaxChanges /\ changes' = changes + 1
    /\ Change(subs \ {d}) /\ asked' = asked \ {d} /\ told' = {}
    /\ UNCHANGED <<status, session, granted, processing>>

\* loadCurrentSession and loadDocumentNotifications: what this page was asked
\* for meanwhile is added to what is stored, which counts as asked for.
OnlyStored == IF granted THEN stored ELSE {}
Loaded == IF granted THEN stored \cup subs ELSE {}
LoadSession ==
    /\ ~session /\ session' = TRUE
    /\ subs' = Loaded /\ stored' = Persisted(subs', TRUE) /\ Schedule(subs')
    /\ asked' = (IF granted THEN asked \cup stored ELSE {}) /\ told' = {}
    /\ UNCHANGED <<status, granted, refresh, bounds>>

\* signOut clears what is watched, and the page is left.
SignOut ==
    /\ session /\ changes < MaxChanges /\ changes' = changes + 1
    /\ subs' = {} /\ stored' = {} /\ refresh' = Idle /\ timer' = FALSE
    /\ asked' = {} /\ told' = {} /\ session' = FALSE
    /\ UNCHANGED <<status, granted, processing>>

\* The page is loaded again: only the session storage outlives it.  What was
\* stored is waited for, and what was not is lost with the page.
Reload ==
    /\ changes < MaxChanges /\ changes' = changes + 1
    /\ subs' = {} /\ session' = FALSE /\ refresh' = Idle /\ timer' = FALSE
    /\ asked' = stored /\ told' = {} /\ granted' \in BOOLEAN
    /\ UNCHANGED <<status, stored, processing>>

-----------------------------------------------------------------------------
(* The refresh. *)

\* An event of the revision stream, or the end of a dashboard refresh.
Revision == Schedule(subs) /\ told' = {}
            /\ UNCHANGED <<status, subs, stored, session, granted, refresh, asked, bounds>>

\* refreshDocumentNotifications, up to its first request: it aborts the refresh
\* before it.
EmptyRefresh ==
    /\ timer /\ timer' = FALSE /\ told' = {}
    /\ refresh' = [Idle EXCEPT !.on = TRUE, !.todo = Sorted(subs)]
    /\ UNCHANGED <<status, subs, stored, session, granted, asked, bounds>>
Timer ==
    /\ timer /\ timer' = FALSE /\ told' = {}
    /\ refresh' = IF subs = {} THEN refresh ELSE [Idle EXCEPT !.on = TRUE, !.todo = Sorted(subs)]
    /\ UNCHANGED <<status, subs, stored, session, granted, asked, bounds>>

\* The server answers with the catalog as it is then.
Answer ==
    /\ refresh.on /\ refresh.todo # <<>> /\ refresh.answer = "none"
    /\ refresh' = [refresh EXCEPT !.answer = status[Head(refresh.todo)]] /\ told' = {}
    /\ UNCHANGED <<status, subs, stored, session, granted, timer, asked, bounds>>

\* showDocumentNotificationOutcomes, at the end of the loop.
Ends(r, S, waits) ==
    IF r.todo # <<>> THEN refresh' = r /\ stored' = stored /\ told' = {} /\ asked' = waits
    ELSE /\ refresh' = Idle /\ stored' = Persisted(S, session)
         /\ told' = (IF granted THEN r.outcomes ELSE {}) /\ asked' = waits \ (r.outcomes \ S)

\* The answer is applied: an outcome ends the watch; the next document is asked
\* for, or the notification is shown.
Apply ==
    LET d == Head(refresh.todo)
        rest == [refresh EXCEPT !.todo = Tail(@), !.answer = "none"]
        over == refresh.answer # "processing" /\ d \in subs
        outcomes == IF over /\ refresh.answer # "removed"
                    THEN refresh.outcomes \cup {d} ELSE refresh.outcomes
        left == IF over THEN subs \ {d} ELSE subs
        waits == IF refresh.answer = "removed" THEN asked \ {d} ELSE asked IN
    /\ refresh.on /\ refresh.answer # "none"
    /\ subs' = left /\ Ends([rest EXCEPT !.outcomes = outcomes], left, waits)
    /\ UNCHANGED <<status, session, granted, timer, bounds>>

\* The request fails: CiteLoom keeps watching.
RequestFails ==
    /\ refresh.on /\ refresh.todo # <<>>
    /\ subs' = subs /\ Ends([refresh EXCEPT !.todo = Tail(@), !.answer = "none"], subs, asked)
    /\ UNCHANGED <<status, session, granted, timer, bounds>>

Next ==
    \/ \E d \in Documents : Process(d) \/ TurnOn(d) \/ TurnOff(d)
    \/ LoadSession \/ SignOut \/ Reload
    \/ Revision \/ Timer \/ Answer \/ Apply \/ RequestFails

Spec == Init /\ [][Next]_vars

\* Dashboard refreshes come at an interval and timers fire.  A request that is
\* sent again and again is answered at last, before the next refresh aborts it.
Fairness ==
    /\ WF_vars(Revision) /\ WF_vars(Timer) /\ WF_vars(LoadSession)
    /\ \A d \in Documents :
         /\ SF_vars(refresh.todo # <<>> /\ Head(refresh.todo) = d /\ Answer)
         /\ SF_vars(refresh.todo # <<>> /\ Head(refresh.todo) = d /\ Apply)

FairSpec == Spec /\ Fairness


-----------------------------------------------------------------------------
(* Properties. *)

TypeOK ==
    /\ status \in [Documents -> Outcomes] /\ {subs, stored, asked, told} \subseteq SUBSET Documents
    /\ {session, granted, timer} \subseteq BOOLEAN
    /\ refresh \in [on : BOOLEAN, todo : Seq(Documents), answer : Outcomes \cup {"none"}, outcomes : SUBSET Documents]
    /\ refresh.on => refresh.todo # <<>>

\* A notification names only documents the user still waits for: none that was
\* turned off meanwhile, none of another session, and none a second time.
ToldWhatWasAsked == told' \subseteq asked

\* "Your browser will notify you when indexing finishes": a document the user
\* waits for is watched, taken off the list by the refresh that will announce
\* it, or stored for the session that is being loaded.
Waits(d) == d \in subs \cup refresh.outcomes \cup (IF session THEN {} ELSE stored)

\* Nothing but an aborted refresh drops such a document: while the user still
\* waits for it, it goes on waiting, through reloads, late sessions, failed
\* requests and changes of other documents.  The exception is stated: with two
\* documents, a refresh that is aborted after it took the first one off the list
\* and before the last one was answered never announces the first
\* (refreshDocumentNotifications, persistDocumentNotifications).
OnlyAbortsDrop ==
    \A d \in asked \cap asked' :
        Waits(d) => Waits(d)' \/ (d \in refresh.outcomes /\ refresh.todo # <<>> /\ refresh'.outcomes = {})

\* A watched document whose ingestion ended does not stay on the list.
OutcomeIsNoticed ==
    \A d \in Documents : d \in subs ~> (d \notin subs \/ status[d] = "processing")
=============================================================================
