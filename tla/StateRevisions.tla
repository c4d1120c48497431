--------------------------- MODULE StateRevisions ---------------------------
(***************************************************************************)
(* How a change of the database reaches an open page: the trigger that     *)
(* counts revisions and notifies, the listener of the web server           *)
(* (PostgresApplicationStateRevisionSource), the event stream of the page  *)
(* (openApplicationStateRevisionEventStream) and the dashboard of the      *)
(* shell.  The three channels are one here: each of them takes this path.  *)
(***************************************************************************)
EXTENDS Naturals

CONSTANTS
    MaxRevision,    \* commits that change the revision
    MaxDrops,       \* connections to the database that are lost
    MaxCuts,        \* event streams that are cut
    MaxFailures     \* database reads and dashboard requests that fail

RevisionAssumption == {MaxRevision, MaxDrops, MaxCuts, MaxFailures} \subseteq Nat

VARIABLES
    revision,   \* application_revisions
    source,     \* the listener: client, connecting, reconnectTimer, closed
    sockets,    \* connections of the listener that the database holds
    notified,   \* notifications the database sent and the listener has not read
    stream,     \* the server's end of the event stream
    wire,       \* an event of the stream has not reached the page
    page,       \* dashboardRefreshTimerId, -Refreshing, -Queued, and for each
                \* request under way what the server read for it
    shown,      \* the revision of the dashboard on the screen
    missed,     \* ghost: a change was published that nobody was told of, or a request failed
    drops, cuts, failures

vars == <<revision, source, sockets, notified, stream, wire, page, shown, missed, drops, cuts, failures>>
bounds == <<drops, cuts, failures>>

None == MaxRevision + 1
Revisions == 0..MaxRevision

OpenStream == [closed |-> FALSE, reading |-> TRUE, queued |-> FALSE]
ClosedStream == [closed |-> TRUE, reading |-> FALSE, queued |-> FALSE]

\* open() connected, and the page has just been opened: its dashboard request is
\* under way, its event stream is not there yet.
Init ==
    /\ revision = 0 /\ sockets = 1 /\ notified = FALSE
    /\ source = [client |-> TRUE, connecting |-> FALSE, timer |-> FALSE, closed |-> FALSE]
    /\ stream = ClosedStream /\ wire = FALSE
    /\ page = [timer |-> FALSE, refreshing |-> TRUE, queued |-> FALSE, flight |-> {None}]
    /\ shown = None /\ missed = FALSE
    /\ drops = 0 /\ cuts = 0 /\ failures = 0

-----------------------------------------------------------------------------
(* The database. *)

\* publish_application_revision: one increment and one notification for each
\* transaction; only the connections that listen at that moment get it.
Publish ==
    /\ revision < MaxRevision /\ revision' = revision + 1
    /\ notified' = (notified \/ source.client)
    /\ missed' = (missed \/ ~source.client)
    /\ UNCHANGED <<source, sockets, stream, wire, page, shown, bounds>>

-----------------------------------------------------------------------------
(* The listener. *)

\* handleDisconnect: what the connection had not delivered is lost with it.
NeverReconnecting(s) == s
Reconnecting(s) == IF s.closed \/ s.timer THEN s ELSE [s EXCEPT !.timer = TRUE]

Disconnect ==
    /\ source.client /\ drops < MaxDrops /\ drops' = drops + 1
    /\ source' = Reconnecting([source EXCEPT !.client = FALSE])
    /\ sockets' = sockets - 1 /\ notified' = FALSE /\ missed' = (missed \/ notified)
    /\ UNCHANGED <<revision, stream, wire, page, shown, cuts, failures>>

\* The timer of scheduleReconnect, and connect() up to the first await.
ReconnectTimer ==
    /\ source.timer
    /\ source' = [source EXCEPT !.timer = FALSE, !.connecting = ~source.closed /\ ~source.client]
    /\ UNCHANGED <<revision, sockets, notified, stream, wire, page, shown, missed, bounds>>

\* connectClient: a source that was closed meanwhile ends the new connection.
InstallAnyway(s) == [s EXCEPT !.connecting = FALSE, !.client = TRUE]
Install(s) == IF s.closed THEN [s EXCEPT !.connecting = FALSE]
              ELSE [s EXCEPT !.connecting = FALSE, !.client = TRUE]

ConnectedTwice ==
    /\ source.connecting /\ source' = [source EXCEPT !.client = ~source.closed]
    /\ sockets' = IF source'.client THEN sockets + 1 ELSE sockets
    /\ UNCHANGED <<revision, notified, stream, wire, page, shown, missed, bounds>>
Connected ==
    /\ source.connecting /\ source' = Install(source)
    /\ sockets' = IF source'.client THEN sockets + 1 ELSE sockets
    /\ UNCHANGED <<revision, notified, stream, wire, page, shown, missed, bounds>>

ConnectFails ==
    /\ source.connecting /\ drops < MaxDrops /\ drops' = drops + 1
    /\ source' = Reconnecting([source EXCEPT !.connecting = FALSE])
    /\ UNCHANGED <<revision, sockets, notified, stream, wire, page, shown, missed, cuts, failures>>

\* The publish function of the stream: a read under way is followed by another.
Ignore(s) == IF s.closed \/ s.reading THEN s ELSE [s EXCEPT !.reading = TRUE]
Queue(s) == IF s.closed THEN s
            ELSE IF s.reading THEN [s EXCEPT !.queued = TRUE] ELSE [s EXCEPT !.reading = TRUE]

\* handleNotification: every subscriber is called.
Notification ==
    /\ notified /\ notified' = FALSE /\ stream' = Queue(stream)
    /\ UNCHANGED <<revision, source, sockets, wire, page, shown, missed, bounds>>

\* close() of the source, at the end of the server: the stream ends with it.
Close ==
    /\ ~source.closed
    /\ source' = [source EXCEPT !.closed = TRUE, !.timer = FALSE, !.client = FALSE]
    /\ sockets' = IF source.client THEN sockets - 1 ELSE sockets
    /\ notified' = FALSE /\ missed' = TRUE /\ stream' = ClosedStream
    /\ UNCHANGED <<revision, wire, page, shown, bounds>>

-----------------------------------------------------------------------------
(* The event stream. *)

\* The page's EventSource opens a stream, the first time and after each end:
\* it subscribes and publishes at once.
SubscribedOnly == [OpenStream EXCEPT !.reading = FALSE]
Subscribed == OpenStream
OpenEventStream ==
    /\ stream.closed /\ ~source.closed /\ stream' = Subscribed
    /\ UNCHANGED <<revision, source, sockets, notified, wire, page, shown, missed, bounds>>

\* publishQueuedRevisions: an event for each read; a change that came meanwhile
\* makes it read again.
ReadForEvent ==
    /\ stream.reading /\ wire' = TRUE
    /\ stream' = [stream EXCEPT !.reading = stream.queued, !.queued = FALSE]
    /\ UNCHANGED <<revision, source, sockets, notified, page, shown, missed, bounds>>

\* The read fails: the stream is closed for good.
ReadForEventFails ==
    /\ stream.reading /\ failures < MaxFailures /\ failures' = failures + 1
    /\ stream' = ClosedStream
    /\ UNCHANGED <<revision, source, sockets, notified, wire, page, shown, missed, drops, cuts>>

\* The connection to the browser is cut, with the event that was on its way.
Cut ==
    /\ ~stream.closed /\ cuts < MaxCuts /\ cuts' = cuts + 1
    /\ stream' = ClosedStream /\ wire' = FALSE
    /\ UNCHANGED <<revision, source, sockets, notified, page, shown, missed, drops, failures>>

-----------------------------------------------------------------------------
(* The page. *)

\* scheduleDashboardRefresh.
ScheduledOnce(p) == IF p.refreshing THEN p ELSE [p EXCEPT !.timer = TRUE]
Scheduled(p) == IF p.refreshing THEN [p EXCEPT !.queued = TRUE] ELSE [p EXCEPT !.timer = TRUE]

\* A revision event.
Event ==
    /\ wire /\ wire' = FALSE /\ page' = Scheduled(page)
    /\ UNCHANGED <<revision, source, sockets, notified, stream, shown, missed, bounds>>

\* refreshDashboard, as far as its request.  A request that starts now reads all
\* there is: what nobody was told of is made good by it.
AlwaysRefreshing(p) == [p EXCEPT !.refreshing = TRUE, !.flight = @ \cup {None}]
Refreshing(p) == IF p.refreshing THEN [p EXCEPT !.queued = TRUE]
                 ELSE [p EXCEPT !.refreshing = TRUE, !.flight = @ \cup {None}]
Refresh(p) == page' = Refreshing(p) /\ missed' = (missed /\ p.refreshing)

RefreshTimer ==
    /\ page.timer /\ Refresh([page EXCEPT !.timer = FALSE])
    /\ UNCHANGED <<revision, source, sockets, notified, stream, wire, shown, bounds>>

\* The interval of workflowRefreshIntervalMs.
NoInterval == UNCHANGED vars
Interval ==
    /\ Refresh(page)
    /\ UNCHANGED <<revision, source, sockets, notified, stream, wire, shown, bounds>>

\* The server reads the dashboard of its request.
ServerReads ==
    /\ None \in page.flight /\ ~source.closed
    /\ page' = [page EXCEPT !.flight = (@ \ {None}) \cup {revision}]
    /\ UNCHANGED <<revision, source, sockets, notified, stream, wire, shown, missed, bounds>>

\* The finally of refreshDashboard: a queued refresh starts at once.
Again(p, r) ==
    [p EXCEPT !.refreshing = p.queued, !.queued = FALSE,
              !.flight = (@ \ {r}) \cup (IF p.queued THEN {None} ELSE {})]

Show ==
    /\ \E r \in page.flight \ {None} : shown' = r /\ page' = Again(page, r)
    /\ missed' = (missed /\ ~page.queued)
    /\ UNCHANGED <<revision, source, sockets, notified, stream, wire, bounds>>

RequestFails ==
    /\ failures < MaxFailures /\ failures' = failures + 1
    /\ \E r \in page.flight : page' = Again(page, r)
    /\ missed' = ~page.queued
    /\ UNCHANGED <<revision, source, sockets, notified, stream, wire, shown, drops, cuts>>

Next ==
    \/ Publish \/ Disconnect \/ ReconnectTimer \/ Connected \/ ConnectFails \/ Notification \/ Close
    \/ OpenEventStream \/ ReadForEvent \/ ReadForEventFails \/ Cut
    \/ Event \/ RefreshTimer \/ Interval \/ ServerReads \/ Show \/ RequestFails

Spec == Init /\ [][Next]_vars

\* Timers fire, connections are tried until one stands, requests are answered.
Fairness ==
    /\ WF_vars(ReconnectTimer) /\ WF_vars(Connected) /\ WF_vars(Notification)
    /\ WF_vars(OpenEventStream) /\ WF_vars(ReadForEvent)
    /\ WF_vars(Event) /\ WF_vars(RefreshTimer) /\ WF_vars(Interval) /\ WF_vars(ServerReads) /\ WF_vars(Show)

FairSpec == Spec /\ Fairness


-----------------------------------------------------------------------------
(* Properties. *)

\* Types, and the listener holds the one connection it believes to have.
TypeOK ==
    /\ revision \in Revisions /\ shown \in Revisions \cup {None}
    /\ source \in [client : BOOLEAN, connecting : BOOLEAN, timer : BOOLEAN, closed : BOOLEAN]
    /\ sockets \in 0..1 /\ notified \in BOOLEAN /\ wire \in BOOLEAN /\ missed \in BOOLEAN
    /\ stream \in [closed : BOOLEAN, reading : BOOLEAN, queued : BOOLEAN]
    /\ page \in [timer : BOOLEAN, refreshing : BOOLEAN, queued : BOOLEAN,
                flight : SUBSET (Revisions \cup {None})]

\* A closed source keeps no connection and starts none, although it was closed
\* while a reconnect was waiting or under way.
ClosedLetsGo == source.closed => sockets = 0 /\ ~source.client /\ ~source.timer

\* A listener that is not closed is connected or will try again.
ListenerComesBack == source.closed \/ source.client \/ source.connecting \/ source.timer

\* No wake-up is lost: a page that shows an old revision has something under way
\* that ends in a new request, unless the change was published while the
\* listener was away or a request failed.
NoLostWakeUp ==
    (shown # revision /\ ~missed) =>
        \/ notified \/ stream.closed \/ stream.reading \/ wire
        \/ page.timer \/ page.queued
        \/ page.flight \cap {None, revision} # {}

\* The page does not go back to an older revision.
NeverShowsOlder == shown # None => shown' >= shown

\* Whatever was lost, the page shows the last revision in the end, as long as
\* the server runs.
CatchesUp == \A r \in Revisions : <>[](revision = r /\ ~source.closed) => <>[](shown = r)
=============================================================================
