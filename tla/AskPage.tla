------------------------------ MODULE AskPage ------------------------------
(***************************************************************************)
(* The Ask page of the browser: research threads, streamed answers, source *)
(* discovery and the polling of verification results.  Everything between  *)
(* two awaits of the script is one step; responses arrive in any order.    *)
(* What the server stores is reduced to the turns of each thread.          *)
(***************************************************************************)
EXTENDS Naturals, FiniteSets

CONSTANTS
    Threads,
    MaxRequests,    \* bound: questions and searches, which also number them
    MaxPages,       \* bound: pages of results asked for
    MaxLoads,       \* bound: threads selected, created, deleted or refreshed
    None

AskAssumption == None \notin Threads /\ {MaxRequests, MaxPages, MaxLoads} \subseteq Nat

Requests == 1 .. MaxRequests
Turns == 1 .. MaxRequests       \* the turn that question i adds

VARIABLES
    mode,       \* "ask" or "discover"
    threadId,   \* the selected thread, or None
    thread,     \* the thread that is shown, as it was read
    turnId,     \* the turn that is shown, 0 for none
    answer,     \* the answer that is shown
    stream,     \* the question whose streamed content is shown, 0 for none
    operation, controller,      \* of the current request
    request,    \* every question and search
    loads,      \* responses under way that nothing aborts
    discovery,  \* the results that are shown
    page,       \* requests for pages of results
    pageController,
    turns,      \* the server's turns of each thread
    checked,    \* the turns whose verification the server has completed
    checking,   \* the verification refresh timer
    issued      \* requests, pages and loads so far

vars == <<mode, threadId, thread, turnId, answer, stream, operation, controller, request, loads,
          discovery, page, pageController, turns, checked, checking, issued>>
shown == <<threadId, thread, turnId, answer, stream>>
finding == <<discovery, page, pageController>>

NoThread == [id |-> None, turns |-> {}, checked |-> {}]
NoAnswer == [turn |-> 0, thread |-> None, verified |-> FALSE]
NoDiscovery == [exact |-> 0, related |-> 0]
NoRequest == [kind |-> "none", pc |-> "none", thread |-> None, aborted |-> FALSE]
NoPage == [of |-> 0, aborted |-> FALSE, pc |-> "none"]

Init ==
    /\ mode = "ask" /\ threadId = None /\ thread = NoThread /\ turnId = 0
    /\ answer = NoAnswer /\ stream = 0
    /\ operation = "none" /\ controller = 0
    /\ request = [r \in Requests |-> NoRequest] /\ loads = {}
    /\ discovery = NoDiscovery /\ page = [p \in 1 .. MaxPages |-> NoPage] /\ pageController = 0
    /\ turns = [t \in Threads |-> {}] /\ checked = {} /\ checking = FALSE
    /\ issued = [requests |-> 0, pages |-> 0, loads |-> 0]
-----------------------------------------------------------------------------
Latest(s) == IF s = {} THEN 0 ELSE CHOOSE u \in s : \A v \in s : v <= u
Stored(t) == [id |-> t, turns |-> turns[t], checked |-> checked \cap turns[t]]
Historical(th, u) ==
    IF u = 0 THEN NoAnswer ELSE [turn |-> u, thread |-> th.id, verified |-> u \in th.checked]

\* presentHistoricalAnswer, or clearAnswerPresentation when there is none.
Present(th, u) ==
    /\ answer' = Historical(th, u) /\ stream' = 0
    /\ checking' = (u # 0 /\ u \notin th.checked)

\* stopRequest: the current request and the page being loaded are aborted.
StoppedRequests == IF controller = 0 THEN request ELSE [request EXCEPT ![controller].aborted = TRUE]
PagesGoOn == page
StoppedPages == IF pageController = 0 THEN page ELSE [page EXCEPT ![pageController].aborted = TRUE]
StopRequest ==
    /\ request' = StoppedRequests /\ page' = StoppedPages
    /\ operation' = "none" /\ controller' = 0 /\ pageController' = 0

Stop ==
    /\ operation # "none" /\ StopRequest
    /\ UNCHANGED <<mode, shown, loads, discovery, turns, checking, issued, checked>>
ChangeMode ==
    /\ mode' = IF mode = "ask" THEN "discover" ELSE "ask"
    /\ StopRequest
    /\ UNCHANGED <<shown, loads, discovery, turns, checking, issued, checked>>
-----------------------------------------------------------------------------
(* Threads.                                                                 *)

StartLoad(l) == loads' = loads \cup {l} /\ issued' = [issued EXCEPT !.loads = @ + 1]
Load(t, u, keep, r) == [kind |-> "load", thread |-> t, turn |-> u, keep |-> keep, by |-> r, id |-> issued.loads]

SelectThread(t) ==
    /\ issued.loads < MaxLoads
    /\ IF operation = "answer" THEN StopRequest
       ELSE UNCHANGED <<request, page, operation, controller, pageController>>
    /\ threadId' = t /\ thread' = NoThread /\ turnId' = 0 /\ Present(NoThread, 0)
    /\ StartLoad(Load(t, 0, FALSE, 0))
    /\ UNCHANGED <<mode, discovery, turns, checked>>

ForAnyThread(l) == TRUE
ForSelectedThread(l) == threadId = l.thread

\* The end of loadResearchThread; for a question, also its finally block.
LoadArrives(l) ==
    LET next == IF l.turn \in turns[l.thread] THEN l.turn ELSE Latest(turns[l.thread]) IN
    /\ l \in loads /\ l.kind = "load" /\ loads' = loads \ {l}
    /\ IF ForSelectedThread(l)
       THEN /\ thread' = Stored(l.thread) /\ turnId' = next
            /\ IF l.keep /\ answer.turn = next THEN UNCHANGED <<answer, stream, checking>>
               ELSE Present(Stored(l.thread), next)
       ELSE UNCHANGED <<thread, turnId, answer, stream, checking>>
    /\ request' = IF l.by = 0 THEN request ELSE [request EXCEPT ![l.by].pc = "done"]
    /\ IF l.by # 0 /\ controller = l.by THEN operation' = "none" /\ controller' = 0
       ELSE UNCHANGED <<operation, controller>>
    /\ UNCHANGED <<mode, threadId, finding, turns, issued, checked>>

\* createThread, and its response, which nothing aborts.
CreateThread(t) ==
    /\ operation # "answer" /\ issued.loads < MaxLoads
    /\ StartLoad([Load(t, 0, FALSE, 0) EXCEPT !.kind = "create"])
    /\ UNCHANGED <<mode, shown, operation, controller, request, finding, turns, checking, checked>>
ThreadCreated(l) ==
    /\ l \in loads /\ l.kind = "create" /\ loads' = loads \ {l}
    /\ thread' = Stored(l.thread) /\ threadId' = l.thread /\ turnId' = Latest(turns[l.thread])
    /\ Present(Stored(l.thread), Latest(turns[l.thread]))
    /\ UNCHANGED <<mode, operation, controller, request, finding, turns, issued, checked>>

DeleteThread ==
    /\ thread # NoThread /\ operation # "answer" /\ issued.loads < MaxLoads
    /\ StartLoad([Load(thread.id, 0, FALSE, 0) EXCEPT !.kind = "delete"])
    /\ UNCHANGED <<mode, shown, operation, controller, request, finding, turns, checking, checked>>
ThreadDeleted(l) ==
    /\ l \in loads /\ l.kind = "delete" /\ loads' = loads \ {l}
    /\ turns' = [turns EXCEPT ![l.thread] = {}]
    /\ IF thread.id = l.thread THEN thread' = NoThread /\ threadId' = None /\ turnId' = 0 /\ Present(NoThread, 0)
       ELSE UNCHANGED <<shown, checking>>
    /\ UNCHANGED <<mode, operation, controller, request, finding, issued, checked>>

SelectHistoricalTurn(u) ==
    /\ u \in thread.turns /\ turnId # u
    /\ turnId' = u /\ Present(thread, u)
    /\ UNCHANGED <<mode, threadId, thread, operation, controller, request, loads, finding, turns, issued, checked>>
-----------------------------------------------------------------------------
(* Questions.                                                               *)

StartRequest(kind, t) ==
    LET r == issued.requests + 1 IN
    /\ issued.requests < MaxRequests /\ issued' = [issued EXCEPT !.requests = r]
    /\ request' = [StoppedRequests EXCEPT ![r] = [kind |-> kind, thread |-> t, aborted |-> FALSE,
                      pc |-> IF kind = "answer" /\ t = None THEN "resolving" ELSE "waiting"]]
    /\ page' = StoppedPages
    /\ controller' = r /\ pageController' = 0 /\ operation' = kind

\* A question in the selected thread, or in one that is looked up first by its title.
AskQuestion(titled) ==
    /\ mode = "ask" /\ StartRequest("answer", IF titled THEN None ELSE threadId)
    /\ answer' = NoAnswer /\ stream' = 0 /\ checking' = FALSE
    /\ UNCHANGED <<mode, threadId, thread, turnId, loads, discovery, turns, checked>>

\* finally: the page is idle again unless another request took over.
StaysBusy(r) == UNCHANGED <<operation, controller>>
Finish(r) ==
    IF controller = r THEN operation' = "none" /\ controller' = 0 ELSE UNCHANGED <<operation, controller>>

\* resolveAnsweringThreadId.
ResolveThread(r, t) ==
    /\ request[r].pc = "resolving" /\ ~request[r].aborted
    /\ request' = [request EXCEPT ![r].pc = "waiting", ![r].thread = t]
    /\ thread' = Stored(t) /\ threadId' = t /\ turnId' = 0
    /\ UNCHANGED <<mode, answer, stream, operation, controller, loads, finding, turns, checking, issued, checked>>

ShowsAborted(r) == TRUE
Current(r) == ~request[r].aborted

StreamUpdate(r) ==
    /\ request[r].kind = "answer" /\ request[r].pc = "waiting" /\ Current(r)
    /\ answer = NoAnswer /\ stream # r /\ stream' = r
    /\ UNCHANGED <<mode, threadId, thread, turnId, answer, operation, controller, request, loads, finding,
                   turns, checking, issued, checked>>

\* The last event of the stream: the turn is stored, and shown if nobody stopped it.
AnswerCompletes(r) ==
    LET t == request[r].thread IN
    /\ request[r].kind = "answer" /\ request[r].pc = "waiting"
    /\ turns' = [turns EXCEPT ![t] = @ \cup {r}]
    /\ IF Current(r)
       THEN /\ answer' = [turn |-> r, thread |-> t, verified |-> FALSE] /\ checking' = TRUE
            /\ stream' = r
            /\ loads' = loads \cup {Load(t, r, TRUE, r)}
            /\ request' = [request EXCEPT ![r].pc = "loading"]
            /\ UNCHANGED <<operation, controller>>
       ELSE request' = [request EXCEPT ![r].pc = "done"] /\ Finish(r) /\ UNCHANGED <<answer, stream, checking, loads>>
    /\ UNCHANGED <<mode, threadId, thread, turnId, finding, issued, checked>>

\* An error, or the abort itself.
RequestFails(r) ==
    /\ request[r].pc \in {"resolving", "waiting"}
    /\ request' = [request EXCEPT ![r].pc = "done"] /\ Finish(r)
    /\ UNCHANGED <<mode, shown, loads, finding, turns, checking, issued, checked>>

LoadFails(l) ==
    /\ l \in loads /\ loads' = loads \ {l}
    /\ request' = IF l.by = 0 THEN request ELSE [request EXCEPT ![l.by].pc = "done"]
    /\ IF l.by = 0 THEN UNCHANGED <<operation, controller>> ELSE Finish(l.by)
    /\ checking' = IF l.kind = "verify" THEN answer.turn # 0 /\ ~answer.verified ELSE checking
    /\ UNCHANGED <<mode, shown, finding, turns, issued, checked>>
-----------------------------------------------------------------------------
(* Verification polling.                                                    *)

RefreshVerification ==
    /\ checking /\ checking' = FALSE
    /\ IF threadId = None \/ answer.turn = 0 \/ issued.loads = MaxLoads THEN UNCHANGED <<loads, issued, checked>>
       ELSE StartLoad([Load(threadId, answer.turn, FALSE, 0) EXCEPT !.kind = "verify"])
    /\ UNCHANGED <<mode, shown, operation, controller, request, finding, turns, checked>>

ForAnyAnswer(l) == answer.turn # 0
ForThisAnswer(l) == threadId = l.thread /\ answer.turn = l.turn

VerificationArrives(l) ==
    /\ l \in loads /\ l.kind = "verify" /\ loads' = loads \ {l}
    /\ IF ForThisAnswer(l) /\ l.turn \in turns[l.thread]
       THEN answer' = [answer EXCEPT !.verified = (l.turn \in checked)] /\ thread' = Stored(l.thread)
       ELSE UNCHANGED <<answer, thread>>
    /\ checking' = (answer'.turn # 0 /\ ~answer'.verified)
    /\ UNCHANGED <<mode, threadId, turnId, stream, operation, controller, request, finding, turns, checked, issued>>

\* The server completes the verification of a turn (VerificationJobs).
Verify(u) ==
    /\ u \notin checked /\ \E t \in Threads : u \in turns[t]
    /\ checked' = checked \cup {u}
    /\ UNCHANGED <<mode, shown, operation, controller, request, loads, finding, turns, checking, issued>>
-----------------------------------------------------------------------------
(* Discovery.                                                               *)

RunDiscovery ==
    /\ mode = "discover" /\ StartRequest("search", None)
    /\ discovery' = NoDiscovery
    /\ UNCHANGED <<mode, shown, loads, turns, checking, checked>>

SearchArrives(r, related) ==
    /\ request[r].kind = "search" /\ request[r].pc = "waiting"
    /\ request' = [request EXCEPT ![r].pc = "done"] /\ Finish(r)
    /\ discovery' = IF Current(r) THEN [exact |-> r, related |-> IF related THEN r ELSE 0] ELSE discovery
    /\ UNCHANGED <<mode, shown, loads, page, pageController, turns, checking, issued, checked>>

\* loadDiscoveryPage, of the results that are shown.
LoadDiscoveryPage ==
    LET p == issued.pages + 1 IN
    /\ discovery # NoDiscovery /\ operation = "none" /\ pageController = 0
    /\ issued.pages < MaxPages /\ issued' = [issued EXCEPT !.pages = p]
    /\ page' = [page EXCEPT ![p] = [of |-> discovery, aborted |-> FALSE, pc |-> "waiting"]]
    /\ pageController' = p
    /\ UNCHANGED <<mode, shown, operation, controller, request, loads, discovery, turns, checking, checked>>

\* A page replaces the exact matches; related ones are those it was loaded for.
PageArrives(p, ok) ==
    /\ page[p].pc = "waiting" /\ page' = [page EXCEPT ![p].pc = "done"]
    /\ discovery' = IF ok /\ ~page[p].aborted THEN page[p].of ELSE discovery
    /\ pageController' = IF pageController = p THEN 0 ELSE pageController
    /\ UNCHANGED <<mode, shown, operation, controller, request, loads, turns, checking, issued, checked>>
-----------------------------------------------------------------------------
User ==
    \/ Stop \/ ChangeMode \/ RunDiscovery \/ LoadDiscoveryPage \/ DeleteThread
    \/ \E t \in Threads : SelectThread(t) \/ CreateThread(t)
    \/ \E u \in Turns : SelectHistoricalTurn(u)
    \/ \E titled \in BOOLEAN : AskQuestion(titled)
Respond(r) ==
    \/ \E t \in Threads : ResolveThread(r, t)
    \/ AnswerCompletes(r) \/ RequestFails(r) \/ \E b \in BOOLEAN : SearchArrives(r, b)
Arrive(l) ==
    LoadArrives(l) \/ ThreadCreated(l) \/ ThreadDeleted(l) \/ LoadFails(l) \/ VerificationArrives(l)
Next ==
    \/ User \/ RefreshVerification \/ \E u \in Turns : Verify(u)
    \/ \E r \in Requests : Respond(r) \/ StreamUpdate(r)
    \/ \E l \in loads : Arrive(l)
    \/ \E p \in 1 .. MaxPages, ok \in BOOLEAN : PageArrives(p, ok)

Spec == Init /\ [][Next]_vars
\* Every fetch ends: with its response, with an error, or because it was aborted.
Fairness ==
    /\ \A r \in Requests : WF_vars(Respond(r))
    /\ WF_vars(\E l \in loads : l.kind = "load" /\ l.by # 0 /\ Arrive(l))
    /\ \A p \in 1 .. MaxPages : WF_vars(\E ok \in BOOLEAN : PageArrives(p, ok))

FairSpec == Spec /\ Fairness
-----------------------------------------------------------------------------
\* The page is busy exactly while it holds a controller, of a request that is not
\* aborted and has not ended.
TypeOK ==
    /\ mode \in {"ask", "discover"} /\ threadId \in Threads \cup {None} /\ thread.id \in Threads \cup {None}
    /\ turnId \in 0 .. MaxRequests /\ stream \in 0 .. MaxRequests /\ answer.turn \in 0 .. MaxRequests
    /\ operation \in {"none", "answer", "search"} /\ controller \in 0 .. MaxRequests
    /\ (controller = 0) = (operation = "none")
    /\ controller # 0 => request[controller].kind = operation /\ ~request[controller].aborted
                         /\ request[controller].pc # "done"
    /\ pageController # 0 => ~page[pageController].aborted /\ page[pageController].pc = "waiting"

\* The thread on the page, with its title, its turns and its delete button, is the
\* selected one, in whatever order the responses for several threads arrive.
ShownThreadIsSelected == thread.id \in {None, threadId}

\* Results on the page are those of the latest search, or its search is still running:
\* a page asked for earlier results never brings them back.
LatestSearchIsShown ==
    \A r \in Requests : discovery.exact = r =>
        \A q \in Requests : q > r => request[q].kind # "search"

\* What a question or a search brings after it was stopped, or after another took
\* over, does not reach the page.  (The thread that is read again after an answer
\* is shown while it is the selected one.)
StoppedIsSilent == \A r \in Requests :
    request[r].aborted /\ request[r].pc # "loading" /\ request'[r].pc # request[r].pc => UNCHANGED <<answer, stream, discovery>>

\* An answer is shown as verified only when the verification of its own turn has
\* completed, although refreshes of other turns arrive late.
VerifiedIsChecked == answer.verified => answer.turn \in checked

\* The page does not stay busy: whatever ends a request gives the controls back.
PageBecomesIdle == operation # "none" ~> operation = "none"
=============================================================================
