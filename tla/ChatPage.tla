------------------------------ MODULE ChatPage ------------------------------
(***************************************************************************)
(* The Chat page of the browser: selecting, sending, creating and deleting *)
(* chats and polling their verification.  Everything between two awaits of *)
(* the script is one step; responses arrive in any order, and the server   *)
(* may answer a request at any time before its response arrives.           *)
(***************************************************************************)
EXTENDS Naturals, FiniteSets

CONSTANTS
    Chats,
    MaxRequests,    \* bound: messages sent, which also number the runs
    MaxLoads,       \* bound: responses under way at a time
    MaxSelections,  \* bound: chats selected by the user
    MaxFailures,    \* bound: requests that end in an error
    None

ChatPageAssumption == None \notin Chats /\ {MaxRequests, MaxLoads, MaxSelections, MaxFailures} \subseteq Nat

Requests == 1 .. MaxRequests
Loads == 1 .. MaxLoads

\* A run as the server stores it; the page adds the run it is streaming.
\* "active" stands for the states between acceptance and publication.
StoredStates == {"none", "active", "completed", "verified", "failed"}
ViewStates == StoredStates \cup {"streaming"}
Flows == {"none", "sending", "confirming", "deleting", "deleted", "creating", "listing", "selecting"}

VARIABLES
    chats,      \* the chats the server has
    runs,       \* the server's runs: chat and state
    shown,      \* this.conversation.id, or None
    view,       \* the runs of this.conversation
    listed,     \* this.conversations
    flow,       \* the operation that holds the page, with the chat it is about
    load,       \* responses to selections and verification refreshes
    timer,      \* the verification refresh timer
    sent, selections, failures,
    confirmed, deleted      \* what the last confirmation named and the last DELETE removed

vars == <<chats, runs, shown, view, listed, flow, load, timer, sent, selections, failures, confirmed, deleted>>

NoRun == [chat |-> None, state |-> "none"]
NoLoad == [kind |-> "none", chat |-> None, answered |-> FALSE, runs |-> [r \in Requests |-> "none"]]
Idle == [op |-> "none", chat |-> None, request |-> 0, load |-> 0]
Empty == [r \in Requests |-> "none"]

Init ==
    /\ chats \in SUBSET Chats /\ runs = [r \in Requests |-> NoRun]
    /\ shown = None /\ view = Empty /\ listed = chats
    /\ flow = Idle /\ load = [l \in Loads |-> NoLoad] /\ timer = FALSE
    /\ sent = 0 /\ selections = 0 /\ failures = 0
    /\ confirmed = None /\ deleted = None

server == <<chats, runs>>
page == <<shown, view, listed, timer>>
counts == <<sent, selections, failures>>
ghosts == <<confirmed, deleted>>
-----------------------------------------------------------------------------
\* busy is set by every operation except the wait for a confirmation.
Busy == flow.op \notin {"none", "confirming"}
Pending(v) == \E r \in Requests : v[r] \in {"streaming", "completed"}
Snapshot(c) == [r \in Requests |-> IF runs[r].chat = c THEN runs[r].state ELSE "none"]

Free == {l \in Loads : load[l] = NoLoad}
Slot == CHOOSE l \in Free : \A k \in Free : l <= k
Asked(kind, c) ==
    /\ Free # {} /\ load' = [load EXCEPT ![Slot] = [NoLoad EXCEPT !.kind = kind, !.chat = c]]

\* selectConversation from the chat switcher; nothing fences an earlier selection.
SelectConversation(c) ==
    /\ c \in listed /\ flow.op # "confirming"
    /\ selections < MaxSelections /\ selections' = selections + 1
    /\ timer' = FALSE /\ Asked("select", c)
    /\ UNCHANGED <<server, shown, view, listed, flow, sent, failures, ghosts>>

\* The server reads the chat at some instant between request and response.
AnswerLoad(l) ==
    /\ load[l].kind \in {"select", "refresh"} /\ ~load[l].answered
    /\ load[l].chat \in chats
    /\ load' = [load EXCEPT ![l].answered = TRUE, ![l].runs = Snapshot(load[l].chat)]
    /\ UNCHANGED <<server, page, flow, counts, ghosts>>

NeverSettled(l) == flow
Settled(l) == IF flow.op = "selecting" /\ flow.load = l THEN Idle ELSE flow

Selected(l) ==
    /\ load[l].kind = "select" /\ load[l].answered
    /\ shown' = load[l].chat /\ view' = load[l].runs /\ timer' = Pending(load[l].runs)
    /\ load' = [load EXCEPT ![l] = NoLoad] /\ flow' = Settled(l)
    /\ UNCHANGED <<server, listed, counts, ghosts>>

\* A chat that is gone is answered with an error; others only fail by accident.
SelectionFails(l) ==
    /\ load[l].kind = "select"
    /\ failures' = IF load[l].chat \in chats THEN failures + 1 ELSE failures
    /\ failures' <= MaxFailures
    /\ load' = [load EXCEPT ![l] = NoLoad] /\ flow' = Settled(l)
    /\ UNCHANGED <<server, page, sent, selections, ghosts>>

\* The timer of the verification polling fires.
RefreshVerification ==
    /\ timer /\ timer' = FALSE /\ shown # None /\ Asked("refresh", shown)
    /\ UNCHANGED <<server, shown, view, listed, flow, counts, ghosts>>

\* applyChatVerificationUpdate: messages that are streaming are left alone, and
\* the verification of every message both sides have is that of the response,
\* also when the page has learned a verdict that the response is too old to know.
MergedAll(v, s) == s
Merged(v, s) == [r \in Requests |-> IF {v[r], s[r]} \subseteq {"completed", "verified"} THEN s[r] ELSE v[r]]

RefreshedOnce(l) ==
    /\ load[l].kind = "refresh" /\ load[l].answered
    /\ view' = IF shown = load[l].chat THEN Merged(view, load[l].runs) ELSE view
    /\ load' = [load EXCEPT ![l] = NoLoad]
    /\ UNCHANGED <<server, shown, timer, listed, flow, counts, ghosts>>
Refreshed(l) ==
    /\ load[l].kind = "refresh" /\ load[l].answered
    /\ view' = IF shown = load[l].chat THEN Merged(view, load[l].runs) ELSE view
    /\ timer' = Pending(view') /\ load' = [load EXCEPT ![l] = NoLoad]
    /\ UNCHANGED <<server, shown, listed, flow, counts, ghosts>>

\* runVerificationRefresh swallows the error and schedules the next refresh.
RefreshFails(l) ==
    /\ load[l].kind = "refresh"
    /\ failures' = IF load[l].chat \in chats THEN failures + 1 ELSE failures
    /\ failures' <= MaxFailures
    /\ timer' = Pending(view) /\ load' = [load EXCEPT ![l] = NoLoad]
    /\ UNCHANGED <<server, shown, view, listed, flow, sent, selections, ghosts>>
-----------------------------------------------------------------------------
\* sendMessage up to its first await: a pending run is added to the chat.
SendMessage ==
    /\ shown # None /\ flow.op = "none" /\ sent < MaxRequests
    /\ sent' = sent + 1
    /\ flow' = [Idle EXCEPT !.op = "sending", !.chat = shown, !.request = sent + 1]
    /\ view' = [view EXCEPT ![sent + 1] = "streaming"]
    /\ UNCHANGED <<server, shown, listed, load, timer, selections, failures, ghosts>>

\* The server accepts the message, publishes or fails the run and verifies it,
\* whether or not the page still listens.
Accept ==
    /\ flow.op = "sending" /\ flow.chat \in chats /\ runs[flow.request] = NoRun
    /\ runs' = [runs EXCEPT ![flow.request] = [chat |-> flow.chat, state |-> "active"]]
    /\ UNCHANGED <<chats, page, flow, load, counts, ghosts>>

Advance(r, from, to) ==
    /\ runs[r].state = from /\ runs' = [runs EXCEPT ![r].state = to]
    /\ UNCHANGED <<chats, page, flow, load, counts, ghosts>>
Publish(r) == Advance(r, "active", "completed")
FailRun(r) == Advance(r, "active", "failed")
Verify(r) == Advance(r, "completed", "verified")

\* busy is released; the list is read again without holding the page.
Released == Idle

\* data-chat: the completed run takes the place of the pending one.
Replaced(r) == [view EXCEPT ![r] = "completed"]

CompletedAnywhere ==
    LET r == flow.request IN
    /\ flow.op = "sending" /\ runs[r].state \in {"completed", "verified"} /\ shown # None
    /\ view' = Replaced(r) /\ timer' = TRUE
    /\ flow' = Released /\ listed' = chats
    /\ UNCHANGED <<server, shown, load, counts, ghosts>>
MessageCompleted ==
    LET r == flow.request IN
    /\ flow.op = "sending" /\ runs[r].state \in {"completed", "verified"} /\ shown = flow.chat
    /\ view' = Replaced(r) /\ timer' = TRUE
    /\ flow' = Released /\ listed' = chats
    /\ UNCHANGED <<server, shown, load, counts, ghosts>>

\* The stream fails, ends without a result, or its result belongs to a chat
\* that is not shown any more: failPendingChatRun.  A run read from the server
\* meanwhile is only marked when it was being generated.
SpinnerKept(v, r) == {v}
ErrorState(v, r) == {[v EXCEPT ![r] = "error"]}
FailedView(v, r) ==
    CASE v[r] = "streaming" -> {[v EXCEPT ![r] = "failed"]}
      [] v[r] = "active" -> {v, [v EXCEPT ![r] = "failed"]}
      [] OTHER -> {v}

MessageFails ==
    LET r == flow.request IN
    /\ flow.op = "sending"
    /\ failures' = IF runs[r].state = "failed" \/ flow.chat \notin chats \/ shown # flow.chat
                   THEN failures ELSE failures + 1
    /\ failures' <= MaxFailures
    /\ IF shown = flow.chat THEN view' \in FailedView(view, r) ELSE view' = view
    /\ flow' = Released /\ listed' = chats
    /\ UNCHANGED <<server, shown, timer, load, sent, selections, ghosts>>
-----------------------------------------------------------------------------
\* deleteConversation: the dialog names the chat that is shown.
AskToDelete ==
    /\ shown # None /\ flow.op = "none"
    /\ flow' = [Idle EXCEPT !.op = "confirming", !.chat = shown]
    /\ UNCHANGED <<server, page, load, counts, ghosts>>
KeepChat ==
    /\ flow.op = "confirming" /\ flow' = Idle
    /\ UNCHANGED <<server, page, load, counts, ghosts>>

\* The chat that is deleted is read again after the confirmation.
ConfirmDelete ==
    /\ flow.op = "confirming"
    /\ flow' = [flow EXCEPT !.op = "deleting", !.chat = shown]
    /\ confirmed' = flow.chat
    /\ UNCHANGED <<server, page, load, counts, deleted>>

\* The server removes the chat with its runs.
Without(c) ==
    /\ c \in chats /\ chats' = chats \ {c}
    /\ runs' = [r \in Requests |-> IF runs[r].chat = c THEN NoRun ELSE runs[r]]
ServerDeletes ==
    /\ flow.op = "deleting" /\ Without(flow.chat)
    /\ flow' = [flow EXCEPT !.op = "deleted"] /\ deleted' = flow.chat
    /\ UNCHANGED <<page, load, counts, confirmed>>

\* Its response arrives: the page lets go of whatever it shows by then.
DeleteConversation ==
    /\ flow.op = "deleted"
    /\ shown' = None /\ view' = Empty /\ timer' = FALSE
    /\ flow' = [flow EXCEPT !.op = "listing", !.chat = None]
    /\ UNCHANGED <<server, listed, load, counts, ghosts>>

\* The chat was deleted before, or the request or its response is lost.
DeleteFails ==
    /\ flow.op \in {"deleting", "deleted"}
    /\ failures' = IF flow.op = "deleting" /\ flow.chat \notin chats THEN failures ELSE failures + 1
    /\ failures' <= MaxFailures /\ flow' = Idle
    /\ UNCHANGED <<server, page, load, sent, selections, ghosts>>

\* createConversation: the new chat is selected once the list was read.
CreateConversation ==
    /\ flow.op = "none" /\ flow' = [Idle EXCEPT !.op = "creating"]
    /\ UNCHANGED <<server, page, load, counts, ghosts>>
Created(c) ==
    /\ flow.op = "creating" /\ c \in Chats \ chats
    /\ \A r \in Requests : runs[r].chat # c /\ \A l \in Loads : load[l].chat # c
    /\ shown # c /\ deleted # c
    /\ chats' = chats \cup {c} /\ flow' = [flow EXCEPT !.op = "listing", !.chat = c]
    /\ UNCHANGED <<runs, page, load, counts, ghosts>>
CreateFails ==
    /\ flow.op = "creating" /\ flow' = Idle
    /\ UNCHANGED <<server, page, load, counts, ghosts>>

\* refreshConversations, then the new chat or the first of the list is selected.
\* The loading page does the same with the first list.
Listed ==
    /\ flow.op = "listing" /\ listed' = chats
    /\ IF flow.chat = None /\ chats = {}
       THEN flow' = Idle /\ UNCHANGED <<timer, load>>
       ELSE \E c \in IF flow.chat = None THEN chats ELSE {flow.chat} :
                /\ Asked("select", c) /\ timer' = FALSE
                /\ flow' = [Idle EXCEPT !.op = "selecting", !.chat = c, !.load = Slot]
    /\ UNCHANGED <<server, shown, view, counts, ghosts>>

\* Another page of the same user deletes a chat.
DeleteElsewhere(c) ==
    /\ failures < MaxFailures /\ failures' = failures + 1
    /\ Without(c)
    /\ UNCHANGED <<page, flow, load, sent, selections, ghosts>>
-----------------------------------------------------------------------------
Next ==
    \/ \E c \in Chats : SelectConversation(c) \/ Created(c) \/ DeleteElsewhere(c)
    \/ \E l \in Loads : AnswerLoad(l) \/ Selected(l) \/ SelectionFails(l) \/ Refreshed(l) \/ RefreshFails(l)
    \/ \E r \in Requests : Publish(r) \/ FailRun(r) \/ Verify(r)
    \/ RefreshVerification \/ SendMessage \/ Accept \/ MessageCompleted \/ MessageFails
    \/ AskToDelete \/ KeepChat \/ ConfirmDelete \/ ServerDeletes \/ DeleteConversation \/ DeleteFails
    \/ CreateConversation \/ CreateFails \/ Listed

Spec == Init /\ [][Next]_vars

\* Requests are answered and timers fire; nobody has to use the page.
\* Only the bound on responses can hold up a timer or a list, hence SF.
Fairness ==
    /\ SF_vars(RefreshVerification) /\ SF_vars(Listed) /\ WF_vars(Accept)
    /\ WF_vars(MessageCompleted) /\ WF_vars(MessageFails)
    /\ WF_vars(ServerDeletes) /\ WF_vars(DeleteConversation) /\ WF_vars(DeleteFails) /\ WF_vars(CreateFails)
    /\ \A l \in Loads :
          /\ WF_vars(AnswerLoad(l)) /\ WF_vars(Selected(l)) /\ WF_vars(SelectionFails(l))
          /\ WF_vars(Refreshed(l)) /\ WF_vars(RefreshFails(l))
    /\ \A r \in Requests : WF_vars(Publish(r) \/ FailRun(r)) /\ WF_vars(Verify(r))

FairSpec == Spec /\ Fairness
-----------------------------------------------------------------------------
\* The variables hold values of the expected sets.
TypeOK ==
    /\ chats \subseteq Chats /\ listed \subseteq Chats /\ shown \in Chats \cup {None}
    /\ \A r \in Requests : runs[r].state \in StoredStates /\ runs[r].chat \in Chats \cup {None}
    /\ view \in [Requests -> ViewStates] /\ timer \in BOOLEAN
    /\ flow.op \in Flows /\ flow.chat \in Chats \cup {None} /\ flow.load \in 0 .. MaxLoads
    /\ \A l \in Loads : load[l].runs \in [Requests -> StoredStates]
    /\ sent <= MaxRequests /\ selections <= MaxSelections /\ failures <= MaxFailures

\* The chat on the page only holds its own messages: a stream that goes on
\* after the user moved to another chat writes nothing there, and a deleted
\* chat leaves nothing behind (the id comparisons of sendMessage and
\* refreshVerification).
RunsStayInTheirChat ==
    \A r \in Requests :
        view[r] # "none" =>
            \/ runs[r].chat = shown
            \/ runs[r].chat = None /\ (shown \notin chats \/ (flow.op = "sending" /\ flow.chat = shown)
                                       \/ view[r] = "failed")

\* A message is shown as being written only while its request is open: when a
\* request ends, in any way and on whatever chat the page is by then, no
\* spinner stays (replaceChatRun and failPendingChatRun).
StreamingIsOpen ==
    \A r \in Requests : view[r] = "streaming" => flow.op = "sending" /\ flow.request = r /\ flow.chat = shown

\* Polling moves verdicts and nothing else: a verification refresh, however old
\* its response, adds and removes no message and ends no stream.  Responses are
\* fenced by the chat alone, so one that was read before the page learned a
\* verdict takes it back; then the page polls again (applyChatVerificationUpdate,
\* runVerificationRefresh).
RefreshMovesOnlyVerdicts ==
    (\E l \in Loads : Refreshed(l))
      => \A r \in Requests :
            \/ view'[r] = view[r]
            \/ view[r] = "completed" /\ view'[r] = "verified"
            \/ view[r] = "verified" /\ view'[r] = "completed" /\ timer'

\* The chat that is deleted is the one the confirmation dialog named.
DeletesWhatWasConfirmed == [][deleted' # deleted => deleted' = confirmed]_vars

\* As long as requests are answered, an answer shown as unchecked does not stay
\* so after its verification, unless the chat is deleted: one refresh always brings about the next one.
VerdictIsShown == \A r \in Requests :
    (view[r] = "completed" /\ runs[r].state = "verified")
        ~> (view[r] # "completed" \/ runs[r] = NoRun)

\* The page is not held by an operation for ever.
PageIsReleased == (Busy ~> ~Busy)
=============================================================================
