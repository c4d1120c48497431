------------------------------ MODULE Research ------------------------------
(***************************************************************************)
(* Research threads: an answer is validated, taken apart into the rows of  *)
(* six tables, published in one transaction that the database checks       *)
(* again, verified later, and put together for every reader from queries   *)
(* that do not share a snapshot.  Deleting a document removes the turns    *)
(* that used it while answers are saved and read.                          *)
(***************************************************************************)
EXTENDS Naturals, FiniteSets, Sequences, SequencesExt

CONSTANTS
    Threads, Turns,         \* ids, each used once
    Files, Citations,
    CitedFile,              \* the file of a citation
    MaxStatements,          \* bound: statements of an answer
    Savers, Workers, Readers, Deleters, Users,
    MaxAttempts,            \* bound: claims of a verification job
    None

ResearchAssumption ==
    /\ CitedFile \in [Citations -> Files] /\ MaxStatements \in Nat /\ MaxAttempts \in Nat
    /\ None \notin Threads \cup Turns \cup Files \cup Citations

Numbers == 1 .. Cardinality(Citations)
Cites == BoundedSeq([id : Citations, n : Numbers], Cardinality(Citations))
Links == BoundedSeq(Citations, Cardinality(Citations))
Documents == [cites : Cites, statements : BoundedSeq(Links, MaxStatements)]
Tables == {"citations", "statements", "links", "checks", "units", "job"}

VARIABLES
    answer,     \* the answer that each saver has to save
    thread,     \* research_threads
    versions,   \* files whose document version exists
    turn,       \* research_turns
    rows,       \* the rows of a turn in the other tables
    feedback,   \* research_feedback
    saver, worker, reader, deleter, user

vars == <<answer, thread, versions, turn, rows, feedback, saver, worker, reader, deleter, user>>
tables == <<answer, thread, versions, turn, rows, feedback>>

NoRows == [x \in Tables |-> {}]
NoTurn == [state |-> "none", thread |-> None, seq |-> 0, content |-> None, context |-> {}]
Idle == [pc |-> "idle"]

-----------------------------------------------------------------------------
(* Published answers.                                                       *)

Ids(cites) == {cites[i].id : i \in DOMAIN cites}
NumberOf(cites, c) == (CHOOSE x \in ToSet(cites) : x.id = c).n
NoRepeats(s) == \A i, j \in DOMAIN s : s[i] = s[j] => i = j

\* decodePublishedAnswerDocument.
Decodable(d) ==
    /\ d.cites = <<>> <=> d.statements = <<>>
    /\ NoRepeats([i \in DOMAIN d.cites |-> d.cites[i].id])
    /\ NoRepeats([i \in DOMAIN d.cites |-> d.cites[i].n])
    /\ \A k \in DOMAIN d.statements :
          /\ d.statements[k] # <<>> /\ NoRepeats(d.statements[k])
          /\ ToSet(d.statements[k]) \subseteq Ids(d.cites)
    /\ Ids(d.cites) \subseteq UNION {ToSet(d.statements[k]) : k \in DOMAIN d.statements}

ByNumber(a, b) == a.n < b.n
\* normalizePublishedAnswerDocument.
Normalized(d) == [d EXCEPT !.cites = SetToSortSeq(ToSet(d.cites), ByNumber)]

\* readPublishedAnswerClaims.
Claims(d) == [k \in DOMAIN d.statements |->
    [index |-> k - 1,
     numbers |-> [i \in DOMAIN d.statements[k] |-> NumberOf(d.cites, d.statements[k][i])]]]

\* validateTurnCollections.
Collected(d, claims) ==
    /\ \A i \in DOMAIN d.cites : d.cites[i].n = i
    /\ claims = Claims(d)

Accepted == {Normalized(d) : d \in {x \in Documents : Decodable(x)
                                       /\ Collected(Normalized(x), Claims(Normalized(x)))}}

Init ==
    /\ answer \in [Savers -> Accepted]
    /\ thread = [h \in Threads |-> "none"] /\ versions = Files /\ feedback = {}
    /\ turn = [t \in Turns |-> NoTurn] /\ rows = [t \in Turns |-> NoRows]
    /\ saver = [s \in Savers |-> Idle] /\ worker = [w \in Workers |-> Idle]
    /\ reader = [r \in Readers |-> Idle] /\ deleter = [d \in Deleters |-> Idle]
    /\ user = [u \in Users |-> Idle]

Units(k, links, verdict) ==
    {[statement |-> k - 1, pos |-> i - 1, citation |-> links[i], verdict |-> verdict] :
        i \in DOMAIN links}
\* What saveTurn inserts; the checks are those of claims not yet verified.
RowsOf(d) ==
    [citations |-> ToSet(d.cites),
     statements |-> {k - 1 : k \in DOMAIN d.statements},
     links |-> UNION {{[statement |-> k - 1, pos |-> i - 1, citation |-> d.statements[k][i]] :
                       i \in DOMAIN d.statements[k]} : k \in DOMAIN d.statements},
     checks |-> {[statement |-> k - 1, verdict |-> 0] : k \in DOMAIN d.statements},
     units |-> UNION {Units(k, d.statements[k], 0) : k \in DOMAIN d.statements},
     job |-> IF d.statements = <<>> THEN {} ELSE {[state |-> "pending", attempt |-> 0]}]

Of(x, k) == {y \in x : y.statement = k}
Positions(x) == {y.pos : y \in x}
FromZero(x) == Positions(x) = 0 .. Cardinality(x) - 1
\* assert_research_turn_output.
Complete(x) ==
    \/ x.citations = {} /\ x.statements = {} /\ x.links = {}
    \/ /\ x.citations # {} /\ x.statements # {} /\ x.links # {}
       /\ Cardinality(x.checks) = Cardinality(x.statements)
       /\ {c.n : c \in x.citations} = 1 .. Cardinality(x.citations)
       /\ x.statements = 0 .. Cardinality(x.statements) - 1
       /\ \A k \in x.statements : Of(x.links, k) # {} /\ FromZero(Of(x.links, k))
       /\ \A c \in x.citations : \E l \in x.links : l.citation = c.id
       /\ \A c \in x.checks :
             /\ Cardinality(Of(x.links, c.statement)) = Cardinality(Of(x.units, c.statement))
             /\ FromZero(Of(x.units, c.statement))
-----------------------------------------------------------------------------
(* Threads and turns.                                                       *)

Saved == {t \in Turns : turn[t].state = "published"}
TurnsOf(h) == {t \in Saved : turn[t].thread = h}
\* Turns that are deleted with a commit still to come: their rows are locked.
Held(t) == \E d \in Deleters : deleter[d].pc = "judged" /\ t \in deleter[d].turns
Writing(h) == \E s \in Savers : saver[s].pc = "writing" /\ saver[s].thread = h
Gone == [NoTurn EXCEPT !.state = "gone"]
Existing == {h \in Threads : thread[h] = "open"}

\* A turn takes its rows, its job and its feedback with it.
Delete(ts) ==
    /\ turn' = [t \in Turns |-> IF t \in ts THEN Gone ELSE turn[t]]
    /\ rows' = [t \in Turns |-> IF t \in ts THEN NoRows ELSE rows[t]]
    /\ feedback' = {f \in feedback : f.turn \notin ts}

DeleteThreads(hs) == thread' = [h \in Threads |-> IF h \in hs THEN "gone" ELSE thread[h]]

\* createThread: one title, so the thread that exists is the one that is meant.
CreateThread(h) ==
    /\ Existing = {} /\ thread[h] = "none"
    /\ thread' = [thread EXCEPT ![h] = "open"]
    /\ UNCHANGED <<answer, versions, turn, rows, feedback, saver, worker, reader, deleter, user>>

DeleteThread(h) ==
    /\ h \in Existing /\ ~Writing(h) /\ \A t \in TurnsOf(h) : ~Held(t)
    /\ DeleteThreads({h}) /\ Delete(TurnsOf(h))
    /\ UNCHANGED <<answer, versions, saver, worker, reader, deleter, user>>
-----------------------------------------------------------------------------
(* Saving a turn.                                                           *)

FilesOf(d) == {CitedFile[c] : c \in Ids(d.cites)}

\* saveTurn up to the anchors: the input is decoded and normalized.
BeginSave(s, h, context) ==
    /\ saver[s] = Idle /\ h \in Existing
    /\ FilesOf(answer[s]) \subseteq context /\ context \subseteq versions
    /\ saver' = [saver EXCEPT ![s] =
          [pc |-> "decoded", thread |-> h, content |-> answer[s], context |-> context, seq |-> 0]]
    /\ UNCHANGED <<tables, worker, reader, deleter, user>>

StopSave(s) == saver' = [saver EXCEPT ![s] = Idle]

\* An abort signal, a missing anchor or thread, a refused insert: all is undone.
FailSave(s) ==
    /\ saver[s].pc # "idle" /\ StopSave(s)
    /\ UNCHANGED <<tables, worker, reader, deleter, user>>

\* validateCitationAnchors.
ValidateAnchors(s) ==
    /\ saver[s].pc = "decoded" /\ FilesOf(saver[s].content) \subseteq versions
    /\ saver' = [saver EXCEPT ![s].pc = "anchored"]
    /\ UNCHANGED <<tables, worker, reader, deleter, user>>

LastOf(h) == {0} \cup {turn[t].seq : t \in TurnsOf(h)}
\* A bug: the thread is read without FOR UPDATE.
TakeUnlocked(s) ==
    /\ saver[s].pc = "anchored" /\ saver[s].thread \in Existing
    /\ saver' = [saver EXCEPT ![s].pc = "writing",
          ![s].seq = (CHOOSE n \in LastOf(saver[s].thread) : \A m \in LastOf(saver[s].thread) : n >= m) + 1]
    /\ UNCHANGED <<tables, worker, reader, deleter, user>>
\* The thread is locked and the next sequence number read.
TakeThread(s) ==
    /\ saver[s].pc = "anchored" /\ saver[s].thread \in Existing /\ ~Writing(saver[s].thread)
    /\ saver' = [saver EXCEPT ![s].pc = "writing",
          ![s].seq = (CHOOSE n \in LastOf(saver[s].thread) : \A m \in LastOf(saver[s].thread) : n >= m) + 1]
    /\ UNCHANGED <<tables, worker, reader, deleter, user>>

\* What the database checks of the turn that saver s is about to publish.
Publishable(s) ==
    /\ Complete(RowsOf(saver[s].content))
    /\ \A t \in TurnsOf(saver[s].thread) : turn[t].seq # saver[s].seq

\* The transaction commits; its citations need their versions to exist.
Publish(s, t) ==
    /\ saver[s].pc = "writing" /\ turn[t].state = "none"
    /\ Publishable(s) /\ FilesOf(saver[s].content) \subseteq versions
    /\ turn' = [turn EXCEPT ![t] =
          [state |-> "published", thread |-> saver[s].thread, seq |-> saver[s].seq,
           content |-> saver[s].content, context |-> saver[s].context]]
    /\ rows' = [rows EXCEPT ![t] = RowsOf(saver[s].content)]
    /\ StopSave(s) /\ UNCHANGED <<answer, thread, versions, feedback, worker, reader, deleter, user>>
-----------------------------------------------------------------------------
(* Verification.                                                            *)

\* A worker that dies leaves its job to the next, once its lease expires.
Claimable(t) == t \in Saved /\ ~Held(t)
                /\ \E j \in rows[t].job : j.state \in {"pending", "running"} /\ j.attempt < MaxAttempts

SetJob(t, j) == rows' = [rows EXCEPT ![t].job = {j}]

ClaimJob(w, t) == \E j \in rows[t].job :
    /\ worker[w] = Idle /\ Claimable(t) /\ SetJob(t, [state |-> "running", attempt |-> j.attempt + 1])
    /\ worker' = [worker EXCEPT ![w] = [pc |-> "verifying", turn |-> t, attempt |-> j.attempt + 1]]
    /\ UNCHANGED <<answer, thread, versions, turn, feedback, saver, reader, deleter, user>>

\* A bug: the attempt is not compared.
AnyAttempt(w) == rows[worker[w].turn].job # {} /\ ~Held(worker[w].turn)
Leases(w) ==
    /\ [state |-> "running", attempt |-> worker[w].attempt] \in rows[worker[w].turn].job
    /\ ~Held(worker[w].turn)

\* A verifier's result: the verdicts of some statements, each for some of its links.
Results(x) == {[statements |-> ks, lost |-> lost] : ks \in SUBSET x.statements, lost \in {0, 1}}

\* replaceVerificationResults, when every claim has a result.
Replaced(x, result, a) ==
    [x EXCEPT !.checks = {[statement |-> c.statement,
            verdict |-> IF c.statement \in result.statements THEN a ELSE c.verdict] : c \in @},
        !.units = {[statement |-> l.statement, pos |-> l.pos - result.lost,
                    citation |-> l.citation, verdict |-> a] : l \in {y \in x.links :
            y.statement \in result.statements /\ y.pos >= result.lost}},
        !.job = {[state |-> "completed", attempt |-> a]}]

StopWork(w) == worker' = [worker EXCEPT ![w] = Idle]

\* completeVerificationJob, in one transaction that is checked like the first.
CompleteJob(w, result) ==
    LET t == worker[w].turn
        x == Replaced(rows[t], result, worker[w].attempt)
    IN  /\ worker[w].pc = "verifying" /\ Leases(w)
        /\ result.statements = {c.statement : c \in rows[t].checks} /\ Complete(x)
        /\ rows' = [rows EXCEPT ![t] = x] /\ StopWork(w)
        /\ UNCHANGED <<answer, thread, versions, turn, feedback, saver, reader, deleter, user>>

\* settleVerificationFailure and releaseVerificationJob.
SettleJob(w, state) ==
    /\ worker[w].pc = "verifying" /\ Leases(w) /\ StopWork(w)
    /\ SetJob(worker[w].turn, [state |-> state, attempt |-> worker[w].attempt])
    /\ UNCHANGED <<answer, thread, versions, turn, feedback, saver, reader, deleter, user>>

\* The worker finds its lease lost, or it crashes.
LeaveJob(w) ==
    /\ worker[w].pc = "verifying" /\ StopWork(w)
    /\ UNCHANGED <<tables, saver, reader, deleter, user>>
-----------------------------------------------------------------------------
(* Feedback.                                                                *)

\* validateFeedbackTarget.
CheckTarget(u, t, c) ==
    /\ user[u] = Idle /\ t \in Saved /\ c \in {None} \cup {x.id : x \in rows[t].citations}
    /\ user' = [user EXCEPT ![u] = [pc |-> "checked", turn |-> t, citation |-> c]]
    /\ UNCHANGED <<tables, saver, worker, reader, deleter>>

StopRating(u) == user' = [user EXCEPT ![u] = Idle]
Vote(u, rating) ==
    [user |-> u, turn |-> user[u].turn, citation |-> user[u].citation, rating |-> rating]
Earlier(u) == {f \in feedback : \E r \in {1, 2} : f = Vote(u, r)}

\* addFeedback: a second vote replaces the first; a missing turn refuses it.
AddFeedback(u, rating) ==
    /\ user[u].pc = "checked" /\ StopRating(u)
    /\ user[u].turn \in Saved /\ ~Held(user[u].turn)
    /\ feedback' = (feedback \ Earlier(u)) \cup {Vote(u, rating)}
    /\ UNCHANGED <<answer, thread, versions, turn, rows, saver, worker, reader, deleter>>

FailFeedback(u) ==
    /\ user[u].pc = "checked" /\ user[u].turn \notin Saved /\ StopRating(u)
    /\ UNCHANGED <<tables, saver, worker, reader, deleter>>
-----------------------------------------------------------------------------
(* Deleting a document.                                                     *)

Associated(f) == {t \in Saved : f \in turn[t].context}

\* deleteResearchQuestionsForSource: the turns that used the file are selected.
ChooseTurns(d, f) ==
    /\ deleter[d] = Idle /\ f \in versions
    /\ deleter' = [deleter EXCEPT ![d] =
          [pc |-> "chosen", file |-> f, turns |-> Associated(f),
           threads |-> {turn[t].thread : t \in Associated(f)}]]
    /\ UNCHANGED <<tables, saver, worker, reader, user>>

\* They are deleted, and the statement that deletes the threads left empty takes
\* its snapshot; both stay invisible until the commit.
JudgeThreads(d) ==
    LET chosen == deleter[d].turns \cap Saved IN
    /\ deleter[d].pc = "chosen" /\ \A t \in chosen : ~Held(t)
    /\ deleter' = [deleter EXCEPT ![d].pc = "judged", ![d].turns = chosen,
          ![d].threads = {h \in @ \cap Existing : TurnsOf(h) \subseteq chosen}]
    /\ UNCHANGED <<tables, saver, worker, reader, user>>

StopDeletion(d) == deleter' = [deleter EXCEPT ![d] = Idle]

\* A bug: versions are deleted whatever still cites them.
CommitAnyDeletion(d) ==
    LET removed == deleter[d].turns \cup UNION {TurnsOf(h) : h \in deleter[d].threads} IN
    /\ deleter[d].pc = "judged" /\ \A h \in deleter[d].threads : ~Writing(h)
    /\ DeleteThreads(deleter[d].threads) /\ versions' = versions \ {deleter[d].file}
    /\ Delete(removed) /\ StopDeletion(d) /\ UNCHANGED <<answer, saver, worker, reader, user>>
\* deleteDocumentVersionsForSource and the commit.  A thread judged empty goes
\* with the turns it was given while the statement waited for its lock; a version
\* that a turn still cites refuses the whole deletion.
CommitDeletion(d) ==
    LET removed == deleter[d].turns \cup UNION {TurnsOf(h) : h \in deleter[d].threads} IN
    /\ deleter[d].pc = "judged" /\ \A h \in deleter[d].threads : ~Writing(h)
    /\ \A t \in Saved \ removed : deleter[d].file \notin FilesOf(turn[t].content)
    /\ DeleteThreads(deleter[d].threads) /\ versions' = versions \ {deleter[d].file}
    /\ Delete(removed) /\ StopDeletion(d) /\ UNCHANGED <<answer, saver, worker, reader, user>>

FailDeletion(d) ==
    /\ deleter[d].pc # "idle" /\ StopDeletion(d)
    /\ UNCHANGED <<tables, saver, worker, reader, user>>
-----------------------------------------------------------------------------
(* Reading a thread.                                                        *)

Unread == [x \in Tables |-> None]

ReadThread(r, h) ==
    /\ reader[r] = Idle /\ h \in Existing
    /\ reader' = [reader EXCEPT ![r] = [pc |-> "turns", thread |-> h]]
    /\ UNCHANGED <<tables, saver, worker, deleter, user>>

ReadTurns(r) ==
    LET ts == TurnsOf(reader[r].thread) IN
    /\ reader[r].pc = "turns"
    /\ reader' = [reader EXCEPT ![r] = IF ts = {} THEN Idle ELSE
          [pc |-> "rows", contents |-> [t \in ts |-> turn[t].content], got |-> Unread]]
    /\ UNCHANGED <<tables, saver, worker, deleter, user>>

\* decodeTurns: six queries at once, each with a snapshot of its own.
Query(r, x) ==
    /\ reader[r].pc = "rows" /\ reader[r].got[x] = None
    /\ reader' = [reader EXCEPT ![r].got[x] =
          [t \in DOMAIN reader[r].contents |-> rows[t][x]]]
    /\ UNCHANGED <<tables, saver, worker, deleter, user>>

Answered(r) == reader[r].pc = "rows" /\ \A x \in Tables : reader[r].got[x] # None

Leave(r) ==
    /\ Answered(r) /\ reader' = [reader EXCEPT ![r] = Idle]
    /\ UNCHANGED <<tables, saver, worker, deleter, user>>

ByPosition(a, b) == a.pos < b.pos
Ordered(x) == SetToSortSeq(x, ByPosition)
Pick(x, get(_)) == [i \in DOMAIN x |-> get(x[i])]
\* A bug: ordered by citation, not by position.
UnorderedCitations(x) == SetToSeq({y.citation : y \in x})
CitationsOf(x) == Pick(Ordered(x), LAMBDA y : y.citation)

\* buildPersistedTurnOutput and buildPersistedStatements.
Rebuilt(x) ==
    [cites |-> SetToSortSeq(x.citations, ByNumber),
     statements |-> [k \in 1 .. Cardinality(x.statements) |-> CitationsOf(Of(x.links, k - 1))]]

\* buildPersistedClaimChecks.
RebuiltClaims(x) ==
    LET cites == SetToSortSeq(x.citations, ByNumber)
        ks == SetToSortSeq({c.statement : c \in x.checks}, <)
    IN  [i \in DOMAIN ks |-> [index |-> ks[i],
            numbers |-> Pick(CitationsOf(Of(x.units, ks[i])), LAMBDA c : NumberOf(cites, c))]]

\* The conditions without which the reader throws.
Readable(x) ==
    LET d == Rebuilt(x) IN
    /\ \A i \in DOMAIN d.cites : d.cites[i].n = i
    /\ x.statements = 0 .. Cardinality(x.statements) - 1
    /\ \A k \in x.statements : FromZero(Of(x.links, k))
    /\ Decodable(d)
    /\ \A c \in x.checks :
          /\ c.statement \in x.statements /\ FromZero(Of(x.units, c.statement))
          /\ CitationsOf(Of(x.units, c.statement)) = CitationsOf(Of(x.links, c.statement))
    /\ Collected(d, RebuiltClaims(x))
-----------------------------------------------------------------------------
Next ==
    \/ \E h \in Threads : CreateThread(h) \/ DeleteThread(h)
    \/ \E s \in Savers :
          \/ \E h \in Threads, context \in SUBSET Files : BeginSave(s, h, context)
          \/ FailSave(s) \/ ValidateAnchors(s) \/ TakeThread(s) \/ \E t \in Turns : Publish(s, t)
    \/ \E w \in Workers :
          \/ \E t \in Turns : ClaimJob(w, t)
          \/ worker[w].pc = "verifying"
             /\ \E result \in Results(rows[worker[w].turn]) : CompleteJob(w, result)
          \/ \E state \in {"pending", "failed"} : SettleJob(w, state)
          \/ LeaveJob(w)
    \/ \E u \in Users :
          \/ \E t \in Turns, c \in Citations \cup {None} : CheckTarget(u, t, c)
          \/ \E rating \in {1, 2} : AddFeedback(u, rating)
          \/ FailFeedback(u)
    \/ \E d \in Deleters :
          \/ \E f \in Files : ChooseTurns(d, f)
          \/ JudgeThreads(d) \/ CommitDeletion(d) \/ FailDeletion(d)
    \/ \E r \in Readers :
          \/ \E h \in Threads : ReadThread(r, h)
          \/ ReadTurns(r) \/ \E x \in Tables : Query(r, x)
          \/ Leave(r)

Spec == Init /\ [][Next]_vars
-----------------------------------------------------------------------------
\* Type invariant.
TypeOK ==
    /\ thread \in [Threads -> {"none", "open", "gone"}] /\ versions \subseteq Files
    /\ \A t \in Turns :
          /\ turn[t].state \in {"none", "published", "gone"}
          /\ turn[t].state = "published" => turn[t].content \in {answer[s] : s \in Savers} /\ turn[t].thread \in Existing
          /\ DOMAIN rows[t] = Tables /\ Cardinality(rows[t].job) <= 1
    /\ \A s \in Savers : saver[s].pc \in {"idle", "decoded", "anchored", "writing"}
    /\ \A w \in Workers : worker[w].pc \in {"idle", "verifying"}
    /\ \A d \in Deleters : deleter[d].pc \in {"idle", "chosen", "judged"}
    /\ \A r \in Readers : reader[r].pc \in {"idle", "turns", "rows"}
    /\ \A u \in Users : user[u].pc \in {"idle", "checked"}

\* Whatever answer saveTurn accepts, the checks of the database and the unique
\* sequence accept too: no answer that was paid for is refused at its last step.
NothingIsRefused == \A s \in Savers : saver[s].pc = "writing" => Publishable(s)

\* A reader whose six queries see a turn before, during and after its
\* verification returns the answer that was saved, while the turn exists.  Of a
\* turn that is deleted meanwhile it returns all, the bare text, or an error:
\* never a part of the answer.
ReadsAreWhole == \A r \in Readers : Answered(r) =>
    \A t \in DOMAIN reader[r].contents :
        LET x == [y \in Tables |-> reader[r].got[y][t]] IN
        /\ t \in Saved => Readable(x)
        /\ Readable(x) =>
              \/ Rebuilt(x) = reader[r].contents[t]
              \/ t \notin Saved /\ Rebuilt(x) = [cites |-> <<>>, statements |-> <<>>]

\* The verdicts of a turn come from one verification, the last one claimed, and
\* there are none until it is completed.
VerdictsAreOfOneAttempt == \A t \in Saved : \A y \in rows[t].checks \cup rows[t].units :
    \A j \in rows[t].job :
        y.verdict = IF j.state = "completed" THEN j.attempt ELSE 0

\* Deletions race with saves, verifications and votes: what is cited exists, and
\* votes, jobs and rows belong to turns that exist.
NothingDangles ==
    /\ \A t \in Saved : FilesOf(turn[t].content) \subseteq versions
    /\ \A t \in Turns \ Saved : rows[t] = NoRows
    /\ \A f \in feedback :
          /\ f.turn \in Saved
          /\ f.citation = None \/ f.citation \in {c.id : c \in rows[f.turn].citations}
=============================================================================
