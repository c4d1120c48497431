--------------------------- MODULE SourceLibraries ---------------------------
(***************************************************************************)
(* Shared source libraries: their life from creation over archive and      *)
(* restore to a deletion that web servers carry out in the background one  *)
(* file at a time, the grants of workspaces, and the documents in them.    *)
(* A call of a workspace is authorised first and carried out later.        *)
(***************************************************************************)
EXTENDS Naturals, Sequences, FiniteSets, SequencesExt

CONSTANTS
    Libraries, Workspaces, Calls,
    Files,          \* source files, in the order of their names
    Broken,         \* files whose content the storage never deletes
    Servers,        \* web servers, each with one deletion reconciler
    NoLibrary

LibraryAssumption ==
    Files \subseteq Nat /\ 0 \notin Files /\ Broken \subseteq Files /\ NoLibrary \notin Libraries

VARIABLES
    library,    \* source_libraries: state
    queue,      \* the libraries in deletion, by updated_at
    grant,      \* workspace_library_grants
    file,       \* indexed_documents and ingestion_jobs by source file
    listed,     \* source_library_deletion_sources
    content,    \* files whose content waits in source_content_deletions
    call,       \* an authorised call that has not acted yet
    server      \* each reconciler

vars == <<library, queue, grant, file, listed, content, call, server>>
documents == <<file, content>>

NoRow == [library |-> NoLibrary, job |-> "none", indexed |-> FALSE]
GoneRow == [library |-> NoLibrary, job |-> "gone", indexed |-> FALSE]
NoCall == [op |-> "none", library |-> NoLibrary, file |-> 0]
Idle == [pc |-> "idle", library |-> NoLibrary, file |-> 0]

Init ==
    /\ library = [l \in Libraries |-> "none"] /\ queue = <<>>
    /\ grant = [l \in Libraries |-> [w \in Workspaces |-> "none"]]
    /\ file = [f \in Files |-> NoRow] /\ content = {}
    /\ listed = [l \in Libraries |-> {}]
    /\ call = [c \in Calls |-> NoCall] /\ server = [s \in Servers |-> Idle]

Present(f) == file[f].library # NoLibrary
In(l) == {f \in Files : file[f].library = l}
Active(f) == file[f].job \in {"pending", "running"}
-----------------------------------------------------------------------------
(* Administration, each in one transaction under the row lock of the library. *)

CreateShared(l, w) ==
    /\ library[l] = "none" /\ library' = [library EXCEPT ![l] = "active"]
    /\ grant' = [grant EXCEPT ![l][w] = "manage"]
    /\ UNCHANGED <<queue, documents, listed, call, server>>

\* Neither archive nor deletion starts while a document is being processed.
Quiet(l) == \A f \in In(l) : ~Active(f)

ArchiveShared(l) ==
    /\ library[l] = "active" /\ Quiet(l) /\ library' = [library EXCEPT ![l] = "archived"]
    /\ UNCHANGED <<queue, grant, documents, listed, call, server>>

RestoreShared(l) ==
    /\ library[l] = "archived" /\ library' = [library EXCEPT ![l] = "active"]
    /\ UNCHANGED <<queue, grant, documents, listed, call, server>>

SetGrant(l, w, access) ==
    /\ library[l] = "active" /\ grant' = [grant EXCEPT ![l][w] = access]
    /\ grant' # grant
    /\ UNCHANGED <<library, queue, documents, listed, call, server>>

RevokeGrant(l, w) ==
    /\ library[l] = "active" /\ grant[l][w] # "none"
    /\ grant' = [grant EXCEPT ![l][w] = "none"]
    /\ UNCHANGED <<library, queue, documents, listed, call, server>>

IndexedOnly(l) == {f \in In(l) : file[f].indexed}
\* buildSourceDeletionSources: every file of the library, published or failed.
DeletionSources(l) == In(l)

\* requestSharedSourceLibraryDeletion
RequestDeletion(l) ==
    /\ library[l] \in {"active", "archived"} /\ Quiet(l)
    /\ library' = [library EXCEPT ![l] = "deleting"]
    /\ listed' = [listed EXCEPT ![l] = DeletionSources(l)]
    /\ queue' = Append(queue, l)
    /\ UNCHANGED <<grant, documents, call, server>>
-----------------------------------------------------------------------------
(* Calls of a workspace.                                                    *)

\* authorizeCatalogSourceForPrincipal: an active library and a managing grant.
MayManage(w, l) == library[l] = "active" /\ grant[l][w] = "manage"

Authorize(c, w, l, op, f) ==
    /\ call[c] = NoCall /\ MayManage(w, l)
    /\ IF op = "upload" THEN file[f] = NoRow ELSE file[f].library = l
    /\ call' = [call EXCEPT ![c] = [op |-> op, library |-> l, file |-> f]]
    /\ UNCHANGED <<library, queue, grant, documents, listed, server>>

StillThere(l) == library[l] # "none"
\* lockActiveSourceLibrary and lockActiveJobSourceLibrary
LockActive(l) == library[l] = "active"

Ends(c) == call' = [call EXCEPT ![c] = NoCall]
Refused(c) == Ends(c) /\ UNCHANGED documents

\* An upload under a new file name, or the reindexing of a document that was
\* there when it was read: a document deleted since then comes back.
Prepare(c) ==
    LET f == call[c].file
        l == call[c].library IN
    /\ call[c].op \in {"upload", "reindex"}
    /\ IF LockActive(l) /\ ~Active(f)
       THEN /\ file' = [file EXCEPT ![f] = [library |-> l, job |-> "pending", indexed |-> @.indexed]]
            /\ UNCHANGED content /\ Ends(c)
       ELSE Refused(c)
    /\ UNCHANGED <<library, queue, grant, listed, server>>

\* retryFailedJob locks the library the job belongs to.
Retry(c) ==
    LET f == call[c].file IN
    /\ call[c].op = "retry"
    /\ IF file[f].job = "failed" /\ LockActive(file[f].library)
       THEN file' = [file EXCEPT ![f].job = "pending"] /\ UNCHANGED content /\ Ends(c)
       ELSE Refused(c)
    /\ UNCHANGED <<library, queue, grant, listed, server>>

\* deleteIndexedDocumentWithRuntime looks at the file alone.
DeleteRows(f) == file' = [file EXCEPT ![f] = GoneRow] /\ content' = content \cup {f}

DeleteDocument(c) ==
    LET f == call[c].file IN
    /\ call[c].op = "delete"
    /\ IF Present(f) /\ ~Active(f) THEN DeleteRows(f) /\ Ends(c) ELSE Refused(c)
    /\ UNCHANGED <<library, queue, grant, listed, server>>
-----------------------------------------------------------------------------
(* Workers.                                                                 *)

Claim(f) ==
    /\ file[f].job = "pending" /\ file' = [file EXCEPT ![f].job = "running"]
    /\ UNCHANGED <<library, queue, grant, content, listed, call, server>>
Publish(f) ==
    /\ file[f].job = "running"
    /\ file' = [file EXCEPT ![f] = [@ EXCEPT !.job = "none", !.indexed = TRUE]]
    /\ UNCHANGED <<library, queue, grant, content, listed, call, server>>
JobFails(f) ==
    /\ file[f].job = "running" /\ file' = [file EXCEPT ![f].job = "failed"]
    /\ UNCHANGED <<library, queue, grant, content, listed, call, server>>

\* The source content store catches up with the deletions it was asked for.
DeleteContent(f) ==
    /\ f \in content \ Broken /\ content' = content \ {f}
    /\ UNCHANGED <<library, queue, grant, file, listed, call, server>>
-----------------------------------------------------------------------------
(* reconcileNextSharedSourceLibraryDeletion                                 *)

First(S) == CHOOSE f \in S : \A g \in S : f <= g
Without(q, l) == RemoveFirst(q, l)

\* The longest untouched library; an empty one is removed with its grants.
PickSource(s) ==
    LET l == Head(queue) IN
    /\ server[s].pc = "idle" /\ queue # <<>> /\ listed[l] # {}
    /\ server' = [server EXCEPT ![s] =
                     [pc |-> "delete", library |-> l, file |-> First(listed[l])]]
    /\ UNCHANGED <<library, queue, grant, documents, listed, call>>

RemoveLibrary(s) ==
    LET l == Head(queue) IN
    /\ server[s].pc = "idle" /\ queue # <<>> /\ listed[l] = {} /\ In(l) = {}
    /\ library' = [library EXCEPT ![l] = "gone"] /\ queue' = Tail(queue)
    /\ grant' = [grant EXCEPT ![l] = [w \in Workspaces |-> "none"]]
    /\ UNCHANGED <<documents, listed, call, server>>

\* A document that is gone already has its content deletion tried again.
DeleteSource(s) ==
    LET f == server[s].file IN
    /\ server[s].pc = "delete"
    /\ IF Active(f)
       THEN server' = [server EXCEPT ![s].pc = "postpone"] /\ UNCHANGED documents
       ELSE /\ server' = [server EXCEPT ![s].pc = "check"]
            /\ IF Present(f) THEN DeleteRows(f)
               ELSE file' = file /\ content' = IF f \in Broken THEN content ELSE content \ {f}
    /\ UNCHANGED <<library, queue, grant, listed, call>>

\* The source stays listed until its content is deleted too.
CheckContent(s) ==
    LET l == server[s].library
        f == server[s].file IN
    /\ server[s].pc = "check"
    /\ listed' = IF f \in content THEN listed ELSE [listed EXCEPT ![l] = @ \ {f}]
    /\ server' = [server EXCEPT ![s].pc = "postpone"]
    /\ UNCHANGED <<library, queue, grant, documents, call>>

Unmoved(q, l) == q
PostponedEvenIfGone(q, l) == Append(Without(q, l), l)
\* postponeSharedSourceLibraryDeletion: the other libraries come first now.
Postponed(q, l) == IF Without(q, l) = q THEN q ELSE Append(Without(q, l), l)

Postpone(s) ==
    /\ server[s].pc = "postpone"
    /\ queue' = Postponed(queue, server[s].library)
    /\ server' = [server EXCEPT ![s] = Idle]
    /\ UNCHANGED <<library, grant, documents, listed, call>>

\* The server dies, or the database does not answer.
Crash(s) ==
    /\ server[s].pc # "idle" /\ server' = [server EXCEPT ![s] = Idle]
    /\ UNCHANGED <<library, queue, grant, documents, listed, call>>

AdministrationStep(l) ==
    \/ ArchiveShared(l) \/ RestoreShared(l) \/ RequestDeletion(l)
    \/ \E w \in Workspaces : CreateShared(l, w) \/ RevokeGrant(l, w)
                             \/ \E a \in {"use", "manage"} : SetGrant(l, w, a)
CallStep(c) ==
    \/ \E w \in Workspaces, l \in Libraries, f \in Files,
          op \in {"upload", "reindex", "retry", "delete"} : Authorize(c, w, l, op, f)
    \/ Prepare(c) \/ Retry(c) \/ DeleteDocument(c)
Work(f) == Claim(f) \/ Publish(f) \/ JobFails(f)
Reconcile(s) ==
    PickSource(s) \/ RemoveLibrary(s) \/ DeleteSource(s) \/ CheckContent(s) \/ Postpone(s)

Next ==
    \/ \E l \in Libraries : AdministrationStep(l)
    \/ \E c \in Calls : CallStep(c)
    \/ \E f \in Files : Work(f) \/ DeleteContent(f)
    \/ \E s \in Servers : Reconcile(s) \/ Crash(s)

Spec == Init /\ [][Next]_vars

\* The timer of a server fires for ever, and its tick ends more often than the
\* server dies; the content store retries what it was asked to delete.
Fairness ==
    /\ \A s \in Servers :
          /\ WF_vars(PickSource(s) \/ RemoveLibrary(s))
          /\ SF_vars(DeleteSource(s)) /\ SF_vars(CheckContent(s)) /\ SF_vars(Postpone(s))
    /\ \A f \in Files : WF_vars(DeleteContent(f))

FairSpec == Spec /\ Fairness
-----------------------------------------------------------------------------
\* Type invariant; the queue holds exactly the libraries in deletion, once each.
TypeOK ==
    /\ library \in [Libraries -> {"none", "active", "archived", "deleting", "gone"}]
    /\ {queue[i] : i \in DOMAIN queue} = {l \in Libraries : library[l] = "deleting"}
    /\ Len(queue) = Cardinality({l \in Libraries : library[l] = "deleting"})
    /\ grant \in [Libraries -> [Workspaces -> {"none", "use", "manage"}]]
    /\ file \in [Files -> [library : Libraries \cup {NoLibrary},
                           job : {"none", "pending", "running", "failed", "gone"}, indexed : BOOLEAN]]
    /\ listed \in [Libraries -> SUBSET Files] /\ content \subseteq Files
    /\ call \in [Calls -> [op : {"none", "upload", "reindex", "retry", "delete"},
                           library : Libraries \cup {NoLibrary}, file : Files \cup {0}]]
    /\ server \in [Servers -> [pc : {"idle", "delete", "check", "postpone"},
                               library : Libraries \cup {NoLibrary}, file : Files \cup {0}]]

\* An archived library, or one in deletion, has nothing in processing, whatever
\* uploads, retries and reindexings were authorised while it was active.
ClosedIsQuiet ==
    \A l \in Libraries : library[l] \in {"archived", "deleting"} => Quiet(l)

\* The deletion list misses nothing: a file of a library in deletion stays listed
\* until it is gone, so that the library itself can go.
NothingIsForgotten == \A l \in Libraries :
    /\ library[l] = "deleting" => In(l) \subseteq listed[l]
    /\ library[l] \in {"none", "gone"} => In(l) = {}

\* A requested deletion is completed, even beside a library whose content cannot
\* be deleted; only a file of its own can hold a library up.
DeletionFinishes == \A l \in Libraries :
    library[l] = "deleting" ~> library[l] = "gone" \/ (listed[l] \cap Broken # {})
=============================================================================
