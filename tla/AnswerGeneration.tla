-------------------------- MODULE AnswerGeneration --------------------------
(***************************************************************************)
(* How one answer is generated (src/answers).  The retrieved windows are   *)
(* fitted into the context of the model; the model is shown those that fit *)
(* under request-local references, streams its structured response, which  *)
(* is previewed as it grows, and is asked once more when the response does *)
(* not keep the contract.  An accepted response is compiled into the       *)
(* published document: a direct answer, findings, and the citations they   *)
(* need, one per element, numbered in retrieval order.                     *)
(*                                                                         *)
(* A reference is its position among the windows shown; a text is what is  *)
(* left of it: how many atomic statements, or "empty"/"decoration" for a   *)
(* direct answer with nothing usable.  The model is external: Responses.   *)
(***************************************************************************)
EXTENDS Naturals, Sequences, FiniteSets, SequencesExt, FiniteSetsExt, Functions

CONSTANTS
    Elements,       \* source elements the windows belong to
    Contracts,      \* "ask" and "chat": the two response contracts
    Sizes,          \* <<tokens of the passage, tokens of its expansion (0: none)>>
    MaxRetrieved, MaxFindings, MaxRefs, MaxAtoms,     \* bounds
    Capacities,     \* context capacities of the model, in tokens
    FixedTokens, SafetyMargin, MinimumOutput

GenerationAssumption ==
    /\ Contracts \subseteq {"ask", "chat"}
    /\ FixedTokens \in Nat /\ SafetyMargin \in Nat /\ MinimumOutput \in Nat \ {0}
    /\ Capacities \subseteq Nat

\* A window: its element, the tokens of its passage and of its expansion.
Windows == [element : Elements, size : Sizes]

NoResponse == [content |-> "empty", findings |-> <<>>]

VARIABLES
    contract,
    retrieved,  \* windows, best first; after planning, those shown to the model
    capacity,
    expanded,   \* positions of the windows shown with their expansion
    phase,      \* "plan", "initial", "correction", "answered", "fallback", "failed"
    response,   \* what the model is streaming
    arrived,    \* findings of it that have arrived
    preview,    \* the last snapshot given to the reader, or NoSnapshot
    published,  \* the compiled document, or NoDocument
    metric,     \* how the answer metric was finished, in order
    reason      \* why the generation failed

vars == <<contract, retrieved, capacity, expanded, phase, response, arrived,
          preview, published, metric, reason>>

\* What the model may answer when n windows are shown: references may be unknown.
\* Only a chat topic has a title.
Findings(n) ==
    [atoms : 0 .. MaxAtoms, refs : BoundedSeq(1 .. n + 1, MaxRefs),
     title : IF contract = "ask" THEN {"plain"} ELSE {"plain", "decoration"}]
Responses(n) ==
    [content : {"text"}, findings : BoundedSeq(Findings(n), MaxFindings)]
    \cup [content : {"decoration", "empty"}, findings : BoundedSeq(Findings(n), 1)]

NoSnapshot == [citations |-> <<>>, statements |-> <<>>]
NoDocument == NoSnapshot
Shown == 1 .. Len(retrieved)
Requesting == phase \in {"initial", "correction"}

Init ==
    /\ contract \in Contracts /\ capacity \in Capacities
    /\ retrieved \in BoundedSeq(Windows, MaxRetrieved)
    /\ expanded = {} /\ phase = "plan" /\ response = NoResponse /\ arrived = 0
    /\ preview = NoSnapshot /\ published = NoDocument
    /\ metric = <<>> /\ reason = "none"
-----------------------------------------------------------------------------
(* The budget: windows are taken while they fit, then widened while they fit. *)
Available(c) == c - (SafetyMargin + MinimumOutput)
Cost(w, wide) == w.size[IF wide THEN 2 ELSE 1]
FittingFirst(ws, room) ==   \* a bug: a window is counted after it was taken
    FoldLeft(LAMBDA a, w : IF a.used <= room
                           THEN [used |-> a.used + w.size[1], taken |-> Append(a.taken, w)]
                           ELSE a,
             [used |-> FixedTokens, taken |-> <<>>], ws)
Fitting(ws, room) ==
    FoldLeft(LAMBDA a, w : IF a.used + w.size[1] <= room
                           THEN [used |-> a.used + w.size[1], taken |-> Append(a.taken, w)]
                           ELSE a,
             [used |-> FixedTokens, taken |-> <<>>], ws)
Widening(fit, room) ==
    FoldLeftDomain(LAMBDA a, i :
        LET w == fit.taken[i] IN
        IF w.size[2] > w.size[1] /\ a.used + w.size[2] - w.size[1] <= room
        THEN [used |-> a.used + w.size[2] - w.size[1], wide |-> a.wide \cup {i}]
        ELSE a,
        [used |-> fit.used, wide |-> {}], fit.taken)

\* planAnswerRequest refuses a context without room for the prompt or any window.
PlanAnswerRequest ==
    /\ phase = "plan"
    /\ IF capacity < FixedTokens + SafetyMargin + MinimumOutput
       THEN /\ phase' = "failed" /\ reason' = "minimum-structured-output"
            /\ metric' = Append(metric, "error")
            /\ UNCHANGED <<retrieved, expanded>>
       ELSE LET fit == Fitting(retrieved, Available(capacity)) IN
            IF retrieved # <<>> /\ fit.taken = <<>>
            THEN /\ phase' = "failed" /\ reason' = "no-complete-evidence-window"
                 /\ metric' = Append(metric, "error")
                 /\ UNCHANGED <<retrieved, expanded>>
            ELSE /\ phase' = "initial" /\ retrieved' = fit.taken
                 /\ expanded' = Widening(fit, Available(capacity)).wide
                 /\ UNCHANGED <<reason, metric>>
    /\ UNCHANGED <<contract, capacity, response, arrived, preview, published>>

Planned == phase \notin {"plan"} /\ reason \notin
    {"minimum-structured-output", "no-complete-evidence-window"}
-----------------------------------------------------------------------------
(* Decoding a response, once it is complete. *)
\* Every finding refers to windows that were shown; with none shown there is none.
Grounded(r) == \A i \in DOMAIN r.findings :
    r.findings[i].refs # <<>> /\ Range(r.findings[i].refs) \subseteq Shown
AskAccepts(r) == r.content # "empty" /\ Grounded(r)
ChatAccepts(r) == r.content # "empty" /\ Grounded(r)
Accepts(r) == IF contract = "ask" THEN AskAccepts(r) ELSE ChatAccepts(r)

\* Statements of a draft: content is <<finding, atom>>, or <<>> for the direct answer.
Statements(r, section) ==
    FlattenSeq([i \in DOMAIN r.findings |-> [a \in 1 .. r.findings[i].atoms |->
        [content |-> <<i, a>>, refs |-> r.findings[i].refs, section |-> section]]])
AskDraft(r) == Statements(r, "key-points")
ChatDraft(r) == Statements(r, "answer")
Draft(r) == IF contract = "ask" THEN AskDraft(r) ELSE ChatDraft(r)
\* UnusableAnswerContentError: only decorations are left.  It is not corrected.
Unusable(r) == r.content = "decoration" \/ (r.findings # <<>> /\ Draft(r) = <<>>)
-----------------------------------------------------------------------------
(* Compiling a draft (compileAnswerDraft). *)
Element(ref) == retrieved[ref].element
\* The first window of an element stands for the element.
Uncanonical(ref) == ref         \* a bug: a second window is a second source
Conflated(ref) == Min(Shown)    \* a bug: the key of a window forgets its element
Canonical(ref) == Min({r \in Shown : Element(r) = Element(ref)})
FirstOnly(s) == FoldLeft(LAMBDA a, x : IF x \in Range(a) THEN a ELSE Append(a, x), <<>>, s)
CompactStatementEvidence(refs) == FirstOnly([i \in DOMAIN refs |-> Canonical(refs[i])])

Cited(draft) == UNION {Range(CompactStatementEvidence(draft[i].refs)) : i \in DOMAIN draft}
\* a bug: numbers follow the order in which the findings mention the sources
MentionOrder(draft) ==
    FirstOnly(FlattenSeq([i \in DOMAIN draft |-> CompactStatementEvidence(draft[i].refs)]))
CitationOrder(draft) == SetToSortSeq(Cited(draft), <)
Number(order, ref) == CHOOSE n \in DOMAIN order : order[n] = ref

CompileAnswerDraft(draft) ==
    LET order == CitationOrder(draft) IN
    [citations |-> [n \in DOMAIN order |-> Element(order[n])],
     statements |-> [i \in DOMAIN draft |->
        [content |-> draft[i].content, section |-> draft[i].section,
         cites |-> [k \in DOMAIN CompactStatementEvidence(draft[i].refs) |->
                       Number(order, CompactStatementEvidence(draft[i].refs)[k])]]]]

\* The schema every published document passes (validatePublishedDocumentReferences).
ValidDocument(d) ==
    /\ d.statements # <<>> /\ d.citations # <<>>
    /\ IsInjective(d.citations)
    /\ \A i \in DOMAIN d.statements :
        /\ d.statements[i].cites # <<>> /\ IsInjective(d.statements[i].cites)
        /\ Range(d.statements[i].cites) \subseteq DOMAIN d.citations
    /\ UNION {Range(d.statements[i].cites) : i \in DOMAIN d.statements} = DOMAIN d.citations

\* The claims to verify: every statement with the numbers it cites.
ReadPublishedAnswerClaims(d) ==
    [i \in DOMAIN d.statements |->
        [claim |-> d.statements[i].content, numbers |-> d.statements[i].cites]]
-----------------------------------------------------------------------------
(* The preview of a partial response: unknown references are left out, and a *)
(* chat topic whose title is only decoration is left out with it.            *)
PreviewAllRefs(f) ==    \* a bug: a source is listed for every window of it
    [i \in DOMAIN SelectSeq(f.refs, LAMBDA r : r \in Shown) |->
        Element(SelectSeq(f.refs, LAMBDA r : r \in Shown)[i])]
PreviewRefs(f) == FirstOnly([i \in DOMAIN SelectSeq(f.refs, LAMBDA r : r \in Shown) |->
    Element(SelectSeq(f.refs, LAMBDA r : r \in Shown)[i])])
PreviewedFindings(r, n) ==
    SelectSeq([i \in 1 .. n |-> [index |-> i, finding |-> r.findings[i]]],
              LAMBDA x : x.finding.atoms > 0
                         /\ (contract = "chat" => x.finding.title = "plain"))
NumberedFromSecond(used) ==     \* a bug: the first source of the catalog is skipped
    LET order == SetToSortSeq({r \in Shown \ {1} : Element(r) \in used /\ Canonical(r) = r}, <)
    IN [n \in DOMAIN order |-> Element(order[n])]
NumberedPartialCitations(used) ==
    LET firsts == {r \in Shown : Element(r) \in used /\ Canonical(r) = r}
        order == SetToSortSeq(firsts, <)
    IN [n \in DOMAIN order |-> Element(order[n])]
DecodePartialSnapshot(r, n) ==
    LET shown == PreviewedFindings(r, n)
        citations == NumberedPartialCitations(
            UNION {Range(PreviewRefs(shown[i].finding)) : i \in DOMAIN shown})
    IN [citations |-> citations,
        statements |-> <<[content |-> <<>>, section |-> "answer", keys |-> <<>>]>> \o
            FlattenSeq([i \in DOMAIN shown |-> [a \in 1 .. shown[i].finding.atoms |->
                [content |-> <<shown[i].index, a>>,
                 section |-> IF contract = "ask" THEN "key-points" ELSE "answer",
                 keys |-> PreviewRefs(shown[i].finding)]]])]
\* The snapshot of the published document, which replaces the preview at the end.
PublishedSnapshot(d) ==
    [citations |-> d.citations,
     statements |-> <<[content |-> <<>>, section |-> "answer", keys |-> <<>>]>> \o
        [i \in DOMAIN d.statements |->
            [content |-> d.statements[i].content, section |-> d.statements[i].section,
             keys |-> [k \in DOMAIN d.statements[i].cites |->
                          d.citations[d.statements[i].cites[k]]]]]]
-----------------------------------------------------------------------------
(* The requests (generateAnswer, correctAnswerDraft, requestAnswerDraft). *)
\* The metric of the answer is finished once, by whoever comes first.
FinishMetric(m, how) == Append(m, how)      \* a bug: every completion is reported
FinishMetricOnce(m, how) == IF m = <<>> THEN <<how>> ELSE m

\* The stream begins: its content, and as many findings as have arrived.
BeginStream ==
    /\ Requesting /\ response = NoResponse
    /\ response' \in Responses(Len(retrieved)) \ {NoResponse} /\ arrived' = 0
    /\ preview' = IF response'.content = "text" THEN DecodePartialSnapshot(response', 0)
                  ELSE preview
    /\ UNCHANGED <<contract, retrieved, capacity, expanded, phase, published, metric, reason>>

StreamPartial ==
    /\ Requesting /\ response.content = "text" /\ arrived < Len(response.findings)
    /\ arrived' = arrived + 1
    /\ preview' = DecodePartialSnapshot(response, arrived + 1)
    /\ UNCHANGED <<contract, retrieved, capacity, expanded, phase, response, published,
                   metric, reason>>

\* The response is complete, with a finish reason.  Only the first request's
\* completion is recorded.  A response that is not JSON is one not accepted.
FinishAnswered ==
    /\ Requesting /\ response # NoResponse
    /\ response.content = "text" => arrived = Len(response.findings)
    /\ Accepts(response) /\ ~ Unusable(response)
    /\ metric' = FinishMetricOnce(metric, "stop")
    /\ published' = IF response.findings = <<>> THEN NoDocument
                    ELSE CompileAnswerDraft(Draft(response))
    /\ phase' = IF response.findings = <<>> THEN "fallback" ELSE "answered"
    /\ UNCHANGED <<contract, retrieved, capacity, expanded, response, arrived, preview, reason>>

FinishRejectedAgain ==  \* a bug: every rejected response is corrected
    /\ Requesting /\ response # NoResponse
    /\ response.content = "text" => arrived = Len(response.findings)
    /\ ~ Accepts(response)
    /\ metric' = FinishMetricOnce(metric, "stop")
    /\ phase' = "correction" /\ response' = NoResponse /\ arrived' = 0
    /\ UNCHANGED <<contract, retrieved, capacity, expanded, preview, published, reason>>
FinishRejected ==
    /\ Requesting /\ response # NoResponse
    /\ response.content = "text" => arrived = Len(response.findings)
    /\ ~ Accepts(response)
    /\ metric' = FinishMetricOnce(metric, "stop")
    /\ IF phase = "initial"
       THEN /\ phase' = "correction" /\ response' = NoResponse /\ arrived' = 0
            /\ UNCHANGED reason
       ELSE /\ phase' = "failed" /\ reason' = "invalid-draft"
            /\ UNCHANGED <<response, arrived>>
    /\ UNCHANGED <<contract, retrieved, capacity, expanded, preview, published>>

\* Not corrected: nothing usable is left of an accepted response, or the provider
\* stopped for another reason than "stop".
FinishUnusable ==
    /\ Requesting /\ response # NoResponse
    /\ response.content = "text" => arrived = Len(response.findings)
    /\ Accepts(response) /\ Unusable(response)
    /\ phase' = "failed" /\ reason' = "unusable"
    /\ metric' = FinishMetricOnce(metric, "stop")
    /\ UNCHANGED <<contract, retrieved, capacity, expanded, response, arrived, preview, published>>

RequireCompleted ==
    /\ Requesting /\ response # NoResponse
    /\ phase' = "failed" /\ reason' \in {"length", "finish-reason"}
    /\ metric' = FinishMetricOnce(metric, reason')
    /\ UNCHANGED <<contract, retrieved, capacity, expanded, response, arrived, preview, published>>

\* The transport fails, the request times out, or the reader aborts: before the
\* metric is finished it is finished with an error.
RequestFails ==
    /\ Requesting
    /\ phase' = "failed" /\ reason' \in {"transport", "timeout", "aborted"}
    /\ metric' = FinishMetricOnce(metric, IF reason' = "aborted" THEN "aborted" ELSE "error")
    /\ UNCHANGED <<contract, retrieved, capacity, expanded, response, arrived, preview, published>>

\* The turn shows the snapshot of the document it saved.
ShowPublished ==
    /\ phase = "answered" /\ preview # PublishedSnapshot(published)
    /\ preview' = PublishedSnapshot(published)
    /\ UNCHANGED <<contract, retrieved, capacity, expanded, phase, response, arrived,
                   published, metric, reason>>

RequestConcludes ==
    FinishAnswered \/ FinishRejected \/ FinishUnusable \/ RequireCompleted \/ RequestFails
Next == PlanAnswerRequest \/ BeginStream \/ StreamPartial \/ RequestConcludes \/ ShowPublished
Spec == Init /\ [][Next]_vars
\* A request concludes: its timeout sees to it (createInferenceRequestSignal).
Fairness == WF_vars(PlanAnswerRequest) /\ WF_vars(RequestConcludes)

FairSpec == Spec /\ Fairness
-----------------------------------------------------------------------------
TypeOK ==
    /\ contract \in Contracts /\ capacity \in Capacities
    /\ retrieved \in BoundedSeq(Windows, MaxRetrieved) /\ expanded \subseteq Shown
    /\ phase \in {"plan", "initial", "correction", "answered", "fallback", "failed"}
    /\ arrived \in 0 .. MaxFindings /\ Len(metric) <= 2

\* What the model is shown leaves the room its minimum output and the provider's
\* margin need, whichever windows were widened (planAnswerRequest).
FitsContext ==
    Planned => FixedTokens + MapThenSumSet(LAMBDA i : Cost(retrieved[i], i \in expanded), Shown)
                   + SafetyMargin + MinimumOutput <= capacity

\* A draft that the contract accepts always compiles into a document the published
\* schema takes: compiling never throws, and the answer is not lost there.
AcceptedCompiles == phase = "answered" => ValidDocument(published)

\* Every published statement cites exactly the elements of the windows its finding
\* referred to: neither numbering nor merging the windows of an element moves a citation.
EvidenceKept ==
    phase = "answered" => \A i \in DOMAIN published.statements :
        LET s == published.statements[i]
            f == response.findings[s.content[1]]
        IN {published.citations[n] : n \in Range(s.cites)} = {Element(r) : r \in Range(f.refs)}

\* Citations are numbered as the sources were ranked, so numbers grow with the rank.
NumbersFollowRank ==
    phase = "answered" => \A m, n \in DOMAIN published.citations : m < n =>
        LET first(e) == Min({r \in Shown : Element(r) = e})
        IN first(published.citations[m]) < first(published.citations[n])

\* The last preview of a complete response, built without decoding it, is the
\* snapshot of the document it compiles to: citations do not jump at the end.
PreviewIsPublished ==
    (phase = "answered" /\ \A i \in DOMAIN response.findings : response.findings[i].title = "plain")
    => DecodePartialSnapshot(response, Len(response.findings)) = PublishedSnapshot(published)

\* A preview never shows a citation for a source the model was not shown, though
\* the response may name one, and cites nothing it does not list.
PreviewKnowsItsSources ==
    \A i \in DOMAIN preview.statements :
        /\ Range(preview.statements[i].keys) \subseteq Range(preview.citations)
        /\ Range(preview.citations) \subseteq {Element(r) : r \in Shown}

\* However a generation ends, its metric was finished, and only once.
MetricFinished == (phase \in {"answered", "fallback", "failed"}) <=> (Len(metric) = 1 /\ ~ Requesting)

\* A generation ends, one way or the other.
GenerationEnds == <>(phase \in {"answered", "fallback", "failed"})
=============================================================================
