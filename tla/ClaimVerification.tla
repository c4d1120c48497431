------------------------- MODULE ClaimVerification -------------------------
(***************************************************************************)
(* Scoring the claims of one answer: the verifier prepares one item per    *)
(* claim and cited source, sends each distinct item once, in requests the  *)
(* service accepts; the service scores a request in batches its memory     *)
(* allows, ordered by length; the scores come back to every claim that     *)
(* shares the item, and decide its status.  The model is external: Score.  *)
(***************************************************************************)
EXTENDS Naturals, Sequences, FiniteSets, SequencesExt, Functions

CONSTANTS
    Texts, Citations,
    Tokens,         \* tokens of an item with this claim text and citation
    MaxItems,       \* items of a request (MAX_SCORE_ITEMS)
    MaxText,        \* text of a request
    BatchSize,      \* items of a model batch
    PaddedTokens,   \* padded tokens of a model batch
    MaxClaims       \* bound

ClaimAssumption ==
    /\ Citations \subseteq Nat \ {0}
    /\ Tokens \in [Texts \X Citations -> 1 .. PaddedTokens]
    /\ \A i \in DOMAIN Tokens : Tokens[i] <= MaxText
    /\ MaxItems \in Nat \ {0} /\ BatchSize \in Nat \ {0}

CiteLists == {s \in BoundedSeq(Citations, Cardinality(Citations)) : IsInjective(s)}
ClaimLists == BoundedSeq([text : Texts, cites : CiteLists], MaxClaims) \ {<<>>}
Scores == {"high", "low", "capacity"}

VARIABLES
    claims,     \* the claims of the answer, with the numbers they cite
    kind,       \* what each citation refers to
    Score,      \* what the model says of each claim text and evidence
    phase,      \* "preparing", "scoring", "done", "failed"
    sent,       \* requests answered so far
    received,   \* results by item id
    faulty,     \* the service failed or its answer was invalid
    predicted   \* the model batches, for what they are limited to

vars == <<claims, kind, Score, phase, sent, received, faulty, predicted>>
input == <<claims, kind, Score>>

Init ==
    /\ claims \in ClaimLists
    /\ kind \in [Citations -> {"text", "image", "long", "missing"}]
    /\ Score \in [Texts \X Citations -> Scores]
    /\ phase = "preparing" /\ sent = 0 /\ received = <<>>
    /\ faulty = FALSE /\ predicted = <<>>
-----------------------------------------------------------------------------
(* The verifier.                                                            *)

\* prepareClaimVerifications: what is sent for the model, by item id.
ModelIds(i) == SelectSeq([k \in DOMAIN claims[i].cites |-> <<i, claims[i].cites[k]>>],
                         LAMBDA id : kind[id[2]] = "text")
Items == FlattenSeq([i \in DOMAIN claims |-> ModelIds(i)])
Content(id) == <<claims[id[1]].text, id[2]>>
MissingSource == \E i \in DOMAIN claims : \E c \in ToSet(claims[i].cites) : kind[c] = "missing"

SameItem(a, b) == Content(a) = Content(b)
\* scoreUniqueHhemItems: the first item of each content stands for the others.
Unique(ids) == LET first == {n \in DOMAIN ids : \A m \in 1 .. n - 1 : ~SameItem(ids[m], ids[n])}
               IN  [k \in 1 .. Cardinality(first) |-> ids[SetToSortSeq(first, <)[k]]]

Length(ids) == FoldFunction(+, 0, [n \in DOMAIN ids |-> Tokens[Content(ids[n])]])
Fits(batch) == Len(batch) <= MaxItems /\ Length(batch) <= MaxText
PackAnyway(batches, id) ==
    IF batches # <<>> /\ Len(Last(batches)) < MaxItems
    THEN Front(batches) \o <<Append(Last(batches), id)>> ELSE Append(batches, <<id>>)
\* createScoreBatches: an item joins the last request if it fits.
Pack(batches, id) ==
    IF batches # <<>> /\ Fits(Append(Last(batches), id))
    THEN Front(batches) \o <<Append(Last(batches), id)>> ELSE Append(batches, <<id>>)
Requests == FoldLeft(Pack, <<>>, Unique(Items))

Prepare ==
    /\ phase = "preparing"
    /\ phase' = IF MissingSource THEN "failed" ELSE IF Items = <<>> THEN "done" ELSE "scoring"
    /\ UNCHANGED <<input, sent, received, faulty, predicted>>
-----------------------------------------------------------------------------
(* The service.                                                             *)

Scorable(ids) == SelectSeq(ids, LAMBDA id : Score[Content(id)] # "capacity")
Shorter(a, b) ==
    \/ Tokens[Content(a)] < Tokens[Content(b)]
    \/ Tokens[Content(a)] = Tokens[Content(b)] /\ (a[1] < b[1] \/ (a[1] = b[1] /\ a[2] < b[2]))
Padded(ids) == Len(ids) * Tokens[Content(Last(ids))]
LastItemOnly(batches, id) ==
    IF batches # <<>> /\ Len(Last(batches)) < BatchSize /\ Tokens[Content(id)] <= PaddedTokens
    THEN Front(batches) \o <<Append(Last(batches), id)>> ELSE Append(batches, <<id>>)
\* _plan_batches: ordered by length, so the last item pads the whole batch.
Plan(batches, id) ==
    LET more == Append(IF batches = <<>> THEN <<>> ELSE Last(batches), id) IN
    IF batches # <<>> /\ Len(more) <= BatchSize /\ Padded(more) <= PaddedTokens
    THEN Front(batches) \o <<more>> ELSE Append(batches, <<id>>)
Batches(ids) == FoldLeft(Plan, <<>>, SetToSortSeq(ToSet(ids), Shorter))

InRequestOrder(ids) ==
    LET model == FlattenSeq(Batches(Scorable(ids))) IN
    [id \in ToSet(ids) |-> IF Score[Content(id)] = "capacity" THEN "capacity"
                           ELSE Score[Content(model[CHOOSE n \in DOMAIN Scorable(ids) : Scorable(ids)[n] = id])]]
\* score: the n-th score of a batch belongs to its n-th item.
Answer(ids) ==
    LET model == FlattenSeq(Batches(Scorable(ids))) IN
    [id \in ToSet(ids) |-> IF Score[Content(id)] = "capacity" THEN "capacity"
                           ELSE Score[Content(model[CHOOSE n \in DOMAIN model : model[n] = id])]]

OnlyFirst(ids, result) == result
\* Every id of a group gets the result of the item that was sent for it.
Expand(ids, result) ==
    [id \in {x \in ToSet(Items) : \E y \in ToSet(ids) : SameItem(x, y)} |->
        result[CHOOSE y \in ToSet(ids) : SameItem(id, y)]]

Merge(f, g) == [x \in DOMAIN f \cup DOMAIN g |-> IF x \in DOMAIN g THEN g[x] ELSE f[x]]

\* One request and its answer.
ScoreBatch ==
    LET ids == Requests[sent + 1] IN
    /\ phase = "scoring" /\ sent < Len(Requests)
    /\ predicted' = predicted \o Batches(Scorable(ids))
    /\ received' = Merge(received, Expand(ids, Answer(ids)))
    /\ sent' = sent + 1
    /\ UNCHANGED <<input, phase, faulty>>

\* The service is loading or down, times out, or answers with other ids.
ScoreFails ==
    /\ phase = "scoring" /\ sent < Len(Requests)
    /\ phase' = "failed" /\ faulty' = TRUE /\ received' = <<>>
    /\ UNCHANGED <<input, sent, predicted>>

\* buildClaimVerificationResults, unless the score of an item is missing.
Finish ==
    /\ phase = "scoring" /\ sent = Len(Requests)
    /\ phase' = IF ToSet(Items) \subseteq DOMAIN received THEN "done" ELSE "failed"
    /\ UNCHANGED <<input, sent, received, faulty, predicted>>

Done == phase \in {"done", "failed"} /\ UNCHANGED vars

Next == Prepare \/ ScoreBatch \/ ScoreFails \/ Finish \/ Done
Spec == Init /\ [][Next]_vars /\ WF_vars(Next)
-----------------------------------------------------------------------------
(* Verdicts.                                                                *)

Unit(i, c) ==
    CASE kind[c] = "image" -> "verifier-incompatible"
      [] kind[c] = "long" \/ received[<<i, c>>] = "capacity" -> "not-evaluated"
      [] received[<<i, c>>] = "high" -> "supported"
      [] OTHER -> "unsupported"
Combine(outcomes) ==
    IF {"supported", "unsupported"} \subseteq outcomes THEN "partially-supported"
    ELSE IF "supported" \in outcomes THEN "supported"
    ELSE IF "unsupported" \in outcomes THEN "unsupported" ELSE "unverified"
Status(i) == Combine({Unit(i, c) : c \in ToSet(claims[i].cites)})
-----------------------------------------------------------------------------
(* Properties.                                                              *)

\* The outcome of a claim by the model's scores alone, for comparison.
ScoredAs(i, v) == {c \in ToSet(claims[i].cites) : kind[c] = "text" /\ Score[<<claims[i].text, c>>] = v}

\* However items are shared, packed into requests and reordered into batches,
\* each claim gets the status its own evidence deserves: supported only if some
\* evidence supports it and none that was evaluated contradicts it.
VerdictsMatchScores == phase = "done" => \A i \in DOMAIN claims :
    /\ Status(i) = "supported" <=> ScoredAs(i, "high") # {} /\ ScoredAs(i, "low") = {}
    /\ Status(i) = "unsupported" <=> ScoredAs(i, "high") = {} /\ ScoredAs(i, "low") # {}
    /\ Status(i) = "unverified" <=> ScoredAs(i, "high") \cup ScoredAs(i, "low") = {}

\* Without a fault of the service and a missing source every claim is verified.
OnlyFaultsFail == phase = "failed" => faulty \/ MissingSource

\* No item is given to the model twice, and every batch fits its memory.
ModelIsSpared ==
    /\ \A a, b \in DOMAIN predicted : \A x \in DOMAIN predicted[a], y \in DOMAIN predicted[b] :
          SameItem(predicted[a][x], predicted[b][y]) => a = b /\ x = y
    /\ \A a \in DOMAIN predicted :
          /\ Len(predicted[a]) <= BatchSize
          /\ \A x \in DOMAIN predicted[a] :
                Len(predicted[a]) * Tokens[Content(predicted[a][x])] <= PaddedTokens

\* Every request fits the limits of the service, which refuses larger ones.
RequestsFit == phase = "scoring" =>
    \A n \in DOMAIN Requests : Len(Requests[n]) <= MaxItems /\ Length(Requests[n]) <= MaxText
=============================================================================
