--------------------------- MODULE DocumentLibrary ---------------------------
(***************************************************************************)
(* What ingestion promises to whoever asked for it, with leases, attempts, *)
(* Docling tasks, controls and crashes out of sight.  A file has at most   *)
(* one order, for one content, each order a new generation; filling it     *)
(* puts exactly the ordered content on the shelf and uses the order up.    *)
(***************************************************************************)
EXTENDS Naturals

CONSTANTS Files, Docs, NoDoc

VARIABLES
    order,      \* the generation that is being prepared for each file
    shelf,      \* the generation that readers see
    gens        \* orders taken so far

Nothing == [doc |-> NoDoc, gen |-> 0]

Init ==
    /\ order = [f \in Files |-> Nothing] /\ shelf = [f \in Files |-> Nothing]
    /\ gens = 0

\* A new order takes the place of one that is not filled yet.
Place(f, d) ==
    /\ gens' = gens + 1
    /\ order' = [order EXCEPT ![f] = [doc |-> d, gen |-> gens']]
    /\ UNCHANGED shelf

Fill(f) ==
    /\ order[f] # Nothing
    /\ shelf' = [shelf EXCEPT ![f] = order[f]]
    /\ order' = [order EXCEPT ![f] = Nothing]
    /\ UNCHANGED gens

\* A cancelled order leaves the shelf as it is; deleting the file clears both.
Withdraw(f) == order' = [order EXCEPT ![f] = Nothing] /\ UNCHANGED <<shelf, gens>>
Remove(f) ==
    /\ order' = [order EXCEPT ![f] = Nothing] /\ shelf' = [shelf EXCEPT ![f] = Nothing]
    /\ UNCHANGED gens

Next == \E f \in Files :
    Fill(f) \/ Withdraw(f) \/ Remove(f) \/ \E d \in Docs : Place(f, d)

Spec == Init /\ [][Next]_<<order, shelf, gens>>
=============================================================================
