-------------------- MODULE ChangeControlStoreRefinement --------------------
(* The tables of ChangeControlStore implement a ReviewedHistory: the        *)
(* receipts alone are enough to tell the whole history of every aggregate.  *)
EXTENDS ChangeControlStore

\* The content that the operation of a revision committed.
ContentAt(a, r) == (CHOOSE x \in ChangedAt(a, r) : TRUE).content

ReceiptHistory == [a \in Aggregates |-> [r \in 1..head[a].revision |-> ContentAt(a, r)]]

UsedOperations == {x.op : x \in receipts} \cup claimed

History == INSTANCE ReviewedHistory WITH
    history <- ReceiptHistory, used <- UsedOperations

\* Seen through its receipts, every transaction appends at most one content,
\* for an operation id that had no effect before, and leaves reviewed subjects
\* alone unless it is a decision, which reviews proposals and nothing else.
ImplementsReviewedHistory == History!Spec

=============================================================================
