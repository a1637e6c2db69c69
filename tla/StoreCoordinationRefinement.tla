--------------------- MODULE StoreCoordinationRefinement ---------------------
(* The locked, journaled file implements the atomic transactions of         *)
(* ChangeControlStore: one aggregate whose content is one proposal.         *)
EXTENDS StoreCoordination

Document == "document"

ContentOf(content) ==
    [s \in {Document} |->
        IF content = Nothing THEN [status |-> "absent", body |-> Nothing]
                             ELSE [status |-> "proposed", body |-> content]]

CommittedHead ==
    [a \in {"aggregate"} |->
        [revision |-> Committed.aggregates.revision,
         content  |-> ContentOf(Committed.aggregates.content)]]

CommittedReceipts ==
    {[op |-> x.op, agg |-> "aggregate", expected |-> x.expected,
      content |-> ContentOf(x.content), revision |-> x.revision, changed |-> x.changed] :
        x \in Committed.operations}

Durable == INSTANCE ChangeControlStore WITH
    Aggregates <- {"aggregate"}, Replacements <- {Document}, Constraints <- {},
    Basis <- <<>>, Bodies <- Versions, NoBody <- Nothing,
    head <- CommittedHead, receipts <- CommittedReceipts,
    requests <- {}, decisions <- {}, claimed <- {}

\* What is committed changes by whole compare-and-swap transactions only: no
\* crash, failure or interleaving commits half of one, loses one that committed
\* or lets one commit that was computed from a state that was not the last.
\* (This is Durable!Spec; the first conjunct spares TLC the many steps that
\* commit nothing.)
ImplementsStore ==
    Durable!Init /\ [][Durable!vars' # Durable!vars /\ Durable!Next]_(Durable!vars)

=============================================================================
