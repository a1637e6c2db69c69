--------------------------- MODULE MCChangeControl ---------------------------
(* ChangeControl, small: five operation ids on one aggregate, two services and *)
(* workspaces some of which reach the limits of the analysis.                  *)
EXTENDS ChangeControl, SmallWorkspaces

CONSTANTS rel, tempc, op1, op2, op3, op4, op5, x1, x2

MCBasis == tempc :> {rel}

\* Every behaviour has a like one in which operation ids come into use in this
\* order: they are alike to the store.
InOrder == <<op1, op2, op3, op4, op5>>
ComesInOrder ==
    \A i \in 2..5 : InOrder[i] \in UsedOperations => InOrder[i - 1] \in UsedOperations

OrderedNext == ChangeNext /\ (component = "store" => ComesInOrder')
OrderedSpec == ChangeInit /\ [][OrderedNext]_allVars

ChangeSymmetry == Permutations(Services)

=============================================================================
