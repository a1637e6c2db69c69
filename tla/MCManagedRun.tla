------------------------------ MODULE MCManagedRun ---------------------------
(* The two ends of a managed run that rivals share: its start, by two callers  *)
(* under two operation ids, and its activation: retries of a decision with     *)
(* other settings, a rival decision of the same base, and an operation id that *)
(* is used for both.                                                           *)
EXTENDS ManagedRun, TLC

CONSTANTS s1, s2, r1, r2, op1, op2, new, old, first, second

\* One request under two operation ids.
OneRequest == {[op |-> first, input |-> "x"], [op |-> second, input |-> "x"]}
Clocks == [p \in Services |-> {1, 2}]

TwoFiles == r1 :> 2 @@ r2 :> 1
Activate(r, op, config) == [request |-> r, op |-> op, config |-> config]
RivalCalls ==
    {Activate(r1, op1, new), Activate(r1, op1, old), Activate(r2, op2, new),
     Activate(r2, op1, new)}

\* A failure, or a change of a finished file.
AFailureOrAChange == {<<1, 0>>, <<0, 1>>}

RunSymmetry == Permutations(Services) \cup Permutations({first, second})

=============================================================================
