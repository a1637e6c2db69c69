---------------------------- MODULE MCReviewQueue ----------------------------
(* Small instances of ReviewQueue: two proposals of one producer item id.   *)
EXTENDS ReviewQueue

CONSTANTS p1, p2, original, r1, r2, e1

MCId == [p \in Proposals |-> "item"]

MCResult == [p \in Proposals |-> IF p = p1 THEN r1 ELSE r2]

=============================================================================
