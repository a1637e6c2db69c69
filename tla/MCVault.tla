------------------------------- MODULE MCVault -------------------------------
(* What surrounds the vault, small: two proposals of one producer item id, two *)
(* processes that sync two notes, ingest runs of three raw files.              *)
EXTENDS Vault, SmallVault

CONSTANTS p1, p2, original, r1, r2, e1, s1, s2

MCId == [p \in Proposals |-> "item"]
MCResult == [p \in Proposals |-> IF p = p1 THEN r1 ELSE r2]

\* The condition under which every undisturbed sync is proved to converge.
ASSUME ForwardEdits == Syncing!EditsGoForward(ForwardAge, ForwardHeld)

SyncSymmetry == Permutations(Syncs)
=============================================================================
