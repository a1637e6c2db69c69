------------------------------ MODULE MCRecords ------------------------------
(* Records, small: two processes with an operation id each; two requests under *)
(* two contracts; three batches, one of them of a REPLAY.                      *)
EXTENDS Records, TLC

CONSTANTS p1, p2, w1, w2, c1, c2, o1, o2, v1, v2, live, other, replay, one, both, copy

\* Each compare-and-swap of the store wants a content of its own.
OneEach == w1 :> c1 @@ w2 :> c2

MembersOf == one :> <<live>> @@ both :> <<live, other>> @@ copy :> <<replay>>
SourceOf == live :> None @@ other :> None @@ replay :> live

\* Names are operation ids and also the requests of provider calls, contents also
\* their replies.
RecordsSymmetry ==
    Permutations(Handles) \cup Permutations(Names) \cup Permutations(FileContents)

=============================================================================
