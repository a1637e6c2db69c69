------------------------ MODULE MCDownstreamLifecycle ------------------------
(* A small instance of DownstreamLifecycle: two clients who accept a source    *)
(* that is adopted without any question or revision, and activate.            *)
EXTENDS DownstreamLifecycle

CONSTANTS c1, c2
Doc(stage, op) == [stage |-> stage, op |-> op, accept |-> TRUE]
Acceptances ==
    {Doc("temporal", "t-accept"), Doc("managed", "m-approve"), Doc("activate", "a-one")}
AdoptionOnly == {[questions |-> FALSE, subjects |-> FALSE, governing |-> TRUE]}
=============================================================================
