--------------------- MODULE ManagedActivationRefinement ---------------------
(* The rows and files of ManagedActivation implement a GenerationAuthority,  *)
(* which knows nothing of tampering: a finished file that somebody changed    *)
(* counts as the file that was published there.                               *)
EXTENDS ManagedActivation

Written(r) ==
    [n \in Ordinals(r) |->
        IF files[r][n] \in {"changed", "changing"} THEN "exact" ELSE files[r][n]]
WrittenIndex(r) ==
    IF index[r] \in {Changed, Changing} /\ ready[r] # None THEN ready[r].image ELSE index[r]

\* What a reader that resolves the active generation opens.
Serving ==
    IF active = Zero THEN Zero
    ELSE [request |-> active, files |-> Written(active), index |-> WrittenIndex(active)]

CompleteFiles(r) == [n \in Ordinals(r) |-> "exact"]

Authority == INSTANCE GenerationAuthority WITH
    claims <- intents, serving <- Serving, Complete <- CompleteFiles

\* However many calls of however many processes publish, build, crash and repeat
\* each other, what is served changes once, from generation zero to the complete
\* generation of one claimed decision, indexed as its command asked.
ImplementsAuthority == Authority!Spec

=============================================================================
