------------------------- MODULE GenerationAuthority -------------------------
(***************************************************************************)
(* What activation promises those who ask questions of the vault: they are *)
(* served generation zero until, in one step, they are served the whole    *)
(* generation of one decision, and never anything in between or after.     *)
(***************************************************************************)
CONSTANTS
    Requests,       \* decisions that may be activated
    Commands,       \* what an operation asks for: [op, config]
    Complete(_),    \* the files of a decision's generation, all of them
    Images,         \* indexes of a generation: [config, variant]
    None, Zero

VARIABLES
    claims,         \* the command that works on a decision
    serving         \* what is served

Init ==
    /\ claims = [r \in Requests |-> None]
    /\ serving = Zero

\* A decision is worked on by one operation, an operation works on one decision.
Claim(r, command) ==
    /\ serving = Zero
    /\ claims[r] = None
    /\ \A q \in Requests : claims[q] # None => claims[q].op # command.op
    /\ claims' = [claims EXCEPT ![r] = command]
    /\ UNCHANGED serving

Activate(r, image) ==
    /\ serving = Zero
    /\ claims[r] # None
    /\ image.config = claims[r].config
    /\ serving' = [request |-> r, files |-> Complete(r), index |-> image]
    /\ UNCHANGED claims

Next ==
    \E r \in Requests :
        \/ \E command \in Commands : Claim(r, command)
        \/ \E image \in Images : Activate(r, image)

Spec == Init /\ [][Next]_<<claims, serving>>

=============================================================================
