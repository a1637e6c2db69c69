------------------------------- MODULE ManagedRun -----------------------------
(* The two ends of a managed run: its start and the activation of what came of *)
(* it.  They share no step here, so a behaviour is one of either.              *)
EXTENDS ManagedActivationRefinement

CONSTANTS
    Operations, StartCalls, Times, Refusals, MaxFailures \* of StartLifecycle

VARIABLES
    component,
    \* of StartLifecycle
    claims, byOperation, byRun, done, half, journal, verdict, unfit, start, result,
    failures

\* The processes that run the activation also start runs.
Start == INSTANCE StartLifecycle WITH
    Callers <- Services, Calls <- StartCalls, MaxCrashes <- MaxFailures,
    call <- start, crashes <- failures

ASSUME RunAssumption == Start!StartAssumption

startVars == <<claims, byOperation, byRun, done, half, journal, verdict, unfit, start,
    result, failures>>

RunInit ==
    /\ component \in {"start", "activation"} /\ Init /\ Start!Init
    /\ component = "activation" => unfit = None
RunNext ==
    \/ component = "activation" /\ Next /\ UNCHANGED <<component, startVars>>
    \/ component = "start" /\ Start!Next /\ UNCHANGED <<component, vars>>
RunSpec == RunInit /\ [][RunNext]_<<component, vars, startVars>>

OneOutcomePerRun == Start!OneOutcomePerRun

=============================================================================
