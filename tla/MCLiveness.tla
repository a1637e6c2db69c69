------------------------------ MODULE MCLiveness ------------------------------
(* What must happen in the end, component by component: a behaviour is one of *)
(* a small instance of one of six components, in which two processes (one,    *)
(* for the workflow, the evidence and the start) go on and retry.             *)
EXTENDS DownstreamLifecycle, TLC

CONSTANTS p1, p2, d1, d2, o1, o2, c1, c2, r1, b1, b2, live, replay, new, old,
          Nothing, Zero

VARIABLES
    component,
    \* of TemporalReviewWorkflow
    authority, checkpoint, place, invocation, seen, thread, reported, faults,
    \* of StoreCoordination
    file, rollbackJournal, lock, pc, compare, image, view, answers,
    \* of ManagedActivation
    active, intents, events, readiness, activations, published, index, ready, repository,
    writer, at, job, answered, failures, tampering,
    \* of EvidenceBatches
    evidence, residue, evidenceLock, batchJob, minted, deaths,
    \* of StartLifecycle
    claims, byOperation, byRun, done, half, paid, verdict, unfit, start, result,
    losses

-----------------------------------------------------------------------------
(* The instances.                                                            *)

\* A reviewer of each gate, of two minds at the first, and an activation; after
\* analyses with all kinds of work, without questions and with no work at all.
Doc(stage, op, accept) == [stage |-> stage, op |-> op, accept |-> accept]
Submitted(p, first) ==
    IF p = p1 THEN Doc("temporal", IF first THEN o1 ELSE o2, first)
    ELSE IF first THEN Doc("managed", c1, TRUE) ELSE Doc("activate", c2, TRUE)
FourDocuments == {Submitted(p, first) : p \in Clients, first \in BOOLEAN}
Work(questions, subjects, governing) ==
    [questions |-> questions, subjects |-> subjects, governing |-> governing]
ThreeWorks ==
    {Work(TRUE, TRUE, TRUE), Work(FALSE, FALSE, TRUE), Work(FALSE, FALSE, FALSE)}

\* Handles on one database, and one operation, replayed or with another expectation.
Coordination == INSTANCE StoreCoordination WITH
    Handles <- Clients, Operations <- {o1}, Versions <- {c1}, Wanted <- o1 :> c1,
    MaxRevision <- 1, journal <- rollbackJournal, call <- compare

\* A review whose decision is one of two.
Services == {p1}
Workflow == INSTANCE TemporalReviewWorkflow WITH
    Decisions <- {d1, d2}, MaxFaults <- 3, pc <- place, call <- invocation

\* Retries of one activation, one kind of them after a change of settings.
Publish(config) == [request |-> r1, op |-> o1, config |-> config]
Publishing == INSTANCE ManagedActivation WITH
    Services <- Clients, Requests <- {r1}, Publications <- r1 :> 1,
    Calls <- {Publish(new), Publish(old)}, Variants <- {1},
    Mishaps <- {<<1, 0>>}, files <- published, pc <- at,
    answers <- answered, faults <- failures

\* A batch of a LIVE outcome, and one that also has its REPLAY.
Batches == {b1, b2}
Persisted == INSTANCE EvidenceBatches WITH
    Writers <- {p1}, Members <- b1 :> <<live>> @@ b2 :> <<live, replay>>,
    Source <- live :> None @@ replay :> live, MaxCrashes <- 2,
    file <- evidence, lock <- evidenceLock, job <- batchJob, crashes <- deaths

\* One call to start, repeated when the clock has moved on.
StartCall == [op |-> o1, input |-> "x"]
Clock == p1 :> {1, 2}
EveryRefusal ==
    {"suiteLink", "baselineLink", "seed", "classify", "CLASSIFICATION", "assess", "DEPENDENCY"}
Start == INSTANCE StartLifecycle WITH
    Callers <- {p1}, Operations <- {o1}, Calls <- {StartCall}, Times <- Clock,
    Refusals <- EveryRefusal, MaxCrashes <- 3, journal <- paid, call <- start,
    crashes <- losses

ASSUME LivenessAssumption ==
    /\ DownstreamAssumption
    /\ Coordination!CoordinationAssumption
    /\ Workflow!WorkflowAssumption
    /\ Publishing!ActivationAssumptions
    /\ Persisted!BatchesAssumption
    /\ Start!StartAssumption

-----------------------------------------------------------------------------
coordinationVars == <<file, rollbackJournal, lock, pc, compare, image, view, answers>>
workflowVars ==
    <<authority, checkpoint, place, invocation, seen, thread, reported, faults>>
activationVars == <<active, intents, events, readiness, activations, published, index,
    ready, repository, writer, at, job, answered, failures, tampering>>
evidenceVars == <<evidence, residue, evidenceLock, batchJob, minted, deaths>>
startVars == <<claims, byOperation, byRun, done, half, paid, verdict, unfit, start,
    result, losses>>
allVars == <<component, vars, coordinationVars, workflowVars, activationVars, evidenceVars,
    startVars>>

OfDownstream ==
    /\ component = "downstream"
    /\ UNCHANGED <<component, coordinationVars, workflowVars, activationVars,
          evidenceVars, startVars>>
OfCoordination ==
    /\ component = "coordination"
    /\ UNCHANGED <<component, vars, workflowVars, activationVars,
          evidenceVars, startVars>>
OfWorkflow ==
    /\ component = "workflow"
    /\ UNCHANGED <<component, vars, coordinationVars, activationVars,
          evidenceVars, startVars>>
OfActivation ==
    /\ component = "activation"
    /\ UNCHANGED <<component, vars, coordinationVars, workflowVars,
          evidenceVars, startVars>>
OfEvidence ==
    /\ component = "evidence"
    /\ UNCHANGED <<component, vars, coordinationVars, workflowVars,
          activationVars, startVars>>
OfStart ==
    /\ component = "start"
    /\ UNCHANGED <<component, vars, coordinationVars, workflowVars,
          activationVars, evidenceVars>>

LiveInit ==
    /\ component \in
         {"downstream", "coordination", "workflow", "activation", "evidence", "start"}
    /\ Init /\ Coordination!Init /\ Workflow!Init /\ Publishing!Init /\ Persisted!Init
    /\ Start!Init /\ (component # "start" => unfit = None)
    /\ component # "downstream" => \A f \in DOMAIN work : work[f]

LiveNext ==
    \/ OfDownstream /\ Next
    \/ OfCoordination /\ Coordination!Next
    \/ OfWorkflow /\ Workflow!Next
    \/ OfActivation /\ Publishing!Next
    \/ OfEvidence /\ Persisted!Next
    \/ OfStart /\ Start!Next

\* The steps for which the Fairness of each component is weak, and those for which
\* it is strong: no behaviour has steps of two components.
GoesOn(p) ==
    \/ OfDownstream /\ Goes(p)
    \/ /\ OfCoordination
       /\ \/ Coordination!Progress(p) \/ Coordination!Rollback(p)
          \/ Coordination!CloseRaised(p)
    \/ OfWorkflow /\ p \in Services /\ Workflow!Step(p)
    \/ OfActivation /\ Publishing!Step(p)
    \/ /\ OfEvidence /\ p = p1
       /\ \/ Persisted!WritePending(p) \/ Persisted!LinkName(p)
          \/ Persisted!UnlinkPending(p) \/ Persisted!MintCapability(p)
    \/ OfStart /\ p = p1 /\ Start!Proceed(p)

Retries(p, first) ==
    \/ OfWorkflow /\ p \in Services /\ Workflow!Begin(p, IF first THEN "start" ELSE "retry")
    \/ OfActivation /\ Publishing!Begin(p, Publish(IF first THEN new ELSE old))
    \/ OfEvidence /\ p = p1 /\ Persisted!PersistBatch(p, IF first THEN b1 ELSE b2)
    \/ OfStart /\ p = p1 /\ first /\ \E time \in Clock[p] : Start!Begin(p, StartCall, time)
    \/ OfDownstream /\ Submits(Submitted(p, first))

LivenessSpec ==
    /\ LiveInit /\ [][LiveNext]_allVars
    /\ \A p \in Clients :
        /\ WF_allVars(GoesOn(p))
        /\ \A first \in BOOLEAN : SF_allVars(Retries(p, first))

-----------------------------------------------------------------------------
TypesOK ==
    /\ TypeOK /\ Coordination!TypeOK /\ Workflow!TypeOK /\ Publishing!TypeOK
    /\ Persisted!TypeOK /\ Start!TypeOK
TransactionsEnd == Coordination!TransactionsEnd
ReconciliationCompletes == Workflow!ReconciliationCompletes
ActivationConverges == Publishing!ActivationConverges
InterruptedBatchesComplete == Persisted!InterruptedBatchesComplete
StartsSettle == Start!StartsSettle
=============================================================================
