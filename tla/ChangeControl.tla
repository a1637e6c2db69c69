---------------------------- MODULE ChangeControl ----------------------------
(* The way of one change to its accepted revision: the tables of the store;   *)
(* the services of the review workflow on their checkpoints; what is          *)
(* analysed, decided and asked; and queries, which go on while the successor  *)
(* is activated.  They share no step here, so a behaviour is one of one of    *)
(* them.                                                                      *)
EXTENDS ChangeControlStoreRefinement

CONSTANTS
    None,
    \* of TemporalReviewWorkflow
    Services, Verdicts, MaxFaults,
    \* of TemporalAnalysis
    Workspaces, Incoming, Rationales, MaxHops, MaxDepth, MaxCandidates, MaxShards,
    MaxQuestions, MaxTargets,
    \* of QuerySessions
    FileContents, Adopted, MaxSaves

VARIABLES
    component,
    \* of TemporalReviewWorkflow
    authority, checkpoint, place, invocation, seen, thread, reported, faults,
    \* of TemporalAnalysis
    workspace, phase, graph, said, status, workload,
    \* of QuerySessions
    opened, adoption, active, session, shown, saves

Workflow == INSTANCE TemporalReviewWorkflow WITH
    Decisions <- Verdicts, pc <- place, call <- invocation

Analysis == INSTANCE TemporalAnalysis WITH answers <- said

\* The services query, too.
Query == INSTANCE QuerySessions WITH
    Queries <- Services, Contents <- FileContents,
    file <- opened, receipts <- adoption, result <- shown

ASSUME ChangeControlAssumption ==
    /\ Workflow!WorkflowAssumption
    /\ Analysis!AnalysisAssumption
    /\ Query!QueryAssumption

-----------------------------------------------------------------------------
workflowVars == <<authority, checkpoint, place, invocation, seen, thread, reported, faults>>
analysisVars == <<workspace, phase, graph, said, status, workload>>
queryVars == <<opened, adoption, active, session, shown, saves>>
allVars == <<component, vars, workflowVars, analysisVars, queryVars>>

\* A component that a behaviour is not of starts in one way only.
ChangeInit ==
    /\ component \in {"store", "workflow", "analysis", "query"}
    /\ Init /\ Workflow!Init /\ Analysis!Init /\ Query!Init
    /\ component # "analysis" => workspace = CHOOSE w \in Workspaces : TRUE
    /\ component # "query" => adoption /\ \A f \in DOMAIN opened : opened[f].bytes = Adopted

ChangeNext ==
    \/ /\ component = "store" /\ Next
       /\ UNCHANGED <<component, workflowVars, analysisVars, queryVars>>
    \/ /\ component = "workflow" /\ Workflow!Next
       /\ UNCHANGED <<component, vars, analysisVars, queryVars>>
    \/ /\ component = "analysis" /\ Analysis!Next
       /\ UNCHANGED <<component, vars, workflowVars, queryVars>>
    \/ /\ component = "query" /\ Query!Next
       /\ UNCHANGED <<component, vars, workflowVars, analysisVars>>
    \* Operation ids and analyses run out: that is no deadlock.
    \/ component \in {"store", "analysis"} /\ UNCHANGED allVars
ChangeSpec == ChangeInit /\ [][ChangeNext]_allVars

DeliveredIsExact == Query!DeliveredIsExact
CompleteIsFinal == Workflow!CompleteIsFinal
QuestionsMatchTheAnalysis == component = "analysis" => Analysis!QuestionsMatchTheAnalysis
StatesFollowTheDecision == component = "analysis" => Analysis!StatesFollowTheDecision

=============================================================================
