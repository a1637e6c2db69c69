------------------------------- MODULE Records -------------------------------
(* What processes record and read back: with a handle each of the store, on    *)
(* one locked and journaled file; as they adopt a workspace while its files    *)
(* are saved; in provider calls; in batches of evidence that overlap, some of  *)
(* them of a REPLAY.  They share no step here, so a behaviour is one of one of *)
(* them.                                                                       *)
EXTENDS StoreCoordinationRefinement

CONSTANTS
    None,
    \* operation ids of WorkspaceBootstrap, requests of ProviderCalls
    Names,
    \* contents of the workspace, replies of a provider
    FileContents,
    Times,
    \* of WorkspaceBootstrap
    MaxSaves,
    \* of ProviderCalls
    Contracts, MaxCrashes, MaxAttempts,
    \* of EvidenceBatches
    Batches, Members, Source, MaxDeaths

VARIABLES
    component,
    \* of WorkspaceBootstrap
    workspace, intents, aggregate, inventoried, ready, authority, run, links, writer,
    adoption, result, quiet, seen,
    \* of ProviderCalls
    claim, pointer, results, journalLock, process, asked, told, crashes,
    \* of EvidenceBatches
    evidence, residue, batchLock, job, minted, deaths

-----------------------------------------------------------------------------
(* A process has a handle of the store.                                      *)

Bootstrap == INSTANCE WorkspaceBootstrap WITH
    Processes <- Handles, Operations <- Names, Contents <- FileContents,
    file <- workspace, call <- adoption

Journal == INSTANCE ProviderCalls WITH
    Processes <- Handles, Requests <- Names, Replies <- FileContents, lock <- journalLock

Batch == INSTANCE EvidenceBatches WITH
    Writers <- Handles, MaxCrashes <- MaxDeaths,
    file <- evidence, lock <- batchLock, crashes <- deaths

ASSUME RecordsAssumption ==
    /\ CoordinationAssumption
    /\ Bootstrap!BootstrapAssumption
    /\ Journal!CallsAssumption
    /\ Batch!BatchesAssumption

-----------------------------------------------------------------------------
bootstrapVars ==
    <<workspace, intents, aggregate, inventoried, ready, authority, run, links, writer,
      adoption, result, quiet, seen>>
journalVars == <<claim, pointer, results, journalLock, process, asked, told, crashes>>
batchVars == <<evidence, residue, batchLock, job, minted, deaths>>
allVars == <<component, vars, bootstrapVars, journalVars, batchVars>>

\* A component that a behaviour is not of starts in one way only.
RecordsInit ==
    /\ component \in {"store", "bootstrap", "calls", "evidence"}
    /\ Init /\ Bootstrap!Init /\ Journal!Init /\ Batch!Init
    /\ component # "bootstrap" =>
        \A f \in DOMAIN workspace : workspace[f].bytes = CHOOSE c \in FileContents : TRUE

RecordsNext ==
    \/ /\ component = "store" /\ Next
       /\ UNCHANGED <<component, bootstrapVars, journalVars, batchVars>>
    \/ /\ component = "bootstrap" /\ Bootstrap!Next
       /\ UNCHANGED <<component, vars, journalVars, batchVars>>
    \/ /\ component = "calls" /\ Journal!Next
       /\ UNCHANGED <<component, vars, bootstrapVars, batchVars>>
    \/ /\ component = "evidence" /\ Batch!Next
       /\ UNCHANGED <<component, vars, bootstrapVars, journalVars>>
    \* Only of the store is it said that it never comes to rest.
    \/ component # "store" /\ UNCHANGED allVars
RecordsSpec == RecordsInit /\ [][RecordsNext]_allVars

AuthorityHadItsEvidence == Bootstrap!AuthorityHadItsEvidence
ExactRetriesConverge == Bootstrap!ExactRetriesConverge
AskedOnceAnsweredAlike == Journal!AskedOnceAnsweredAlike
CommittedIsComplete == Batch!CommittedIsComplete

=============================================================================
