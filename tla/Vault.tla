-------------------------------- MODULE Vault --------------------------------
(* What surrounds the vault: the review queue, the syncs and the ingest runs. *)
(* They share no step here, so a behaviour is one of one of them.             *)
EXTENDS ReviewQueue

CONSTANTS
    \* of VaultSync
    Syncs, NumNotes, NoteContents, Kind, Records, Saves, Sidecar, Initial, Absent, Broken,
    \* of IngestRun
    NumUnits, Versions, Bearing, Caps, Drafts, None, MaxChanges

VARIABLES
    component,
    \* of VaultSync
    vault, documents, structural, vectors, sync, alone,
    \* of IngestRun
    raw, plan, log, finished, notes, stub, items, indexed, process, changes

Syncing == INSTANCE VaultSync WITH Contents <- NoteContents

Ingest == INSTANCE IngestRun WITH index <- indexed

ASSUME VaultAssumption == Syncing!SyncAssumption /\ Ingest!IngestAssumption

syncVars == <<vault, documents, structural, vectors, sync, alone>>
ingestVars ==
    <<raw, plan, log, finished, notes, stub, items, indexed, process, changes>>

\* What the raw files hold is the same in all behaviours that no ingest run is part of.
AnyInit ==
    /\ component \in {"queue", "sync", "ingest"}
    /\ Init /\ Syncing!Init
    /\ Ingest!Init
    /\ (component # "ingest" =>
            \A u \in 1..NumUnits : raw[u] = CHOOSE v \in Versions : TRUE)
AnyNext ==
    \/ component = "queue" /\ Next /\ UNCHANGED <<component, syncVars, ingestVars>>
    \/ component = "sync" /\ Syncing!Next /\ UNCHANGED <<component, vars, ingestVars>>
    \/ component = "ingest" /\ Ingest!Next /\ UNCHANGED <<component, vars, syncVars>>
AnySpec == AnyInit /\ [][AnyNext]_<<component, vars, syncVars, ingestVars>>

UndisturbedSyncConverges == Syncing!UndisturbedSyncConverges
NoStaleVectorEnters == Syncing!NoStaleVectorEnters
SettledUnitsAreNotExtractedAgain == Ingest!SettledUnitsAreNotExtractedAgain
FinishedRunsAreWhole == Ingest!FinishedRunsAreWhole
=============================================================================
