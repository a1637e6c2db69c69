# Verification of MasterVault

TLA+ models of MasterVault (`src/src/mastervault/`), the TLC configurations that
check them and the TLAPS proofs about them. MasterVault keeps a vault of notes
and answers questions from it; a *change* to what the vault says (a new policy
that supersedes an old one) goes through analysis, a human review, and the
activation of a new *generation* of notes with its own index. The models are
about the parts whose correctness is hard to test: what is durable, what
concurrent processes may do to each other, what a crash leaves behind, and what
a repeated call finds.

Every definition that models code is listed in `PROJECT.json` under `map`, with
the lines it stands for.

## 1. Inventory

State, operations, interactions, what is hard, and what makes it correct. The
column on the right names the module, or says that there is none.

| component | state it keeps | operations | interacts with | hard | module |
| --- | --- | --- | --- | --- | --- |
| change-control store (`store.py`, `review.py`) | SQLite tables: one head row per aggregate, operation receipts, review requests, review decisions | `compare_and_swap`, `create_review_request`, `decide_review`, reads that validate everything first, `init_schema` | all of change control; a lock on the database's directory; SQLite | lost updates, operation ids reused by anybody, reviews that go stale, lost answers, crash in COMMIT, read-only handles without SQLite locks | `ChangeControlStore`, `StoreCoordination` |
| aggregate model (`models.py`) | an immutable value | validation, temporal resolution | store, analysis | constraints that rest on reviewed replacements | rule in `ChangeControlStore`; resolution in `TemporalAnalysis` |
| temporal review workflow (`workflow.py`) | a LangGraph checkpoint database, disposable | `start`, `resume`, `retry`, `status` | reads the store | crash between node and checkpoint, two processes, authority and checkpoint read at different times | `TemporalReviewWorkflow` |
| managed review workflow (`managed_workflow.py`) | checkpoint database | as the temporal workflow | managed store | as the temporal workflow | same control as `TemporalReviewWorkflow` |
| generation activation (`managed_activation_service.py`, `managed_generation_repository.py`) | activation rows in the managed store; published files, an index file and a READY receipt | `activate_reviewed_managed_generation` | managed store, file repository, embedding provider | a saga over rows and files: crashes anywhere, several processes, rivals, tampering | `ManagedActivation` |
| managed store (`managed_store.py`) | tables beside the store's, in the same file | managed review, operation claims, operator runs and their links, active-generation pointer, bootstrap, baselines | base store (shared operation ids) | see the callers | in its callers' modules |
| application facade (`application.py`, `application_start_*.py`) | claims of operation ids, start commands in two files, admissions, stage evidence | `start_change` | everything in change control | a saga of about twenty rows, files and links; two callers with two ids and two clocks | `StartLifecycle` |
| review and activation of a run (`application_downstream.py`, `application_read_models.py`, `operator_run.py`) | none of its own: a phase derived from rows and navigation links | `record_change_review`, `activate_change`, the read models | facade, managed review, activation | no lock around a call; deaths between a decision and its link; every state must be readable | `DownstreamLifecycle` |
| temporal proposal and commit (`temporal_*.py`) | an analysis manifest in the repository | `build_temporal_proposal`, `commit_temporal_proposal` | store, repository | lost acknowledgement, head that moved, evidence that no proposal can be built from | `TemporalAnalysis`; the commit is a step of `StartLifecycle` |
| inference evidence repository (`inference_repository.py`) | create-only files, batch manifests | `persist_batch`, `resolve_batch`, `resolve_verified_batch` | planning, start, downstream | crash between members and marker, shared members, residue of temporary links | `EvidenceBatches` |
| provider-call journal (`application_provider_calls.py`, `application_provider_bridge.py`) | claim, result and pointer files | `begin`, `complete`, the bridge's `complete` | facade, providers | a paid call whose completion is unknown | `ProviderCalls` |
| managed review and staging (`managed_review*.py`, `managed_revision_*.py`, `managed_staging_repository.py`) | staged files with a manifest; managed review rows | plan, stage, request, decide | managed store, evidence repository | manifest-last batches, evidence reopened at each step | rows in `DownstreamLifecycle` |
| managed serving (`query_generation.py`, `managed_serving.py`, `managed_query_resolver.py`) | none; open read-only handles | open, verify, query, verify at close | managed store, repository, bootstrap's guards | the pointer or a file changes while it is open | `QuerySessions`; mapping in `ManagedActivationRefinement` |
| discovery, classification, impact (`discovery.py`, `classification.py`, `dependency_analysis.py`, `impact_*.py`) | none | candidates, assessments, attention paths, workloads | aggregate, review | exhaustiveness, limits, states that change between analysis and review | `TemporalAnalysis` |
| workspace bootstrap (`application.py`, `workspace_bootstrap_repository.py`), legacy index | intent, receipts, authority, run and links in the managed store | `bootstrap`: resolve, attest, record, hand off | managed store, operator run | seven transactions, racing callers, files that anybody saves while they are verified one by one | `WorkspaceBootstrap` |
| regression suite and baseline | immutable evidence | run, reopen | activation guards | - | none: pure computation |
| review queue (`review/`, `cli/review.py`) | `pending/*.md`, `archive/*.md`, target files | `enqueue`, `archive`, `mark_conflict`, `apply` with rollback | ingest and lint (producers), an editor, vault sync | files changed step by step by several parties, any step failing | `ReviewQueue` |
| vault synchronisation (`sync/`) and storage (`storage/`) | documents, structural records, vectors, derived from the notes | `sync_vault`, `load_demo_dataset` | an editor, ingest, review queue, other syncs | a walk, a second read and several transactions, nothing around them | `VaultSync` |
| ingest (`pipelines/ingest.py`, `ingest/`) and run context (`core/`) | run directory: frozen plan, event log; notes; a ledger in memory | `run_ingest`, with `--resume` | queue, providers, budget, sync | resume after a death between a write and its event; a budget that ends anywhere | `IngestRun` |
| ask (`pipelines/ask.py`) | a run directory | `run_ask` | retrieval, providers | one process; a bounded loop | none |
| lint (`pipelines/lint.py`) | none | checks, enqueues | queue | - | none: sequential |
| retrieval (`retrieval/`) | none | fusion, MMR | storage | ranking ties | none |
| document intelligence, contracts, prompts, providers, cli, evals | content-addressed artefacts, or none | conversions, network calls, text | - | - | none: data and I/O rather than control |

How they interact in one sentence: analysis produces a proposal, the store takes
it by compare-and-swap and binds a review to the revision it made, the workflow
waits for the decision, the decision makes the next revision, managed review and
staging prepare a generation, and activation publishes it and moves the pointer
that serving follows. `start_change` and `record_change_review` drive that chain,
recording every paid call and every batch of evidence on the way. The vault has a
second, file-based path: ingest writes notes, sync indexes them, and the review
queue is how producers propose edits of single notes.

## 2. Modules

| module | models | extends / instances |
| --- | --- | --- |
| `ChangeControlStore` | the store's tables; one action per write transaction | |
| `ReviewedHistory` | abstract: what the store promises | |
| `ChangeControlStoreRefinement` | the mapping from receipts to histories | `ReviewedHistory` |
| `StoreCoordination` | handles, lock, journal, pages: how a transaction comes to be atomic | |
| `StoreCoordinationRefinement` | the mapping from pages to the store's tables | `ChangeControlStore` |
| `TemporalReviewWorkflow` | services, checkpoint, authority | |
| `TemporalReviewWorkflowProofs` | theorems about the workflow | `TLAPS` |
| `StartLifecycle` | `start_change`: claims, files, rows, stages of one run | |
| `DownstreamLifecycle` | reviews and activation of one run, and its derived phase | |
| `DownstreamLifecycleProofs` | theorems about the downstream half of a run | `TLAPS` |
| `WorkspaceBootstrap` | `bootstrap`: evidence pinned and verified, seven transactions | |
| `QuerySessions` | a query's session: pins, reads, verification at close | |
| `ProviderCalls` | claims, results, pointers; the call itself | |
| `ProviderCallsProofs` | theorems about the call journal | `TLAPS` |
| `EvidenceBatches` | writers, members, commit markers, capabilities | |
| `EvidenceBatchesProofs` | theorems about batches of evidence | `TLAPS` |
| `ManagedActivation` | services, rows, files, locks of the activation saga | |
| `GenerationAuthority` | abstract: what readers are served | |
| `ManagedActivationRefinement` | the mapping from pointer and files to what is served | `GenerationAuthority` |
| `ReviewQueue` | producer, command, editor, files | |
| `VaultSync` | notes, tables, syncs, an editor | |
| `TemporalAnalysis` | one change from its pairs to the questions about its impact | |
| `IngestRun` | raw files, plan, log, notes, queue, one process at a time | |
| `SmallVault`, `SmallWorkspaces` | the notes that `VaultSync`, the workspaces that `TemporalAnalysis` is checked with | |
| `ChangeControl` | side by side: the store, the workflow, the analysis, queries | `ChangeControlStoreRefinement`; `INSTANCE` of the others |
| `ChangeControlProofs` | theorems about each of them; the store implements `ReviewedHistory` | `TLAPS`, `TemporalReviewWorkflowProofs` |
| `ManagedRun` | side by side: activation, the start | `ManagedActivationRefinement`; `INSTANCE` of the start |
| `ManagedRunProofs` | theorems about both; activation implements `GenerationAuthority` | `TLAPS` |
| `Records` | side by side: the coordination, bootstrap, provider calls, evidence | `StoreCoordinationRefinement`; `INSTANCE` of the others |
| `RecordsProofs` | theorems about each of them; the coordination implements the store | `TLAPS`, `ProviderCallsProofs`, `EvidenceBatchesProofs` |
| `Vault` | side by side: the queue, syncs, ingest | `ReviewQueue`; `INSTANCE` of the others |
| `VaultProofs` | theorems about each of them | `TLAPS` |
| `MCChangeControl`, `MCManagedRun`, `MCRecords`, `MCVault` | values for the constants of the module named, and symmetry | that module |
| `MCLiveness` | side by side: six components under fairness | `DownstreamLifecycle`; `INSTANCE` of the others |
| other `MC*` | the instance of one component in which a finding shows | that component |

Two chains of refinement tie the store together: the pages of a locked file
(`StoreCoordination`) implement the tables (`ChangeControlStore`), and the
tables implement the histories callers reason about (`ReviewedHistory`).
`TemporalReviewWorkflow` relies on one fact about the store, that a review which
is closed stays closed; it is the store's property `ReviewsNeverReopen`, checked
and proved there. `StartLifecycle` has a provider call and a batch of evidence as
one step each, which `AskedOnceAnsweredAlike` and `CommittedIsComplete`
justify; `IngestRun` has a sync as one step, which `UndisturbedSyncConverges`
justifies. The components that one module puts side by side share no step and no
state at the level they are modelled: the first choice of a behaviour is which of
them it is about, so such a run checks each one's own state space, not a product, and
a theorem about such a module says of each component what a theorem about its own
specification would.

### ChangeControlStore

State: `head` (the head row per aggregate: revision and content), `receipts`
(`change_control_operations`), `requests`, `decisions`, and `claimed` (operation
ids that the managed store's tables own). Actions: `CompareAndSwap`,
`CreateReviewRequest`, `DecideReview`, `ClaimByOtherAuthority`. Each is one
transaction, with the checks in the order of the code collapsed into its guard:
the ownership of the operation id, the expected revision, the validity of the
aggregate, and the rule for ordinary writes (`NonReviewTransition`, which is
`_assert_generic_proposed_only` for a first write and
`_assert_non_review_transition` afterwards). A call that raises leaves nothing; a
call that is replayed writes nothing. Both are left to `StoreCoordination`.

An aggregate is a function from review subjects to a status and a body. The rest
of an aggregate moves like a subject that no request binds. A digest is the
content itself, which is injective, as the code takes SHA-256 to be.

### StoreCoordination

State: the database `file` (two pages), its rollback `journal`, the `lock` mode
of every handle, where each handle is, what it means to write (`image`) or has
read (`view`), and the `answers` callers got. A writer takes the exclusive lock,
plays back a hot journal, decides (replay, refuse, write), saves the old pages,
writes the new ones in any order, and deletes the journal. It can fail and roll
back, or die, between any two of these. Where SQLite itself has rolled back (a full
disk, an I/O error: `SelfRollback`), every operation re-raises before the handler that
gives the lock back (`if not self.conn.in_transaction: raise`, `store.py:1463`), and the
lock stays with the handle until its caller closes it (`CloseRaised`). Every caller in
the package does so in a `finally` and none goes on with the handle, so no action uses a
handle again; a caller that kept it would shut all others out. A read-only handle takes the shared lock
for its life, refuses a journal, and fetches pages when it needs them. The pages,
the journal and its recovery are SQLite's and are marked external.

### TemporalReviewWorkflow

State: the `authority` (open, stale, or a decision), the `checkpoint`, and per
service the call, the authority view it works with, the thread as the running
graph has it, and the last status it `reported`. `Phase` is `_status_from`,
`Invocation` is what `start`, `resume` and `retry` do in each phase, `Reconcile`
and `AwaitWakeSignal` are the two nodes; `Save` is LangGraph's, and the next node
may run before the last one is saved.

### ReviewQueue

State: the `target` note, the derived `index` of it, `pending/`, `archive/`, the
`producer`'s enqueue in progress, the review `command` in progress, and whether
the operator has been `warned` that the index may be stale. Every file operation
of `enqueue`, `apply`, `rollback` and `archive` is a step that may fail where the
code has a handler.

### ManagedActivation

State: the rows (`active`, `intents`, `events`, `readiness`, `activations`), the
disk (`files`, `index`, `ready`), the two locks, each service's place and locals,
and the `answers`. The steps follow `activate_reviewed_managed_generation` from
the preflight to the last verification after the commit, with the repository's
create-only files (linked under a temporary name first, so that a crash leaves
two links) and the READY receipt that seals the index. Rows change in
transactions; the transaction that moves the authority is opened up, because it
reopens the files while it is open. Left out is the transaction that binds the claimed
activation of an operator's run to its generation-zero baseline
(`bind_activation_to_generation_zero_baseline`), between the claim and the first file: it
has an operation id of its own, is replayed exactly by every retry, and a call that
cannot make or replay it ends there, with the claim in place, as a crash after the claim
does.

`ManagedActivationRefinement` maps a file that was tampered with to the file that
was published there: `GenerationAuthority` is about what the service publishes,
and what tampering may do is `TamperedIsNeverActivated`'s question.

### StartLifecycle

State: `claims` (SQLite: which request and time own an operation id), `byOperation`
and `byRun` (the two names of a start command), `done` (the durable steps of the run,
each with the operation id it is derived from), `half` (create-only files a death
left with two names), the provider `journal`, the classification's `verdict`, `unfit`,
and what each caller does and was told. `unfit` is fixed for a behaviour: the step of
`Judged` after which the lifecycle finds that it cannot go on with this run (no single
predecessor, no support, a rationale or a workload over its limit, recorded answers that
break their contract or contradict each other). Source, workspace, settings and recorded
answers are the same at every retry, so `After` raises there each time; what exactly is
judged is `TemporalAnalysis`'s. `Steps` are the stages of
`run_start_change_lifecycle` in its order; `Perform` is the row or file that a stage
leaves, `Reopens` is what a retry finds. Callers have clocks of their own, die
anywhere, and use several operation ids.

### DownstreamLifecycle

State: `decided`, `opened`, `receipt` (rows), `links`, `files`, the provider `call`
per stage, `noops`, and what each client has in hand. There is no phase variable:
`Derive` computes it from rows and links as `_derive_operator_run_phase` does, and
`Allowed` is what the read model accepts of it. `Review` and `Activate` plan the writes
that the code makes from what it read, and each write is an action. `Plan` puts them
in order: `Decision` for a review, which an accepted temporal one continues with
`Advance`, and `Activation`. `Status` is what `get_change_status` shows and `Listed`
what `list_changes` does of a run that stays as it is between the two reads it compares
(one that moves on in between makes it raise as well). `Derive` has the code's case of a
managed decision without an activation plan, which no generic run meets: accepting its
bundle always plans an activation (`Planned`).

### WorkspaceBootstrap

State: the workspace's two files (`vault`, `index`: bytes, and a stamp for the inode's
identity and times, which a save changes even if it brings the bytes back), the rows
(`intents`, `aggregate`, `inventoried`, `ready`, `authority`, `run`, `links`), the
process whose handoff transaction is open, and each call with the receipts it holds
and what its guards pinned. Each stage of `_bootstrap_locked` is an action; `Verify`
asks one guard at a time, because a file may be saved between two questions. `quiet`
and `seen` are history variables of the two properties. What happens to the run
afterwards (`StartChange`, `Propose`, `Activate`) is there as far as a repeated
bootstrap can meet it.

### QuerySessions

State: the files, whether the bootstrap's `receipts` are there, the `active` number,
and per query its session: what it pinned, which index it `serve`s from, and whether
every byte it read was the adopted one (`exact`, a history variable). A read-only store
holds the directory's lock, so that `Activate` and `Bootstrapped` wait for it; editors
do not.

### ProviderCalls

State: the claim, pointer and result files with the number of names of their inodes,
the lock, each process, and two history variables: how often each request was paid
for (`asked`) and what was answered (`told`). `begin` leases a call that is `Fresh`,
answers one that is `Completed`, and refuses any other as indeterminate.

### EvidenceBatches

State: each file (absent, linked under two names, exact), the directories with
residue, the lock, each writer's job, and the batches whose capability was given out.
A write is `WritePending`, `LinkName`, `UnlinkPending`; `Preflight` is what is read
before the first write, and `WriteOrder` is `MemberFiles` with the marker last.

### VaultSync

State: the `vault` (what each path holds), the tables `documents`, `structural` and
`vectors`, and what each sync does. A sync walks and hashes path by path, reads path by
path (a second time, as the code does), compares, upserts one changed note per
transaction, prunes, rewrites structural rows, asks for stale records and embeds them
in one transaction. "load" is `load_demo_dataset`: a metadata-only sync, then the
sidecar's vectors that match. A hash is the content it was taken of. `alone` is a
history variable: nobody has saved a note or written since the sync began.

### IngestRun

State: the `raw` files, the frozen `plan`, the last terminal event of each unit
(`log`), the `notes` and the concept's `stub`, the queued `items`, the `index`, and the
process. Any step may be the last of a process; the run is then resumed with a new
ledger, or another is begun. A paid call costs one. Extraction asks once for a unit; the
routes keep no state, so `Route` pays again for the adjudication of every completed unit
in each process, as the module docstring of `ingest.py` says ("always re-runs in full").
`SettledUnitsAreNotExtractedAgain` is about the former only.

### TemporalAnalysis

State: the `workspace` (documents with their family, logical identity, first day and
declared end, and claims with what they affect), the `graph` (what each pair of a
changed and another claim was assessed as), the `answers` about dependencies, the
`status` of what was proposed, and the `workload` of impact questions. `Classify` is
discovery and classification, `Analyse` the dependency analysis, `Propose` the temporal
proposal, `Decide` the review, `BuildImpact` what `_preflight_impact_inference` and
`build_impact_workload` do after it; `Refuse` is a stage before the review that raises,
`EndUnchanged` a run without a superseded claim. `Resolve` is
`TemporalResolutionContext` for one day; `RelationPaths`, `Exposed`, `AttentionPaths`
and `Attention` are the ranking of attention, which refuses what lies beyond its limits.

Answers of providers are any that validate, and every subject may be decided either
way. The kinds of dependency that are treated alike are one, `operative`. Of several
shortest paths to a claim the code takes the least by content hash and the model any,
always the same one. Limits on bytes are left out, limits on numbers are constants. A
stage that refuses finds the same evidence at every retry, so phases without a
successor are final.

## 3. Runs

| run | module / cfg | question | bounds |
| --- | --- | --- | --- |
| `change_control` | `MCChangeControl` | does every order of writes, requests, decisions and foreign claims keep the store valid, its history single and its reviews final; is a reported completion final; does a decision mean what its dates say, and is all that depends on it asked about; is a query's answer exact? | store: 1 aggregate, a replacement and a constraint that rests on it, 2 bodies, 5 operation ids that come into use in one order, revision 3; workflow: 2 services, 1 decision, 1 fault; analysis: 11 workspaces, 2 rationales, 2 hops, depth 1, 3 candidates, 3 documents, 3 questions, 2 targets; queries: 2, 2 contents, 2 saves |
| `managed_run` | `MCManagedRun` | has a run's start one outcome; is what is active complete, sealed and untampered, served once, and are answers true? | start: 2 callers, 2 operation ids, 2 times, 2 deaths, a refusal after 2 of the steps; activation: 2 services, 2 decisions (2 files and 1) with crossed operation ids, 4 calls, 2 index variants, 1 failure or 1 change |
| `records` | `MCRecords` | is a transaction atomic and durable, are readers and answers right; is an adoption backed by evidence, a call paid once, a batch complete? | coordination: 2 handles, 2 operations, 2 contents, revision 2; bootstrap: 2 processes, 2 operation ids, 2 contents, 2 times, 1 save, unlimited deaths; calls: 2 processes, 2 requests, 2 contracts, 3 attempts, 1 death; evidence: 2 writers, 3 batches, 2 deaths |
| `vault` | `MCVault` | are edits, items and the index safe; does a sync put right what was left; is a finished ingest whole? | queue: 2 proposals with one id, 1 edit, 2 files, 1 interrupt; sync: 2 processes, 2 notes, unlimited deaths; ingest: 3 files, 2 versions, a budget of 3, 1 change, unlimited deaths |
| `liveness` | `MCLiveness` | does everything end that must; is a run readable, its first decision final? | 2 processes (1 for the workflow, the evidence and the start), 4 documents and 3 kinds of work for a run, the faults below |
| `review_enqueue_race` | `MCReviewQueue`, `...Race.cfg` | finding | no interrupt |
| `evidence_retry` | `MCEvidenceBatches`, `...Retry.cfg` | finding | 1 writer, 2 batches, 1 death |
| `downstream_stuck` | `MCDownstreamLifecycle`, `...Stuck.cfg` | finding | 2 clients, 3 documents, 1 death |
| `sync_moved` | `MCVaultSync`, `...Moved.cfg` | finding | 1 sync, a note that moves |
| `sync_orphans` | `MCVaultSync`, `...Orphans.cfg` | finding | 2 syncs, 2 notes |
| `ingest_concept` | `MCIngestRun`, `...Concept.cfg` | finding | 2 files that bear on one concept |
| `declared_end` | `MCTemporalAnalysis`, `...Ending.cfg` | finding | 11 workspaces, the code's own limits |

Why the bounds are enough. `change_control`: of the store, revision 3 is the smallest
history in which a request goes stale and the content it was made for comes back (1,
other, same), and in which two subjects are decided after each other; five operation ids
allow two writes, a request and a decision with one left to be claimed, and ids are
interchangeable, so that the order in which they come into use does not matter. One
aggregate suffices because no action relates two except through operation ids. Of the
analysis, the workspaces have two claims on one older claim, targets within and beyond
the limits, two versions of one logical document, older and future versions in the
family, and declared ends on and after the day of the change; limits are small enough to
be met and exceeded; two saves are a file that changes and changes back, or both files
of a workspace, between two looks of a query.

`managed_run`: two decisions of one base are all the rivalry there is, since the service
supports exactly one successor of generation zero; two files are needed to have one
published and the other not, two variants to tell a rebuilt index from the recorded one.
A second failure adds retries of retries, and what holds of those is proved for any
number of failures and changes.

`records`: a handle whose process died is opened again, so that two handles are as many
readers and writers, one after the other, as there are steps, and revision 2 has two
commits to mix (any number of handles at once is in the proofs); a file that was saved
has a new stamp for good, so that one save, of either file, before, between or after the
looks of two bootstraps at it, is what a guard has to notice; three batches are two that
overlap and one that replays a member of both.

`liveness` has the two minds of a temporal reviewer for the decision that is retried
against another, and a run with all kinds of work, one without questions and one with
nothing to do; any documents and works are in the proofs.

`vault`: two proposals that share an id and an archived file of the same name are the
collision the suffix rule is for; the first note changes the text of one record and
loses another, passes through a state that fails the gates, and the second appears, so
that every branch of a sync happens, with a second sync that works on an older view;
three files are two that bear on one concept and one that needs adjudication, and a
budget of three ends in the extraction of the first process and can last for the resumed
one.

Bounds by name: `MaxRevision` caps revisions, `MaxFaults` crashes and failing
steps, `Mishaps` which numbers of crashes and failing steps go with which numbers of
changes by other programs, `MaxCrashes` deaths, `MaxAttempts` a process's attempts,
`MaxAttempt` the suffix of a queue filename, `MaxFiles` the files of
a queue, `MaxInterrupts` interrupts, `MaxChanges` changes of raw files, `MaxSaves` the saves
of pinned files. Where a death
needs no bound to keep the state space finite (`VaultSync`, `IngestRun`,
`WorkspaceBootstrap`, `QuerySessions`) it has none.
`CHECK_DEADLOCK FALSE` is set for
the runs whose components may come to rest: attempts are used up, a run is settled
and its dead callers stay dead, a queue is full and quiet. `change_control` and
`managed_run` are checked for deadlock; in the former only the store, whose operation ids
may be used up, and the analysis, which ends, may stand still. `records` is checked for
deadlock too, but asks it of the coordination only.

Safety runs use symmetry over operation ids, bodies, processes, services or callers;
runs with liveness properties do not.

Conditions in the properties. `UndisturbedSyncConverges` is about a sync during which
nobody saves a note or runs another sync, after any history of syncs that died or
overlapped. The instance's editor never restores an earlier content of a note and
record ids stay in their notes: the code hashes a file in its walk and reads it again
later (`indexer.py` `_prepare`), so that a save in between stores the hash of one text
with the rows of another, and an editor that then brings the first text back leaves
rows that no later sync but `--full` touches; and ids that move are the finding
`sync_moved`. `EditsGoForward` states both conditions, and the property is proved under
them. `StartsSettle` and `InterruptedBatchesComplete` name what a death can
take for good: a paid call whose answer was lost, a file left with two names. A run that
the lifecycle itself refuses has no outcome either, and stays owned: `StartsSettle` says
of it only that a caller is told. The run `liveness` has a refusal after each step of
`Judged`, `managed_run` after two of them.

### Fairness

A process that neither died nor waits goes on, and callers repeat exactly what they
called; nothing is assumed about dying, about waiting for a lock, or about who calls
first. In `MCLiveness`, `GoesOn(p)` is weakly fair and `Retries(p, first)` strongly,
which is each component's own `Fairness` for the instance:

- `StoreCoordination`: weak fairness of the steps of a transaction that holds the
  lock, and of the close in its caller's `finally` when the operation has raised with
  the lock in hand; no more. `TransactionsEnd` rests on that close: without
  `CloseRaised` under fairness it does not hold.
- `TemporalReviewWorkflow`: weak fairness of a call that runs, strong fairness of
  calling `start` and `retry` again; nobody has to call `resume` or `status`. At most
  3 faults.
- `ManagedActivation`: weak fairness of a call that runs, strong fairness of making
  every call again, which is how the service is meant to be used ("each invocation
  reopens immutable receipts and can therefore converge after process failure or a
  lost acknowledgement"). At most 1 fault.
- `EvidenceBatches`: weak fairness of a write in progress, strong fairness of
  persisting each batch again. At most 2 deaths.
- `StartLifecycle`: the same for a caller inside its call and for the exact call
  repeated, each caller with its own clock. At most 3 deaths of one caller.
- `DownstreamLifecycle`: the same for a client with writes in hand and for each
  document submitted again by anybody. At most 1 death.

Retrying is strongly fair because a call is disabled while its own caller is busy or
another one holds the lock, and enabled again afterwards.

### What the runs found

- `review_enqueue_race`: `enqueue()` probes `archive/` and creates in `pending/`
  in two steps. If an item of that filename is archived in between, the new item
  has a name that `archive()` refuses, although the comment promises that "the
  new item can still be resolved".
- `evidence_retry`: a death between `link()` and `unlink()` of an artifact, an outcome
  or a batch marker leaves a file with two names, which every retry reads, and refuses,
  before it reaches the cleanup that decision 0010 describes.
- `downstream_stuck`: a death right after the link of an accepted temporal decision
  leaves a phase without the request that its packet needs; reading the packet raises
  an error that `record_change_review` does not handle, so no retry gets past it.
- `sync_moved`: a moved note is inserted before the document it was is deleted, and
  both have the same claim ids, which are a primary key: every sync is refused, `--full`
  included, although the index is "rebuildable at any time from the files".
- `sync_orphans`: of two overlapping syncs the older can write vectors of records that
  the newer dropped; no later incremental sync removes them, which
  `_drop_orphan_record_vectors` is there to prevent. A full sync or a load upserts every
  document (`sqlite.py:363`) and does remove them.
- `ingest_concept`: a death between a concept's stub page and its queue item, or a
  budget that ends before the draft, and the concept is never proposed, although the
  route phase is said to be "idempotent by construction".
- `declared_end`: accepting the supersession of a claim whose document declares an end of
  its own, other than the day of the change, makes the claim `unresolved`; the questions
  about the change's impact then refuse to be built, after the decision is committed and
  at every retry.

One defect has no run that fails. Between the receipt of an activation and its link the
derived phase is `activated` (`managed_store.py:2758`) and the status, on purpose, still
`ready-to-activate` ("Keep the public run resumable until exact activation evidence is
linked", `application_read_models.py:397`); `list_changes` raises on the difference
(`:601`). A death in between leaves every listing with that run on its page raising,
until somebody repeats the activation, although `CHANGE_CONTROL.md:17` promises a
"read-only deterministic newest-first listing". `StatusAlwaysReadable` says, `liveness`
checks and `StatusIsReadable` proves that a listing raises there and nowhere else.

Met while modelling, without a run of their own: the last check of `bootstrap()`
(`application.py:1649`) demands that the run's links are exactly the four of the
bootstrap, so that an exact retry after `start_change` has linked its source is refused
with an integrity error although nothing of the bootstrap changed, while decision 0016
says (`0016-generic-sqlite-workspace-bootstrap-and-application-boundary.md:141`) "An
exact retry returns the same immutable receipts and authority after reopening all
evidence" (`ExactRetriesConverge` is stated for a run without further links); `archive()` can be cut off between
the copy and the unlink; a line of `events.jsonl` that a death cut short makes every
resume raise; a text source is read again after the plan without comparing its hash, so
a note's `provenance_hash` can be that of another text; two services of different
processes that retry one workflow thread in lockstep can overwrite each other's
checkpoints for ever (`ReconciliationCompletes` is checked for one service, which is
what the class promises: its lock is a lock of one process); two changed claims that
supersede one older claim, with dependency answers of the same kind and different words,
make `_merge_dependencies` (`temporal_proposal.py:457`) raise at every retry, although
each answer is valid (`Refuse` in `TemporalAnalysis`); two current documents of one
logical identity, or more than 16 current targets where the dependency analysis allows
32, pass analysis and review and stop the run only after the decision (`CannotBuild`).

## 4. Proofs

For every value of the constants that the named assumption of the module allows, TLAPS
proves what the eight `...Proofs` modules state: all safety properties, action properties
and refinements that the passing runs check, but for `TypesOK` ("What is only
model-checked"). Each component has one inductive invariant, shown to hold initially and
to be kept by every action, one lemma per action; each property is then a consequence of
the invariant, or, for an action property or a refinement, of the invariant and the step.
TLC finds the invariants of the components that are put side by side to hold on the
instances of the runs as well.

| module | component | theorem of its invariant | theorem | property |
| --- | --- | --- | --- | --- |
| `ChangeControlProofs` | store | `StoreInvariant` | `TypeCorrect` | `TypeOK` |
| | | | `StoreAlwaysValidates` | `StoreValidates` |
| | | | `HistoryNeverForks` | `ReceiptsFormOneHistory` |
| | | | `RevisionsDiffer` | `EveryRevisionDiffers` |
| | | | `DecisionsBindTheirBase` | `DecisionsSeeTheirRevision` |
| | | | `DecidedAtMostOnce` | `SubjectDecidedOnce` |
| | | | `ReviewsAreFinal` | `ReviewedStateIsDecided` |
| | | | `ReplacementsFirst` | `ReplacementsAreDecidedFirst` |
| | | | `ReviewsStayClosed` | `ReviewsNeverReopen` |
| | | | `OpenSubjectsStay` | `OpenSubjectsAreFrozen` |
| | | | `StoreImplementsHistory` | `ImplementsReviewedHistory` |
| | workflow | that of `TemporalReviewWorkflowProofs` | `StatusesAreFinal` | `CompleteIsFinal` |
| | queries | `SessionInvariant` | `ShownIsVerified` | `DeliveredIsExact` |
| | analysis | `AnalysisIsKept` | `QuestionsMatch` | `QuestionsMatchTheAnalysis` |
| | | | `StatesFollowed` | `StatesFollowTheDecision` |
| `RecordsProofs` | coordination | `CoordinationInvariant` | `CoordinationTypes` | `TypeOK` |
| | | | `ReadersAreConsistent` | `ReadersSeeOneCommit` |
| | | | `AnswersAreFinal` | `AnswersStayTrue` |
| | | | `CoordinationImplementsStore` | `ImplementsStore` |
| | bootstrap | `AdoptionInvariant` | `AuthorityIsBacked` | `AuthorityHadItsEvidence` |
| | | | `RetriesConverge` | `ExactRetriesConverge` |
| | calls | that of `ProviderCallsProofs` | `ProvidersAreAskedOnce` | `AskedOnceAnsweredAlike` |
| | evidence | that of `EvidenceBatchesProofs` | `CommitMarkersMeanWhole` | `CommittedIsComplete` |
| `ManagedRunProofs` | activation | `ActivationInvariant` | `ActivationTypes` | `TypeOK` |
| | | | `ActiveGenerationIsComplete` | `ActiveIsComplete` |
| | | | `EvidenceIsKept` | `ReceiptsKeepTheirEvidence` |
| | | | `AnswersAreFinal` | `AnswersStayTrue` |
| | | | `TamperedNeverActivated` | `TamperedIsNeverActivated` |
| | | | `ActivationImplementsAuthority` | `ImplementsAuthority` |
| | start | `RunStartInvariant` | `RunHasOneOutcome` | `OneOutcomePerRun` |
| `VaultProofs` | queue | `QueueInvariant` | `IndexIsReported` | `StaleIndexIsReported` |
| | | | `EditsAreKept` | `EditsSurvive` |
| | | | `ItemsAreKept` | `ItemsAreNeverLost` |
| | syncs | `SyncRunInvariant` | `StaleVectorsStayOut` | `NoStaleVectorEnters` |
| | | `ConvergingIsKept` | `SyncsConverge` | `UndisturbedSyncConverges` |
| | ingest | `IngestRunInvariant` | `RunsAreWhole` | `FinishedRunsAreWhole` |
| | | | `UnitsAreNotExtractedAgain` | `SettledUnitsAreNotExtractedAgain` |
| `ProviderCallsProofs` | calls | `CallsInvariant` | `ProviderAskedOnce` | `AskedOnceAnsweredAlike` |
| `EvidenceBatchesProofs` | evidence | `EvidenceInvariant` | `EvidenceTypes` | `TypeOK` |
| | | | `CommittedBatchesAreComplete` | `CommittedIsComplete` |
| `TemporalReviewWorkflowProofs` | workflow | `WorkflowInvariant` | `WorkflowTypes` | `TypeOK` |
| | | | `CompletionIsFinal` | `CompleteIsFinal` |
| `DownstreamLifecycleProofs` | downstream | `LifecycleInvariant` | `LifecycleTypes` | `TypeOK` |
| | | | `StatusIsReadable` | `StatusAlwaysReadable` |
| | | | `RejectionsAreHarmless` | `RejectionHasNoEffects` |
| | | | `FirstDecisionIsFinal` | `FirstDecisionStands` |

Assumptions. They say that the constants have the shape the code gives them (functions
with the right domain, bounds that are natural numbers, "nothing" that is not a value or
a row), and four facts: documents of one operation id are one document
(`DownstreamAssumption`), the content that a proposal makes is neither the original nor
an editor's (`QueueAssumptions`), what a REPLAY repeats is a LIVE outcome
(`BatchesAssumption`), and a workspace's claims, edges and dates are those of its
documents (`AnalysisAssumption`), which the code validates before it analyses. None
bounds the number of processes, operations, files or deaths. A module that puts
components side by side asserts what they assume, under one name
(`ChangeControlAssumption`, `RecordsAssumption`, `RunAssumption`, `VaultAssumption`,
`LivenessAssumption`); `StoreAssumptions`, `ActivationAssumptions` and `QueueAssumptions`
are asserted in their components. TLC evaluates all of them in the passing runs.

Two theorems have a hypothesis of their own, `EditsGoForward` of `VaultSync`:
`ConvergingIsKept` and `SyncsConverge` hold under edits that bring no content of a note
back once it was left, of notes that share no record, with a sidecar whose rows belong to
the notes of their records. Why the code needs it is told in section 3; `MCVault` asserts
it of the instance's edits (`ForwardEdits`), so that TLC evaluates it in `vault`. A note
may still break, heal, vanish and come any number of times; only a content that was
indexable is never restored.

### The store

None of its properties is inductive alone: that decisions bind their base needs the
history not to fork, that the history does not fork needs operation ids to have one
owner, that ids have one owner needs every review to have its receipt. `StoreInv` is:

- `TypeInv`: the types, with revisions and expected revisions tied together;
- `HistoryInv`: for every aggregate, the changed receipts are one per revision and
  the last is live, and unchanged receipts name the content of their revision;
- `OwnershipInv`: an operation id is in one receipt at most and never in `claimed`;
- `ReviewsInv`: every request and decision has exactly its receipt, and the base
  of a request is the content of its revision;
- `DecidedInv`: live reviewed subjects are those that decisions covered, as they
  left them, and no two decisions of an aggregate share a subject;
- `ReplacementsAreDecidedFirst`, which a new decision keeps by `DecidedInv`: an accepted
  replacement that it does not cover itself was live, so an earlier decision covered it.

The refinement shows that `CompareAndSwap` maps to `Propose` or `Observe`, a request and
a foreign claim to `Observe`, and a decision to `Review`, under the mapping that reads an
aggregate's history off its receipts.

### Its coordination

`Alone` is mutual exclusion: whoever is in a transaction is the only one that holds the
lock. With it, what file and journal are at each place of a transaction (`AsOpened`,
`AsWritten`, `AsJournaled`, `AsCommitted`) is untouched by the others: after the journal
is written, every page of the file is the journal's or the new one, so that playing the
journal back gives the old commit and deleting it commits the new one. `Readers` says
that a read-only handle has found no journal and that its pages are the file's; `History`
that an operation id has one receipt and every answer is remembered by what is committed.
The refinement follows: `Committed` changes in `DeleteJournal` only, from a state in
which `Transact` is a compare-and-swap that the store allows.

### Activation

The invariant has a part that all services share (files are recorded in order, from the
first; a recorded index is on the disk, sealed, and built as its command asked; an active
generation has all its rows; nobody is told anything before there is one) and a part per
service (`Claimed`, `Publishing`, `Building`, `Activating`): what the service at each place
of its call may rely on although others ran in between, which is mostly that rows only
grow and that `repository` and `writer` have one holder. A file changed by another
program is told apart by when it changed: one that changed before the authority
transaction makes it refuse. The refinement maps the commit of that transaction to the
only step of `GenerationAuthority` that changes what is served.

### The start of a run

At most one caller is within the run's lock (`OneWithin`), and what a call is about to do
next says what is behind it (`PlaceOK`): once it has passed the check of the owner, the
run is its operation's, so that what it finds in the journal, the files and the rows was
left by calls of the same command. With `StartRows` (an outcome file rests on the verdict,
the verdict on a recorded classification, a commit on the temporal batch) an outcome is
the one that the classification calls for, and a second one would need a second verdict.

### Provider calls and evidence

Calls: only an absent claim begins an attempt and a claim is never removed, so two
processes are never about one request (`OneAtATime`), `asked` is zero until the process
that holds the claim asks, and a pointer is linked by it alone after the result it names.
Batches: a file moves from absent over linked to exact only; a writer has exact files
behind it and the marker last before it (`AtItsPlace`), so that a marker has its batch
(`Complete`), a capability its directories (`Given`), and a REPLAY its source (`Repeated`).

### The workflow

A review closes once, so every view of the authority that is not "open", in a service, a
running thread, the checkpoint or a report, is the authority's last word (`Seen`), and a
thread has ended exactly when it has observed a closed review (`Sound`).

### Queries

A stamp only grows, so that a pin is the file or older than it, for good (`Pinned`).
`SessionInv` says for each stage what has been compared so far, and of an answer that is
not exact that one of the files it was searched in differs from its pin and is still to
be verified (the sequence `checks`). A file that was saved and saved back differs in its
stamp, so that the verification which follows refuses it.

### Analysis

What a phase establishes is kept by the later ones because nothing it was computed from
changes: the workspace never does, the graph is fixed when the pairs have been assessed,
and a status is given to the governing edges only (`AnalysisInvariant`). The questions
rest on two functions that are built step by step, the claims that an exposure reaches
(`Exposed`) and the paths of the traversal (`RelationPaths`). Theorems of induction take an
operator as a parameter, which no installed prover can instantiate; the proofs use
induction over a *set* of numbers (`NumbersFromZero`, from well-foundedness), first to
show that the function which the definition chooses exists, then that a path has the
ends and the length its question says, and that whatever is found within the limits has
a path. That the decision moves the states of the claims it is about and of no other
follows from the dates: the incoming document is current on the day of the analysis.

### Bootstrap

Rows rest on each other (`Rows`): an intent per operation id, an aggregate of an intent,
a receipt, a readiness that binds it, an authority of all three, and a run and links
after the authority. A call holds the receipts that are durable (`Founded`), since an
exact retry reads them back rather than trusting its own. Its pins are of the file or of
what was there before, and are the file while nobody saves (`PinOf`). The authority is
written after the guards have looked at one file and then at the other: at the commit,
*if* the files that are still to be verified are as they were pinned, both were the
adopted ones together at a moment since the row was staged (`Attesting`; `seen` is the
history of what was there). With nothing left to verify that is
`AuthorityHadItsEvidence`; the weaker statement that each file was right when it was
looked at would not be inductive, nor would it be what the row claims. Retries converge
because in a quiet workspace the guards of every place follow from `Founded`.

### A run's downstream half

Rows and links only grow, and each rests on an earlier one (`Founded`): work on an
accepted temporal decision that is linked, the managed decision on an opened request that
is linked, the activation on an accepted managed decision. A client with writes left
submitted the document whose decision allows them, and they are what is left of its plan
(`Reviewing`, `Approving`, `Activating`). Both are needed for each other: the plan of a
client says what its next write may rest on, and the rows say that no other client's
write can have taken it away.

### The queue

The item in the hands of a command is pending until its resolution is in `archive/`
(`ItemInHand`), and outside of the places where a hook or a rollback is about to run the
index is the target's or the operator has been warned (`Reported`).

### Syncs

`alone` holds while nobody saves a note and no other sync runs. Of such a sync, every
note that it has read is what the file holds (`Current`), and the vectors it is about to
write are of records of notes it has read, with their texts, or of rows of the sidecar
that match them (`VectorsAreRead`); what it writes is therefore live. For that nothing
need be known of the tables that syncs which died or overlapped have left.

That an undisturbed sync converges needs both the tables and the run. `Converging` gives
the former a form that any history of syncs keeps (`Tables`): every row is of a content
that its file has held, its hash is of that content or an older one, and the file has
since only become younger; a path has one document; a vector belongs to the document of a
note that has its record. Since edits go forward, a row whose hash is the file's is
therefore of the file's content: it may be skipped, and this is the step that fails for an
editor who restores a text. Of the run it says how far it has come (`Undisturbed`): what
it has seen are the files as they are (`Looked`, `Seeing`), and the notes it has passed
are stored, have their structure and, unless it is a metadata-only sync, their vectors
(`Stored`, `Structured`, `Embedded`); its remaining writes are to other notes, which share
no record with those. There is one lemma per action, and one for what a step of a sync
that another one disturbs leaves of the tables.

### Ingest runs

The log is true of the notes (`LogIsTrue`: what is logged as completed has a note of the
planned version), and each phase of a process leaves its work whole: what it has written
is what the log has as completed, everything planned is settled, still to do, or given up
for the budget or a failure (`WorkIsWhole`), and what has been routed so far is routed
(`RoutesAreWhole`). A process that dies takes only its own part with it, since the one
that resumes starts from the log; so whatever is to do was never settled (`TodoIsOpen`),
whichever process settled it, and is not extracted again. The routes have no such
guarantee: they are taken again for every completed unit.

### Components side by side

Provider calls, evidence and the workflow have theorem modules of their own, and
`Records` and `ChangeControl` have them with other names for their variables. Their
theorems are reused through an `INSTANCE` with the same substitution: the instance's
definitions are shown equal to the component's, and a behaviour of the whole is one of
the component with stuttering.

### What is only model-checked

Liveness and `ENABLED` are out of the prover's reach: `TransactionsEnd`,
`ReconciliationCompletes`, `ActivationConverges`, `InterruptedBatchesComplete`,
`StartsSettle` and `ReceiptsGetLinked`.
`TypesOK` of `MCLiveness` is the conjunction of its components' types at that
instance; the types of the coordination, the workflow, activation, evidence and the
downstream half are proved one by one, and the start's are part of `StartInvariant`.

## 5. Plan

Done: the store and its proofs, its coordination, the review workflow, activation,
evidence batches and provider calls, the start and the downstream lifecycle, workspace
bootstrap and query sessions, the review queue, vault synchronisation and ingest, and
the analysis of a change, each with its proofs. Not done, in this order:

1. **Managed review and staging**, the request and decision protocol with evidence
   reopened at every step, and staging's manifest.
2. **Pure algorithms** against reference definitions: rank fusion, MMR, the ask loop's
   bound.

## 6. Not modelled

The largest files of change control (`managed_review.py`, `recorded_inference.py`,
`discovery.py`, `models.py`, most of `managed_store.py`) are validation: they rebuild
an immutable value from its bytes and compare digests. Where a comparison decides what
a step does it is a guard; that a well-formed value passes its own validation is not a
question of states and is left to the unit tests.

Parsing, rendering, prompts, provider traffic, ranking quality, PDF and table
extraction, command-line formatting: conversions of data without control that a
model checker adds to. Operating-system details of safe file access (symlinks,
inode pinning, permissions) are abstracted to "the file has its bytes or not", except
for the second name that a create-only write leaves when it is cut off. SQLite itself
is taken to keep its promises, except where `StoreCoordination` opens up its rollback
journal. Ask, lint and retrieval keep no state that two processes or two calls share.
