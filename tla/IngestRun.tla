------------------------------ MODULE IngestRun ------------------------------
(* An ingest run, pipelines/ingest.py on core/runctx.py, core/events.py,      *)
(* core/budget.py and contracts/base.py: raw files are planned, extracted one *)
(* by one by paid calls, written as source notes, indexed, routed to the      *)
(* review queue and reconciled.  The process may die between any two writes;  *)
(* the run is then resumed from its frozen plan and its event log, with a     *)
(* ledger that starts at nothing, or another run is begun.                    *)
(*                                                                            *)
(* One process at a time works on a run.  A sync is one step here: VaultSync  *)
(* has its steps.  A call costs one; of the events, the terminal ones matter. *)
EXTENDS Integers, FiniteSets, FiniteSetsExt

CONSTANTS
    NumUnits,     \* the raw files are 1 .. NumUnits, in the order of discovery
    Versions,     \* what a raw file may hold
    Bearing,      \* files whose claim bears on one concept that has no page
    Caps,         \* budgets that a process may be given
    Drafts,       \* how a concept's draft may turn out: is it usable?
    None,         \* no content, no note, no plan, not planned
    MaxChanges    \* bound: changes of the raw files in one behaviour

Units == 1..NumUnits
Texts == Versions \cup {None}
SourceNotes == [planned : Versions, text : Texts, affects : BOOLEAN, routed : BOOLEAN]

\* What is not there is neither a content nor a note.
IngestAssumption == NumUnits \in Nat /\ None \notin Versions \cup SourceNotes

VARIABLES
    raw,          \* the raw files; None if missing or unreadable
    plan,         \* plan.json: [failFast, of], of each planned unit its content
    log,          \* events.jsonl: the last terminal event of each unit
    finished,     \* the exit that the last process came to: "no" until it did
    notes,        \* the source notes: [planned, text, affects, routed]
    stub,         \* has the concept a page?
    items,        \* whose proposals were queued: units' and the concept's, 0
    index,        \* the notes and the stub that the index holds
    process,      \* what the process does
    changes

vars == <<raw, plan, log, finished, notes, stub, items, index, process, changes>>

Dead == [at |-> "dead"]

Live(at, cap, todo, written, failed) ==
    [at |-> at, cap |-> cap, spent |-> 0, todo |-> todo, text |-> None, retried |-> FALSE,
     written |-> written, tally |-> {}, exhausted |-> FALSE, failed |-> failed]

Init ==
    /\ raw \in [Units -> Versions]
    /\ plan = None
    /\ log = [u \in Units |-> "none"]
    /\ finished = "no"
    /\ notes = [u \in Units |-> None]
    /\ stub = FALSE
    /\ items = {}
    /\ index = [notes |-> notes, stub |-> stub]
    /\ process = Dead
    /\ changes = 0

-----------------------------------------------------------------------------
(* The world around the process.                                              *)

ChangeSource(u) ==
    /\ changes < MaxChanges
    /\ \E c \in (Versions \cup {None}) \ {raw[u]} : raw' = [raw EXCEPT ![u] = c]
    /\ changes' = changes + 1
    /\ UNCHANGED <<plan, log, finished, notes, stub, items, index, process>>

Crash ==
    /\ process # Dead
    /\ process' = Dead
    /\ UNCHANGED <<raw, plan, log, finished, notes, stub, items, index, changes>>

-----------------------------------------------------------------------------
(* Plan and resume.                                                           *)

Begin(cap) ==
    /\ process = Dead
    /\ plan' = None
    /\ log' = [u \in Units |-> "none"]
    /\ finished' = "no"
    /\ process' = Live("plan", cap, {}, {}, FALSE)
    /\ UNCHANGED <<raw, notes, stub, items, index, changes>>

\* Files that a note of the vault was planned with are left out.
Ingested == {notes[u].planned : u \in {v \in Units : notes[v] # None}}

\* Unreadable files are logged, the others are frozen in the plan.
FreezePlan ==
    /\ process.at = "plan"
    /\ \E failFast \in BOOLEAN :
        plan' = [failFast |-> failFast,
                 of |-> [u \in Units |-> IF raw[u] \in Ingested THEN None ELSE raw[u]]]
    /\ log' = [u \in Units |-> IF raw[u] = None THEN "unreadable" ELSE "none"]
    /\ process' = [process EXCEPT !.at = "open",
                        !.todo = {u \in Units : plan'.of[u] # None},
                        !.failed = \E u \in Units : raw[u] = None]
    /\ UNCHANGED <<raw, finished, notes, stub, items, index, changes>>

Planned == {u \in Units : plan.of[u] # None}

\* Mutant of Pending: a unit that failed is tried again.
PendingAndFailed == {u \in Planned : log[u] # "completed"}

\* _pending_units: never attempted, or skipped for want of budget.
Pending == {u \in Planned : log[u] \in {"none", "budget"}}

\* Mutant of Completed: what dead processes have completed is forgotten.
CompletedForgotten == {}

\* Their notes are routed again.
Completed == {u \in Planned : log[u] = "completed"}

\* Refused if a pending source has changed since it was planned.
Resume(cap) ==
    /\ process = Dead
    /\ plan # None
    /\ \A u \in Pending : raw[u] = plan.of[u]
    /\ finished' = "no"
    /\ process' = Live("open", cap, Pending, Completed,
                     \E u \in Units : log[u] = "unreadable")
    /\ UNCHANGED <<raw, plan, log, notes, stub, items, index, changes>>

-----------------------------------------------------------------------------
(* Extraction, unit by unit.                                                  *)

Unit == Min(process.todo)
Goto(at) == process' = [process EXCEPT !.at = at]

\* The source is read again, whatever it was planned with.
Open ==
    /\ process.at = "open" /\ process.todo # {}
    /\ process' = [process EXCEPT !.at = IF raw[Unit] = None THEN "fail" ELSE "extract",
                                  !.text = raw[Unit], !.retried = FALSE]
    /\ UNCHANGED <<raw, plan, log, finished, notes, stub, items, index, changes>>

Affordable == process.spent < process.cap

\* dispatch: the budget is checked before each of two calls at most.
Extract ==
    /\ process.at = "extract"
    /\ IF Affordable
       THEN \E at \in {"write", IF process.retried THEN "fail" ELSE "extract"} :
                process' = [process EXCEPT !.at = at, !.spent = @ + 1, !.retried = TRUE]
       ELSE Goto("skip")
    /\ UNCHANGED <<raw, plan, log, finished, notes, stub, items, index, changes>>

\* Without budget all that is left is skipped, an event each.
SkipRest ==
    /\ process.at = "skip" /\ process.todo # {}
    /\ log' = [log EXCEPT ![Unit] = "budget"]
    /\ process' = [process EXCEPT !.todo = @ \ {Unit}, !.exhausted = TRUE,
                        !.at = IF process.todo = {Unit} THEN "open" ELSE "skip"]
    /\ UNCHANGED <<raw, plan, finished, notes, stub, items, index, changes>>

\* The event that a note's validation leads to.
Published(valid) == valid

\* _write_validated_source_note replaces the note if the new one is valid.
WriteNote ==
    /\ process.at = "write"
    /\ \E valid \in BOOLEAN :
        /\ notes' = IF valid
                    THEN [notes EXCEPT ![Unit] =
                            [planned |-> plan.of[Unit], text |-> process.text,
                             affects |-> Unit \in Bearing, routed |-> FALSE]]
                    ELSE notes
        /\ Goto(IF Published(valid) THEN "complete" ELSE "fail")
    /\ UNCHANGED <<raw, plan, log, finished, stub, items, index, changes>>

Complete ==
    /\ process.at = "complete"
    /\ log' = [log EXCEPT ![Unit] = "completed"]
    /\ process' = [process EXCEPT !.at = "open", !.todo = @ \ {Unit},
                                  !.written = @ \cup {Unit}]
    /\ UNCHANGED <<raw, plan, finished, notes, stub, items, index, changes>>

Fail ==
    /\ process.at = "fail"
    /\ log' = [log EXCEPT ![Unit] = "failed"]
    /\ process' = [process EXCEPT !.at = "open", !.failed = TRUE,
                        !.todo = IF plan.failFast THEN {} ELSE @ \ {Unit}]
    /\ UNCHANGED <<raw, plan, finished, notes, stub, items, index, changes>>

-----------------------------------------------------------------------------
(* The index, and the routes of every completed unit's claim.                 *)

\* sync_vault, before the routes and after them.
Sync ==
    /\ process.at = "open" /\ process.todo = {}
    /\ index' = [notes |-> notes, stub |-> stub]
    /\ process' = [process EXCEPT !.at = "route", !.todo = process.written]
    /\ UNCHANGED <<raw, plan, log, finished, notes, stub, items, changes>>

Propose(i) == items' = items \cup {i}

\* The routes keep no state of their own: a resumed process takes them all again, with the
\* calls they cost.  A claim on the concept is tallied while it has no page in the index,
\* and proposed to the page then; the others take a call to adjudicate, and may support
\* nothing.
Route ==
    /\ process.at = "route" /\ process.todo # {}
    /\ \/ /\ Unit \in Bearing /\ ~index.stub
          /\ process' = [process EXCEPT !.at = "rewrite",
                !.tally = IF notes[Unit].affects THEN @ \cup {Unit} ELSE @]
          /\ UNCHANGED items
       \/ /\ Unit \in Bearing /\ index.stub
          /\ Propose(Unit) /\ Goto("rewrite")
       \/ /\ Unit \notin Bearing /\ Affordable
          /\ process' = [process EXCEPT !.at = "rewrite", !.spent = @ + 1]
          /\ Propose(Unit) \/ UNCHANGED items
       \/ /\ Unit \notin Bearing /\ ~Affordable
          /\ process' = [process EXCEPT !.at = "rewrite", !.exhausted = TRUE]
          /\ UNCHANGED items
    /\ UNCHANGED <<raw, plan, log, finished, notes, stub, index, changes>>

\* The note is written back as it was read, with the links.
Rewrite ==
    /\ process.at = "rewrite"
    /\ notes' = [notes EXCEPT ![Unit].routed = TRUE]
    /\ process' = [process EXCEPT !.at = "route", !.todo = @ \ {Unit}]
    /\ UNCHANGED <<raw, plan, log, finished, stub, items, index, changes>>

Reconciling == [process EXCEPT !.at = "reconcile", !.todo = process.written]

\* _draft_new_concepts: two claims make a concept, whose draft is another call, and
\* whose page must not be there; the stub is written before the item is queued.
DraftConcept ==
    /\ process.at = "route" /\ process.todo = {}
    /\ IF process.exhausted \/ Cardinality(process.tally) < 2
       THEN process' = Reconciling /\ UNCHANGED stub
       ELSE IF ~Affordable
       THEN process' = [Reconciling EXCEPT !.exhausted = TRUE] /\ UNCHANGED stub
       ELSE \E usable \in Drafts :
            IF usable /\ ~stub
            THEN /\ stub' = TRUE
                 /\ process' = [process EXCEPT !.at = "propose", !.spent = @ + 1]
            ELSE /\ process' = [Reconciling EXCEPT !.spent = @ + 1]
                 /\ UNCHANGED stub
    /\ UNCHANGED <<raw, plan, log, finished, notes, items, index, changes>>

ProposeConcept ==
    /\ process.at = "propose"
    /\ Propose(0)
    /\ process' = Reconciling
    /\ UNCHANGED <<raw, plan, log, finished, notes, stub, index, changes>>

\* reconcile_affects drops what names no page, note by note.
Reconcile ==
    /\ process.at = "reconcile" /\ process.todo # {}
    /\ notes' = [notes EXCEPT ![Unit].affects = @ /\ stub]
    /\ process' = [process EXCEPT !.todo = @ \ {Unit}]
    /\ UNCHANGED <<raw, plan, log, finished, stub, items, index, changes>>

FinalSync ==
    /\ process.at = "reconcile" /\ process.todo = {}
    /\ index' = [notes |-> notes, stub |-> stub]
    /\ Goto("finish")
    /\ UNCHANGED <<raw, plan, log, finished, notes, stub, items, changes>>

Finish ==
    /\ process.at = "finish"
    /\ finished' = IF process.exhausted THEN "budget"
                   ELSE IF process.failed THEN "failures" ELSE "ok"
    /\ process' = Dead
    /\ UNCHANGED <<raw, plan, log, notes, stub, items, index, changes>>

-----------------------------------------------------------------------------
Next ==
    \/ \E u \in Units : ChangeSource(u)
    \/ \E cap \in Caps : Begin(cap) \/ Resume(cap)
    \/ FreezePlan \/ Open \/ Extract \/ SkipRest \/ WriteNote \/ Complete \/ Fail
    \/ Sync \/ Route \/ Rewrite \/ DraftConcept \/ ProposeConcept \/ Reconcile
    \/ FinalSync \/ Finish \/ Crash

Spec == Init /\ [][Next]_vars

-----------------------------------------------------------------------------
(* Properties.                                                                *)

\* What the event log says is so on disk: a unit is completed only with its note, of
\* the version it was planned with, there; whichever process wrote either of them.
CompletedUnitsHaveNotes ==
    plan # None => \A u \in Planned :
        log[u] = "completed" => notes[u] # None /\ notes[u].planned = plan.of[u]

\* A unit whose fate a run has settled is never extracted again in it, however often the
\* process dies and is resumed: the calls that read its source are paid for once.  Not so
\* those that adjudicate its claims: every process routes all completed units again.
SettledUnitsAreNotExtractedAgain ==
    [][process.at = "extract" /\ process' # Dead /\ process'.spent > process.spent
            => log[Unit] \notin {"completed", "failed"}]_vars

\* When a process reports its run as finished, the index holds the notes as the routes
\* and the reconciliation have left them; and unless it ran out of budget every planned
\* unit is settled and every completed one routed, those of dead processes as well.
FinishedRunsAreWhole ==
    /\ CompletedUnitsHaveNotes
    /\ finished # "no" =>
        /\ index = [notes |-> notes, stub |-> stub]
        /\ \A u \in Planned :
            \/ finished = "budget"
            \/ /\ log[u] = "completed" => notes[u].routed
               /\ ~plan.failFast => log[u] \in {"completed", "failed"}

\* affects.py says of a claim whose concept has no page yet that it "is already
\* represented elsewhere: the router tallies it toward a new-concept proposal in the
\* review queue": a run that has finished within its budget has proposed a concept that
\* two of its completed units bear on.
ConceptsAreProposed ==
    /\ finished \in {"ok", "failures"}
    /\ Cardinality({u \in Bearing \cap Planned : log[u] = "completed"}) >= 2
    => 0 \in items

=============================================================================
