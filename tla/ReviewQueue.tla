----------------------------- MODULE ReviewQueue -----------------------------
(***************************************************************************)
(* The review queue and the application of its items: review/queue.py,     *)
(* review/apply.py and the commands of cli/review.py, for one target file. *)
(*                                                                         *)
(* One operator runs one review command at a time; a producer (ingest,     *)
(* lint) may enqueue and an editor may save the target between any two     *)
(* steps of it, and the command may be interrupted at any step.  The       *)
(* compare-and-replace of _write_no_follow is one step: the code names the *)
(* race that remains inside it and claims nothing about it.                *)
(***************************************************************************)
EXTENDS Naturals, FiniteSets

CONSTANTS
    Proposals,      \* what producers propose: distinct dedupe keys
    Id,             \* the item id a producer gives a proposal
    Original,       \* the first content of the target
    Result,         \* the content a proposal makes of the one it was based on
    Edits,          \* contents the editor saves
    MaxAttempt,     \* bound on the suffix of a queue filename
    MaxFiles,       \* bound on the files in pending/ and archive/
    MaxInterrupts   \* bound on interrupted commands

ASSUME QueueAssumptions ==
    /\ \A p \in Proposals : Result[p] \notin Edits /\ Result[p] # Original
    /\ Original \notin Edits
    /\ MaxAttempt \in Nat /\ MaxFiles \in Nat /\ MaxInterrupts \in Nat

VARIABLES
    target,     \* the content of the target file
    index,      \* the content of it that the derived index holds
    pending,    \* pending/: [proposal, base, status] by filename
    archive,    \* archive/: [proposal, outcome] by filename
    producer,   \* the enqueue in progress
    command,    \* the review command in progress
    warned,     \* has the operator a reason to run sync?
    interrupts

vars == <<target, index, pending, archive, producer, command, warned, interrupts>>

Contents == {Original} \cup {Result[p] : p \in Proposals} \cup Edits

\* The id alone, then with the key as suffix, then with a number as well.
Filename(p, attempt) ==
    IF attempt = 0 THEN <<Id[p]>> ELSE <<Id[p], p, attempt>>

Filenames == {Filename(p, n) : p \in Proposals, n \in 0..MaxAttempt}

Items == [proposal : Proposals, base : Contents, status : {"pending", "conflict"}]

Resolutions == [proposal : Proposals, outcome : {"applied", "rejected"}]

NoEnqueue == [at |-> "idle"]

NoCommand == [at |-> "idle"]

\* A directory with a file added or replaced, or without it.
With(dir, f, entry) == [g \in DOMAIN dir \cup {f} |-> IF g = f THEN entry ELSE dir[g]]
Without(dir, f) == [g \in DOMAIN dir \ {f} |-> dir[g]]

-----------------------------------------------------------------------------
Init ==
    /\ target = Original
    /\ index = Original
    /\ pending = <<>>
    /\ archive = <<>>
    /\ producer = NoEnqueue
    /\ command = NoCommand
    /\ warned = FALSE
    /\ interrupts = 0

(* enqueue: look for a pending twin, then for a free filename.             *)

Enqueue(p) ==
    /\ producer = NoEnqueue
    /\ Cardinality(DOMAIN pending) + Cardinality(DOMAIN archive) < MaxFiles
    /\ \A f \in DOMAIN pending :
        ~(pending[f].status = "pending" /\ pending[f].proposal = p)
    /\ producer' = [at |-> "probe", proposal |-> p, base |-> target, attempt |-> 0]
    /\ UNCHANGED <<target, index, pending, archive, command, warned, interrupts>>

NextAttempt ==
    /\ producer.attempt < MaxAttempt
    /\ producer' = [producer EXCEPT !.attempt = @ + 1, !.at = "probe"]

\* Is the filename taken in archive/ ...
ProbeArchive ==
    /\ producer.at = "probe"
    /\ IF Filename(producer.proposal, producer.attempt) \in DOMAIN archive
       THEN NextAttempt
       ELSE producer' = [producer EXCEPT !.at = "create"]
    /\ UNCHANGED <<target, index, pending, archive, command, warned, interrupts>>

\* ... or in pending/?  open(..., "x") creates the file if it is not.
CreatePending ==
    /\ producer.at = "create"
    /\ LET f == Filename(producer.proposal, producer.attempt)
       IN  IF f \in DOMAIN pending
           THEN NextAttempt /\ UNCHANGED pending
           ELSE /\ pending' = With(pending, f, [proposal |-> producer.proposal,
                                    base |-> producer.base, status |-> "pending"])
                /\ producer' = NoEnqueue
    /\ UNCHANGED <<target, index, archive, command, warned, interrupts>>

\* No filename is left within the bound: the producer is stopped.
GiveUp ==
    /\ producer.at \in {"probe", "create"}
    /\ producer.attempt = MaxAttempt
    /\ Filename(producer.proposal, MaxAttempt) \in DOMAIN archive \cup DOMAIN pending
    /\ producer' = NoEnqueue
    /\ UNCHANGED <<target, index, pending, archive, command, warned, interrupts>>

-----------------------------------------------------------------------------
(* The world around the command.                                           *)

\* An edit is not in the index before the next sync; its author knows that.
Edit(content) ==
    /\ target' = content
    /\ warned' = TRUE
    /\ UNCHANGED <<index, pending, archive, producer, command, interrupts>>

Sync ==
    /\ command = NoCommand
    /\ index' = target
    /\ warned' = FALSE
    /\ UNCHANGED <<target, pending, archive, producer, command, interrupts>>

Interrupt ==
    /\ command # NoCommand
    /\ interrupts < MaxInterrupts
    /\ interrupts' = interrupts + 1
    /\ command' = NoCommand
    /\ warned' = TRUE
    /\ UNCHANGED <<target, index, pending, archive, producer>>

-----------------------------------------------------------------------------
(* approve: apply one item, whatever its status.                           *)

Goto(at) == command' = [command EXCEPT !.at = at]

Proposed == Result[command.proposal]

Load(f, outcome) ==
    /\ command = NoCommand
    /\ f \in DOMAIN pending
    /\ command' = [at |-> IF outcome = "applied" THEN "check" ELSE "archive", file |-> f,
                   proposal |-> pending[f].proposal, base |-> pending[f].base,
                   outcome |-> outcome, failed |-> FALSE]
    /\ UNCHANGED <<target, index, pending, archive, producer, warned, interrupts>>

\* The target must be the content the proposal was based on, and take the patch.
Check ==
    /\ command.at = "check"
    /\ \/ target = command.base /\ Goto("write")
       \/ Goto("conflict")
    /\ UNCHANGED <<target, index, pending, archive, producer, warned, interrupts>>

\* _write_no_follow compares the live content with the expected one again.
Unchanged(content) == target = content

Write ==
    /\ command.at = "write"
    /\ \/ /\ Unchanged(command.base)
          /\ target' = Proposed
          /\ Goto("reindex")
       \/ UNCHANGED target /\ Goto("conflict")
    /\ UNCHANGED <<index, pending, archive, producer, warned, interrupts>>

\* The hook syncs the vault, or raises before or after it did.
Reindex ==
    /\ command.at = "reindex"
    /\ index' \in {index, target}
    /\ \/ index' = target /\ Goto("verify")
       \/ Goto("rollback")
    /\ UNCHANGED <<target, pending, archive, producer, warned, interrupts>>

Verify ==
    /\ command.at = "verify"
    /\ IF target = Proposed THEN Goto("archive") ELSE Goto("rollback")
    /\ UNCHANGED <<target, index, pending, archive, producer, warned, interrupts>>

\* What a failing archive leads to: approve rolls back, reject raises.
Unarchived == IF command.outcome = "applied" THEN Goto("rollback") ELSE command' = NoCommand

\* archive() refuses a destination that exists.
Free(f) == f \notin DOMAIN archive

\* Mutant of ArchiveWrite: the pending item is moved out of the way first.
ArchiveAfterUnlink ==
    /\ command.at = "archive"
    /\ Free(command.file)
    /\ pending' = Without(pending, command.file)
    /\ Goto("unlink")
    /\ UNCHANGED <<target, index, archive, producer, warned, interrupts>>

\* The copy in archive/ is written first ...
ArchiveWrite ==
    /\ command.at = "archive"
    /\ \/ /\ Free(command.file)
          /\ archive' = With(archive, command.file,
                [proposal |-> command.proposal, outcome |-> command.outcome])
          /\ Goto("unlink")
       \/ UNCHANGED archive /\ Unarchived
    /\ UNCHANGED <<target, index, pending, producer, warned, interrupts>>

\* ... then the pending item is unlinked; if that fails, the copy is removed.
ArchiveUnlink ==
    /\ command.at = "unlink"
    /\ \/ /\ pending' = Without(pending, command.file)
          /\ command' = NoCommand
          /\ UNCHANGED archive
       \/ /\ archive' = Without(archive, command.file)
          /\ Unarchived
          /\ UNCHANGED pending
    /\ UNCHANGED <<target, index, producer, warned, interrupts>>

\* Mutant of Restorable: the rollback does not look before it restores.
RestorableAlways == TRUE

\* Rollback restores the old content only over the one that was applied.
Restorable == target = Proposed

\* Otherwise, or if that fails, the live content stays; only a failure is reported
\* as one.
Rollback ==
    /\ command.at = "rollback"
    /\ \/ Restorable /\ target' = command.base /\ Goto("resync")
       \/ /\ UNCHANGED target
          /\ \E failed \in BOOLEAN :
                command' = [command EXCEPT !.at = "resync", !.failed = failed]
    /\ UNCHANGED <<index, pending, archive, producer, warned, interrupts>>

\* Mutant of Resynced: the hook is not run again.
ResyncedByFirstHook(after) == after = index

\* The hook runs again, on whichever content is live now.
Resynced(after) == after = target

Resync ==
    /\ command.at = "resync"
    /\ \/ \E after \in Contents :
            /\ Resynced(after)
            /\ index' = after
            /\ Goto("conflict")
       \/ /\ index' \in {index, target}
          /\ command' = [command EXCEPT !.at = "conflict", !.failed = TRUE]
    /\ UNCHANGED <<target, pending, archive, producer, warned, interrupts>>

\* The item is stamped; the reason asks for a full sync if a recovery failed.
MarkConflict ==
    /\ command.at = "conflict"
    /\ pending' = IF command.file \in DOMAIN pending
                  THEN [pending EXCEPT ![command.file].status = "conflict"]
                  ELSE pending
    /\ warned' = (warned \/ command.failed)
    /\ command' = NoCommand
    /\ UNCHANGED <<target, index, archive, producer, interrupts>>

-----------------------------------------------------------------------------
Next ==
    \/ \E p \in Proposals : Enqueue(p)
    \/ ProbeArchive \/ CreatePending \/ GiveUp
    \/ \E content \in Edits : Edit(content)
    \/ Sync \/ Interrupt
    \/ \E f \in Filenames, outcome \in {"applied", "rejected"} : Load(f, outcome)
    \/ Check \/ Write \/ Reindex \/ Verify \/ ArchiveWrite \/ ArchiveUnlink
    \/ Rollback \/ Resync \/ MarkConflict

Spec == Init /\ [][Next]_vars

-----------------------------------------------------------------------------
(* Properties.                                                             *)

\* A review command overwrites two contents only: the one its proposal was based
\* on and, to undo it, its own.  Whatever an editor saves between two of its steps,
\* the hook's run included, survives.
EditsSurvive ==
    [][command # NoCommand /\ command' # command /\ target' # target =>
        \/ target = command.base /\ target' = Proposed
        \/ target = Proposed /\ target' = command.base]_vars

\* Between commands the derived index holds the live content, unless the operator
\* has been given a reason to sync: an edit, an interrupt or a conflict whose
\* text says so.  No failure of hook, archive or rollback leaves it stale silently.
StaleIndexIsReported ==
    command = NoCommand /\ ~warned => index = target

\* An item leaves pending/ only when its resolution is in archive/, whenever the
\* command is interrupted or fails; and a resolution in archive/ is never changed or
\* removed, except the copy that the running command has just written.
ItemsAreNeverLost ==
    [][/\ \A f \in DOMAIN pending :
            \/ f \in DOMAIN pending'
            \/ f \in DOMAIN archive' /\ archive'[f].proposal = pending[f].proposal
       /\ \A f \in DOMAIN archive :
            \/ f \in DOMAIN archive' /\ archive'[f] = archive[f]
            \/ command.at = "unlink" /\ command.file = f]_vars

\* queue.py says of enqueue: "allocate a collision-safe queue filename so immutable
\* archive history is never overwritten and the new item can still be resolved",
\* which takes a filename that archive/ does not have already.
NewItemsCanBeResolved ==
    \A f \in DOMAIN pending \cap DOMAIN archive :
        archive[f].proposal = pending[f].proposal

=============================================================================
