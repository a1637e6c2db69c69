------------------------------ MODULE VaultProofs ------------------------------
(* What TLAPS proves of what surrounds the vault, for any proposals, edits,     *)
(* notes, records, raw files and budgets, any number of syncs, deaths and       *)
(* resumptions: in the review queue edits survive, no item is lost and a stale  *)
(* index is reported; of the vectors that an undisturbed sync writes none is    *)
(* stale, and under edits that go forward it leaves the index the notes'; an    *)
(* ingest run that reports itself as finished is whole, and pays for no unit    *)
(* whose fate it has settled.                                                   *)
EXTENDS Vault, WellFoundedInduction, TLAPS

-----------------------------------------------------------------------------
(* The review queue: the invariant.                                          *)

Places == {"check", "write", "reindex", "verify", "archive", "unlink", "rollback",
           "resync", "conflict"}
Commands ==
    [at : Places, file : Filenames, proposal : Proposals, base : Contents,
     outcome : {"applied", "rejected"}, failed : BOOLEAN]
Enqueues ==
    [at : {"probe", "create"}, proposal : Proposals, base : Contents, attempt : 0..MaxAttempt]

QueueTyped ==
    /\ target \in Contents /\ index \in Contents
    /\ DOMAIN pending \subseteq Filenames /\ \A f \in DOMAIN pending : pending[f] \in Items
    /\ DOMAIN archive \subseteq Filenames /\ \A f \in DOMAIN archive : archive[f] \in Resolutions
    /\ producer \in Enqueues \cup {NoEnqueue}
    /\ command \in Commands \cup {NoCommand}
    /\ warned \in BOOLEAN

\* The command's item stays in pending/ until the command has archived it, and
\* before it is unlinked its resolution is in archive/.
ItemInHand ==
    command # NoCommand =>
        /\ command.file \in DOMAIN pending
        /\ pending[command.file].proposal = command.proposal
        /\ command.at = "unlink" =>
            /\ command.file \in DOMAIN archive
            /\ archive[command.file].proposal = command.proposal

\* Where the index may differ from the target although nobody has been told.
Reported ==
    \/ warned \/ index = target
    \/ command.at \in {"reindex", "rollback", "resync"}
    \/ command.at = "conflict" /\ command.failed

QueueInv == QueueTyped /\ ItemInHand /\ Reported

-----------------------------------------------------------------------------
(* Directories and commands.                                                 *)

LEMMA Directories ==
    ASSUME NEW dir, NEW f, NEW entry
    PROVE  /\ DOMAIN With(dir, f, entry) = DOMAIN dir \cup {f}
           /\ With(dir, f, entry)[f] = entry
           /\ \A g \in DOMAIN dir : g # f => With(dir, f, entry)[g] = dir[g]
           /\ DOMAIN Without(dir, f) = DOMAIN dir \ {f}
           /\ \A g \in DOMAIN dir : g # f => Without(dir, f)[g] = dir[g]
BY DEF With, Without

LEMMA SomeCommand ==
    ASSUME QueueInv, command.at # "idle"
    PROVE  command \in Commands /\ command # NoCommand
BY DEF QueueInv, QueueTyped, NoCommand

LEMMA EveryCommand ==
    ASSUME NEW c \in Commands
    PROVE  c # NoCommand
<1>1. c.at # "idle"
  BY DEF Commands, Places
<1> QED BY <1>1 DEF NoCommand

LEMMA Going ==
    ASSUME NEW at \in Places, command \in Commands, Goto(at)
    PROVE  /\ command' \in Commands /\ command'.at = at
           /\ command'.file = command.file /\ command'.proposal = command.proposal
           /\ command'.base = command.base /\ command'.failed = command.failed
BY DEF Goto, Commands

-----------------------------------------------------------------------------
(* One lemma per step.                                                       *)

LEMMA QueueStarts ==
    ASSUME QueueAssumptions, Init
    PROVE  QueueInv
<1>1. DOMAIN pending = {} /\ DOMAIN archive = {}
  <2>1. DOMAIN <<>> = {}
    OBVIOUS
  <2> QED BY <2>1 DEF Init
<1> QED BY <1>1 DEF Init, QueueInv, QueueTyped, ItemInHand, Reported, Contents

LEMMA Moved ==
    ASSUME QueueAssumptions, QueueInv, producer \in Enqueues, NextAttempt
    PROVE  producer' \in Enqueues
<1>1. producer.attempt \in 0..MaxAttempt /\ producer.attempt < MaxAttempt
  BY DEF NextAttempt, Enqueues
<1>2. producer.attempt + 1 \in 0..MaxAttempt
  BY <1>1 DEF QueueAssumptions
<1>3. producer' = [at |-> "probe", proposal |-> producer.proposal, base |-> producer.base,
                   attempt |-> producer.attempt + 1]
  BY DEF NextAttempt, Enqueues
<1> QED BY <1>2, <1>3 DEF Enqueues

LEMMA EnqueueStep ==
    ASSUME QueueAssumptions, QueueInv, NEW p \in Proposals, Enqueue(p)
    PROVE  QueueInv'
<1>1. producer' \in Enqueues
  BY DEF Enqueue, Enqueues, QueueAssumptions, QueueInv, QueueTyped
<1>2. UNCHANGED <<target, index, pending, archive, command, warned, interrupts>>
  BY DEF Enqueue
<1> QED BY <1>1, <1>2 DEF QueueInv, QueueTyped, ItemInHand, Reported

LEMMA ProbeArchiveStep ==
    ASSUME QueueAssumptions, QueueInv, ProbeArchive
    PROVE  QueueInv'
<1>1. producer \in Enqueues
  BY DEF ProbeArchive, QueueInv, QueueTyped, NoEnqueue
<1>2. producer' \in Enqueues
  <2>1. CASE NextAttempt
    BY <1>1, <2>1, Moved
  <2>2. CASE producer' = [producer EXCEPT !.at = "create"]
    BY <1>1, <2>2 DEF Enqueues
  <2> QED BY <2>1, <2>2 DEF ProbeArchive
<1>3. UNCHANGED <<target, index, pending, archive, command, warned, interrupts>>
  BY DEF ProbeArchive
<1> QED BY <1>2, <1>3 DEF QueueInv, QueueTyped, ItemInHand, Reported

LEMMA CreatePendingStep ==
    ASSUME QueueAssumptions, QueueInv, CreatePending
    PROVE  QueueInv'
<1> DEFINE f == Filename(producer.proposal, producer.attempt)
           item == [proposal |-> producer.proposal, base |-> producer.base,
                    status |-> "pending"]
<1>1. producer \in Enqueues
  BY DEF CreatePending, QueueInv, QueueTyped, NoEnqueue
<1>2. UNCHANGED <<target, index, archive, command, warned, interrupts>>
  BY DEF CreatePending
<1>3. CASE NextAttempt /\ UNCHANGED pending
  <2>1. producer' \in Enqueues
    BY <1>1, <1>3, Moved
  <2> QED BY <1>2, <1>3, <2>1 DEF QueueInv, QueueTyped, ItemInHand, Reported
<1>4. CASE f \notin DOMAIN pending /\ pending' = With(pending, f, item) /\ producer' = NoEnqueue
  <2>1. f \in Filenames
    BY <1>1 DEF Filenames, Enqueues
  <2>2. item \in Items
    BY <1>1 DEF Items, Enqueues
  <2>3. /\ DOMAIN pending' = DOMAIN pending \cup {f} /\ pending'[f] = item
        /\ \A g \in DOMAIN pending : pending'[g] = pending[g]
    BY <1>4 DEF With
  <2>4. QueueTyped'
    BY <1>2, <1>4, <2>1, <2>2, <2>3 DEF QueueInv, QueueTyped
  <2>5. ItemInHand'
    BY <1>2, <2>3 DEF QueueInv, ItemInHand
  <2>6. Reported'
    BY <1>2 DEF QueueInv, Reported
  <2> QED BY <2>4, <2>5, <2>6 DEF QueueInv
<1> QED BY <1>3, <1>4 DEF CreatePending

LEMMA GiveUpStep ==
    ASSUME QueueAssumptions, QueueInv, GiveUp
    PROVE  QueueInv'
BY DEF GiveUp, QueueInv, QueueTyped, ItemInHand, Reported

LEMMA WorldStep ==
    ASSUME QueueAssumptions, QueueInv, (\E c \in Edits : Edit(c)) \/ Sync \/ Interrupt
    PROVE  QueueInv'
<1>1. ASSUME NEW c \in Edits, Edit(c)
      PROVE  QueueInv'
  BY <1>1 DEF Edit, Contents, QueueInv, QueueTyped, ItemInHand, Reported
<1>2. CASE Sync
  BY <1>2 DEF Sync, QueueInv, QueueTyped, ItemInHand, Reported
<1>3. CASE Interrupt
  BY <1>3 DEF Interrupt, QueueInv, QueueTyped, ItemInHand, Reported
<1> QED BY <1>1, <1>2, <1>3

LEMMA LoadStep ==
    ASSUME QueueAssumptions, QueueInv, NEW f \in Filenames, NEW outcome \in {"applied", "rejected"},
           Load(f, outcome)
    PROVE  QueueInv'
<1>1. /\ f \in DOMAIN pending /\ pending[f] \in Items /\ command = NoCommand
      /\ UNCHANGED <<target, index, pending, archive, producer, warned, interrupts>>
  BY DEF Load, QueueInv, QueueTyped
<1>2. /\ command' \in Commands /\ command'.at \in {"check", "archive"}
      /\ command'.file = f /\ command'.proposal = pending[f].proposal
  BY <1>1 DEF Load, Commands, Places, Items
<1>3. warned \/ index = target
  BY <1>1 DEF QueueInv, Reported, NoCommand
<1> QED BY <1>1, <1>2, <1>3 DEF QueueInv, QueueTyped, ItemInHand, Reported

\* A command that goes on to a place where the index is as it was.
LEMMA StepsOn ==
    ASSUME QueueInv, command \in Commands, NEW at \in Places \ {"unlink"}, Goto(at),
           UNCHANGED <<pending, archive, producer>>, target' \in Contents, index' \in Contents,
           warned' \in BOOLEAN, Reported'
    PROVE  QueueInv'
<1>1. /\ command' \in Commands /\ command'.at = at
      /\ command'.file = command.file /\ command'.proposal = command.proposal
  BY Going
<1>2. command # NoCommand
  BY EveryCommand
<1> QED BY <1>1, <1>2 DEF QueueInv, QueueTyped, ItemInHand

LEMMA CheckStep ==
    ASSUME QueueAssumptions, QueueInv, Check
    PROVE  QueueInv'
<1>1. command \in Commands /\ command.at = "check"
  BY SomeCommand DEF Check
<1>2. UNCHANGED <<target, index, pending, archive, producer, warned, interrupts>>
  BY DEF Check
<1>3. warned \/ index = target
  BY <1>1 DEF QueueInv, Reported
<1>4. Reported' /\ target' \in Contents /\ index' \in Contents /\ warned' \in BOOLEAN
  BY <1>2, <1>3 DEF Reported, QueueInv, QueueTyped
<1>5. Goto("write") \/ Goto("conflict")
  BY DEF Check
<1> QED BY <1>1, <1>2, <1>4, <1>5, StepsOn DEF Places

LEMMA WriteStep ==
    ASSUME QueueAssumptions, QueueInv, Write
    PROVE  QueueInv'
<1>1. command \in Commands /\ command.at = "write"
  BY SomeCommand DEF Write
<1>2. UNCHANGED <<index, pending, archive, producer, warned, interrupts>>
  BY DEF Write
<1>3. warned \/ index = target
  BY <1>1 DEF QueueInv, Reported
<1>4. CASE target' = Proposed /\ Goto("reindex")
  <2>1. target' \in Contents /\ index' \in Contents /\ warned' \in BOOLEAN
    BY <1>1, <1>2, <1>4 DEF Proposed, Contents, Commands, QueueInv, QueueTyped
  <2>2. Reported'
    BY <1>1, <1>4, Going DEF Reported, Places
  <2> QED BY <1>1, <1>2, <1>4, <2>1, <2>2, StepsOn DEF Places
<1>5. CASE UNCHANGED target /\ Goto("conflict")
  <2>1. Reported' /\ target' \in Contents /\ index' \in Contents /\ warned' \in BOOLEAN
    BY <1>2, <1>3, <1>5 DEF Reported, QueueInv, QueueTyped
  <2> QED BY <1>1, <1>2, <1>5, <2>1, StepsOn DEF Places
<1> QED BY <1>4, <1>5 DEF Write

LEMMA ReindexStep ==
    ASSUME QueueAssumptions, QueueInv, Reindex
    PROVE  QueueInv'
<1>1. command \in Commands
  BY SomeCommand DEF Reindex
<1>2. /\ UNCHANGED <<target, pending, archive, producer, warned, interrupts>>
      /\ target' \in Contents /\ index' \in Contents /\ warned' \in BOOLEAN
  BY DEF Reindex, QueueInv, QueueTyped
<1>3. CASE index' = target /\ Goto("verify")
  <2>1. Reported'
    BY <1>2, <1>3 DEF Reported
  <2> QED BY <1>1, <1>2, <1>3, <2>1, StepsOn DEF Places
<1>4. CASE Goto("rollback")
  <2>1. Reported'
    BY <1>1, <1>4, Going DEF Reported, Places
  <2> QED BY <1>1, <1>2, <1>4, <2>1, StepsOn DEF Places
<1> QED BY <1>3, <1>4 DEF Reindex

LEMMA VerifyStep ==
    ASSUME QueueAssumptions, QueueInv, Verify
    PROVE  QueueInv'
<1>1. command \in Commands /\ command.at = "verify"
  BY SomeCommand DEF Verify
<1>2. UNCHANGED <<target, index, pending, archive, producer, warned, interrupts>>
  BY DEF Verify
<1>3. warned \/ index = target
  BY <1>1 DEF QueueInv, Reported
<1>4. Reported' /\ target' \in Contents /\ index' \in Contents /\ warned' \in BOOLEAN
  BY <1>2, <1>3 DEF Reported, QueueInv, QueueTyped
<1>5. Goto("archive") \/ Goto("rollback")
  BY DEF Verify
<1> QED BY <1>1, <1>2, <1>4, <1>5, StepsOn DEF Places

LEMMA UnarchivedStep ==
    ASSUME QueueInv, command \in Commands, Unarchived, pending' = pending, producer' = producer,
           UNCHANGED <<target, index, warned>>, warned \/ index = target,
           DOMAIN archive' \subseteq Filenames,
           \A f \in DOMAIN archive' : archive'[f] \in Resolutions
    PROVE  QueueInv'
<1>1. Reported'
  BY DEF Reported
<1>2. CASE Goto("rollback")
  <2>1. /\ command' \in Commands /\ command'.at = "rollback"
        /\ command'.file = command.file /\ command'.proposal = command.proposal
    BY <1>2, Going DEF Places
  <2>2. command # NoCommand
    BY EveryCommand
  <2> QED BY <1>1, <2>1, <2>2 DEF QueueInv, QueueTyped, ItemInHand
<1>3. CASE command' = NoCommand
  BY <1>1, <1>3 DEF QueueInv, QueueTyped, ItemInHand
<1> QED BY <1>2, <1>3 DEF Unarchived

LEMMA ArchiveWriteStep ==
    ASSUME QueueAssumptions, QueueInv, ArchiveWrite
    PROVE  QueueInv'
<1>1. command \in Commands /\ command.at = "archive" /\ command # NoCommand
  BY SomeCommand DEF ArchiveWrite
<1>2. UNCHANGED <<target, index, pending, producer, warned, interrupts>>
  BY DEF ArchiveWrite
<1>3. warned \/ index = target
  BY <1>1 DEF QueueInv, Reported
<1>4. CASE UNCHANGED archive /\ Unarchived
  BY <1>1, <1>2, <1>3, <1>4, UnarchivedStep DEF QueueInv, QueueTyped
<1>5. CASE /\ Free(command.file)
           /\ archive' = With(archive, command.file,
                [proposal |-> command.proposal, outcome |-> command.outcome])
           /\ Goto("unlink")
  <2> DEFINE resolution == [proposal |-> command.proposal, outcome |-> command.outcome]
  <2>1. resolution \in Resolutions /\ command.file \in Filenames
    BY <1>1 DEF Resolutions, Commands
  <2>2. /\ DOMAIN archive' = DOMAIN archive \cup {command.file}
        /\ archive'[command.file] = resolution
        /\ \A f \in DOMAIN archive : f # command.file => archive'[f] = archive[f]
    BY <1>5 DEF With
  <2>3. /\ command' \in Commands /\ command'.at = "unlink"
        /\ command'.file = command.file /\ command'.proposal = command.proposal
    BY <1>1, <1>5, Going DEF Places
  <2>4. QueueTyped'
    BY <1>2, <2>1, <2>2, <2>3 DEF QueueInv, QueueTyped
  <2>5. ItemInHand'
    BY <1>1, <1>2, <2>2, <2>3 DEF QueueInv, ItemInHand
  <2> QED BY <1>2, <1>3, <2>4, <2>5 DEF QueueInv, Reported
<1> QED BY <1>4, <1>5 DEF ArchiveWrite

LEMMA ArchiveUnlinkStep ==
    ASSUME QueueAssumptions, QueueInv, ArchiveUnlink
    PROVE  QueueInv'
<1>1. command \in Commands /\ command.at = "unlink" /\ command # NoCommand
  BY SomeCommand DEF ArchiveUnlink
<1>2. UNCHANGED <<target, index, producer, warned, interrupts>>
  BY DEF ArchiveUnlink
<1>3. warned \/ index = target
  BY <1>1 DEF QueueInv, Reported
<1>4. CASE pending' = Without(pending, command.file) /\ command' = NoCommand /\ UNCHANGED archive
  <2>1. /\ DOMAIN pending' \subseteq DOMAIN pending
        /\ \A f \in DOMAIN pending' : pending'[f] = pending[f]
    BY <1>4 DEF Without
  <2> QED BY <1>2, <1>3, <1>4, <2>1 DEF QueueInv, QueueTyped, ItemInHand, Reported
<1>5. CASE archive' = Without(archive, command.file) /\ Unarchived /\ UNCHANGED pending
  <2>1. /\ DOMAIN archive' \subseteq DOMAIN archive
        /\ \A f \in DOMAIN archive' : archive'[f] = archive[f]
    BY <1>5 DEF Without
  <2>2. /\ DOMAIN archive' \subseteq Filenames
        /\ \A f \in DOMAIN archive' : archive'[f] \in Resolutions
    BY <2>1 DEF QueueInv, QueueTyped
  <2> QED BY <1>1, <1>2, <1>3, <1>5, <2>2, UnarchivedStep
<1> QED BY <1>4, <1>5 DEF ArchiveUnlink

LEMMA RollbackStep ==
    ASSUME QueueAssumptions, QueueInv, Rollback
    PROVE  QueueInv'
<1>1. command \in Commands /\ command.at = "rollback" /\ command # NoCommand
  BY SomeCommand DEF Rollback
<1>2. UNCHANGED <<index, pending, archive, producer, warned, interrupts>>
  BY DEF Rollback
<1>3. PICK failed \in BOOLEAN : command' = [command EXCEPT !.at = "resync", !.failed = failed]
  <2>1. command.failed \in BOOLEAN
    BY <1>1 DEF Commands
  <2>2. CASE Goto("resync")
    <3>1. command' = [command EXCEPT !.at = "resync", !.failed = command.failed]
      BY <1>1, <2>2 DEF Goto, Commands
    <3> QED BY <2>1, <3>1
  <2> QED BY <2>2 DEF Rollback
<1>4. /\ command' \in Commands /\ command'.at = "resync"
      /\ command'.file = command.file /\ command'.proposal = command.proposal
  BY <1>1, <1>3 DEF Commands, Places
<1>5. target' \in Contents
  <2>1. command.base \in Contents
    BY <1>1 DEF Commands
  <2> QED BY <2>1 DEF Rollback, QueueInv, QueueTyped
<1> QED BY <1>1, <1>2, <1>4, <1>5 DEF QueueInv, QueueTyped, ItemInHand, Reported

LEMMA ResyncStep ==
    ASSUME QueueAssumptions, QueueInv, Resync
    PROVE  QueueInv'
<1>1. command \in Commands /\ command.at = "resync" /\ command # NoCommand
  BY SomeCommand DEF Resync
<1>2. UNCHANGED <<target, pending, archive, producer, warned, interrupts>>
  BY DEF Resync
<1>3. CASE index' = target /\ Goto("conflict")
  <2>1. Reported' /\ target' \in Contents /\ index' \in Contents /\ warned' \in BOOLEAN
    BY <1>2, <1>3 DEF Reported, QueueInv, QueueTyped
  <2> QED BY <1>1, <1>2, <1>3, <2>1, StepsOn DEF Places
<1>4. CASE /\ index' \in {index, target}
           /\ command' = [command EXCEPT !.at = "conflict", !.failed = TRUE]
  <2>1. /\ command' \in Commands /\ command'.at = "conflict" /\ command'.failed
        /\ command'.file = command.file /\ command'.proposal = command.proposal
    BY <1>1, <1>4 DEF Commands, Places
  <2> QED BY <1>1, <1>2, <1>4, <2>1 DEF QueueInv, QueueTyped, ItemInHand, Reported
<1> QED BY <1>3, <1>4 DEF Resync, Resynced

LEMMA MarkConflictStep ==
    ASSUME QueueAssumptions, QueueInv, MarkConflict
    PROVE  QueueInv'
<1>1. command \in Commands /\ command.at = "conflict"
  BY SomeCommand DEF MarkConflict
<1>2. /\ UNCHANGED <<target, index, archive, producer, interrupts>>
      /\ command' = NoCommand /\ warned' = (warned \/ command.failed)
  BY DEF MarkConflict
<1>3. /\ DOMAIN pending' = DOMAIN pending
      /\ \A f \in DOMAIN pending' : pending'[f] \in Items
  <2>1. \A f \in DOMAIN pending : [pending[f] EXCEPT !.status = "conflict"] \in Items
    BY DEF QueueInv, QueueTyped, Items
  <2>2. CASE command.file \notin DOMAIN pending
    BY <2>2 DEF MarkConflict, QueueInv, QueueTyped
  <2>3. CASE command.file \in DOMAIN pending
    <3>1. pending' = [pending EXCEPT ![command.file] = [pending[command.file] EXCEPT !.status = "conflict"]]
      BY <2>3 DEF MarkConflict
    <3> QED BY <2>1, <2>3, <3>1 DEF QueueInv, QueueTyped
  <2> QED BY <2>2, <2>3
<1>4. warned' \in BOOLEAN /\ (warned' \/ index = target)
  <2>1. command.failed \in BOOLEAN
    BY <1>1 DEF Commands
  <2>2. warned \/ index = target \/ command.failed
    BY <1>1 DEF QueueInv, Reported
  <2> QED BY <1>2, <2>1, <2>2 DEF QueueInv, QueueTyped
<1> QED BY <1>2, <1>3, <1>4 DEF QueueInv, QueueTyped, ItemInHand, Reported

LEMMA QueueKept ==
    ASSUME QueueAssumptions, QueueInv, [Next]_vars
    PROVE  QueueInv'
<1>1. CASE UNCHANGED vars
  BY <1>1 DEF vars, QueueInv, QueueTyped, ItemInHand, Reported
<1>2. CASE Next
  BY <1>2, EnqueueStep, ProbeArchiveStep, CreatePendingStep, GiveUpStep, WorldStep,
    LoadStep, CheckStep, WriteStep, ReindexStep, VerifyStep, ArchiveWriteStep,
    ArchiveUnlinkStep, RollbackStep, ResyncStep, MarkConflictStep DEF Next
<1> QED BY <1>1, <1>2

\* The inductive invariant: the item of the running command is in pending/ until it
\* is archived, and the index is that of the target but where a hook is running.
THEOREM QueueInvariant == Spec => []QueueInv
<1>1. Init => QueueInv
  BY QueueStarts, QueueAssumptions
<1>2. QueueInv /\ [Next]_vars => QueueInv'
  BY QueueKept, QueueAssumptions
<1> QED BY <1>1, <1>2, PTL DEF Spec

\* Between commands the derived index holds the live content, unless the operator
\* has been told to sync (review/apply.py).
THEOREM IndexIsReported == Spec => []StaleIndexIsReported
<1>1. QueueInv => StaleIndexIsReported
  BY DEF QueueInv, Reported, StaleIndexIsReported, NoCommand
<1> QED BY <1>1, QueueInvariant, PTL

\* A review command overwrites only the content that its proposal was based on and,
\* to undo that, its own (_write_no_follow of review/apply.py).
THEOREM EditsAreKept == Spec => EditsSurvive
<1>1. ASSUME QueueInv, [Next]_vars
      PROVE  [command # NoCommand /\ command' # command /\ target' # target =>
                \/ target = command.base /\ target' = Proposed
                \/ target = Proposed /\ target' = command.base]_vars
  <2> SUFFICES ASSUME command # NoCommand, command' # command, target' # target, Next
               PROVE  \/ target = command.base /\ target' = Proposed
                      \/ target = Proposed /\ target' = command.base
    BY <1>1 DEF vars
  <2>1. Write \/ Rollback
    BY DEF Next, Enqueue, ProbeArchive, CreatePending, GiveUp, Edit, Sync, Interrupt,
      Load, Check, Reindex, Verify, ArchiveWrite, ArchiveUnlink, Resync, MarkConflict
  <2> QED BY <2>1 DEF Write, Unchanged, Rollback, Restorable
<1> QED BY <1>1, QueueInvariant, PTL DEF Spec, EditsSurvive

\* An item leaves pending/ only when its resolution is in archive/, and a resolution
\* is never changed or removed, but for the copy just written (review/queue.py).
THEOREM ItemsAreKept == Spec => ItemsAreNeverLost
<1> DEFINE Kept ==
       /\ \A f \in DOMAIN pending :
            \/ f \in DOMAIN pending'
            \/ f \in DOMAIN archive' /\ archive'[f].proposal = pending[f].proposal
       /\ \A f \in DOMAIN archive :
            \/ f \in DOMAIN archive' /\ archive'[f] = archive[f]
            \/ command.at = "unlink" /\ command.file = f
<1>1. ASSUME QueueInv, [Next]_vars
      PROVE  Kept
  <2>1. CASE UNCHANGED <<pending, archive>>
    BY <2>1
  <2>2. CASE CreatePending
    BY <2>2 DEF CreatePending, With
  <2>3. CASE ArchiveWrite
    BY <2>3 DEF ArchiveWrite, With, Free
  <2>4. CASE ArchiveUnlink
    <3>1. /\ command.file \in DOMAIN archive /\ command.at = "unlink"
          /\ archive[command.file].proposal = pending[command.file].proposal
      BY <1>1, <2>4, SomeCommand DEF ArchiveUnlink, QueueInv, ItemInHand
    <3> QED BY <2>4, <3>1 DEF ArchiveUnlink, Without
  <2>5. CASE MarkConflict
    BY <2>5 DEF MarkConflict
  <2> QED
    BY <1>1, <2>1, <2>2, <2>3, <2>4, <2>5 DEF Next, vars, Enqueue, ProbeArchive, GiveUp,
      Edit, Sync, Interrupt, Load, Check, Write, Reindex, Verify, Rollback, Resync
<1> QED BY <1>1, QueueInvariant, PTL DEF Spec, ItemsAreNeverLost
-----------------------------------------------------------------------------
(* The first of a set of paths or units is one of them.                      *)

LEMMA LeastElement ==
    ASSUME NEW S \in SUBSET Nat, S # {}
    PROVE  Syncing!Min(S) \in S /\ Ingest!Min(S) \in S
<1> DEFINE R == {ss \in Nat \X Nat : ss[1] < ss[2]}
<1>1. IsWellFoundedOn(R, Nat)
  BY NatLessThanWellFounded DEF OpToRel
<1> HIDE DEF R
<1>2. PICK x \in S : \A y \in S : ~(<<y, x>> \in R)
  BY <1>1, WFMin
<1>3. \A y \in S : x =< y
  <2> TAKE y \in S
  <2>1. ~(y < x)
    <3> SUFFICES ASSUME y < x PROVE FALSE
      OBVIOUS
    <3>1. <<y, x>> \in R
      BY DEF R
    <3> QED BY <1>2, <3>1
  <2>2. y \in Nat /\ x \in Nat
    OBVIOUS
  <2> QED BY <2>1, <2>2
<1> QED BY <1>3 DEF Ingest!Min, Syncing!Min

-----------------------------------------------------------------------------
(* Syncs: the invariant, and what a run has read.                            *)

Modes == {"changed", "full", "load", "import"}
RecordIds == UNION {DOMAIN Records[c] : c \in NoteContents}
Seen == [Syncing!Paths -> NoteContents \cup {Absent}]
SyncRuns ==
    [at : {"walk", "read", "compare", "upsert", "restructure", "embed", "import"},
     mode : Modes, next : Nat, todo : SUBSET (Syncing!Paths \cup RecordIds),
     kept : SUBSET Syncing!Paths, hash : Seen, note : Seen]
Rests == [at : {"idle", "done", "refused"}, mode : Modes]

\* One of the notes that the run has read has the record, with the text.
HasRecord(run, r, text) ==
    \E p \in Syncing!Paths :
        /\ run.note[p] # Absent
        /\ r \in DOMAIN Records[run.note[p]] /\ Records[run.note[p]][r] = text

\* The vectors to write are of records, and rows of the sidecar of texts, that the run
\* has read.
VectorsAreRead(run) ==
    /\ run.at = "embed" => \A r \in run.todo : \E text : HasRecord(run, r, text)
    /\ run.at = "import" => \A r \in run.todo : HasRecord(run, r, Sidecar[r].text)

Current(run) ==
    \A p \in Syncing!Paths : run.note[p] # Absent => run.note[p] = vault[p]

SyncInvariant ==
    /\ sync \in [Syncs -> SyncRuns \cup Rests]
    /\ alone \in [Syncs -> BOOLEAN]
    /\ \A s \in Syncs : sync[s] \in SyncRuns => VectorsAreRead(sync[s])
    /\ \A s \in Syncs : alone[s] =>
        /\ \A t \in Syncs \ {s} : sync[t] \notin SyncRuns
        /\ sync[s] \in SyncRuns => Current(sync[s])

LEMMA WhoRuns ==
    ASSUME NEW x \in SyncRuns \cup Rests
    PROVE  x \in SyncRuns <=> x.at \notin {"idle", "done", "refused"}
<1>1. \A y \in SyncRuns : y.at \notin {"idle", "done", "refused"}
  BY DEF SyncRuns
<1>2. \A y \in Rests : y.at \in {"idle", "done", "refused"}
  BY DEF Rests
<1> QED BY <1>1, <1>2

LEMMA RecordsRead ==
    ASSUME VaultAssumption, NEW s \in Syncs, sync[s] \in SyncRuns,
           NEW r \in Syncing!UnitIds(s)
    PROVE  HasRecord(sync[s], r, Syncing!Unit(s, r).text) /\ r \in RecordIds
<1>1. Syncing!Prepared(s) \subseteq Syncing!Paths
  BY DEF Syncing!Prepared
<1> DEFINE Havers == {q \in DOMAIN Syncing!Units(s) : r \in Syncing!Units(s)[q]}
<1>2. DOMAIN Syncing!Units(s) = Syncing!Prepared(s)
  BY DEF Syncing!Units
<1>3. Havers \in SUBSET Nat
  BY <1>1, <1>2 DEF Syncing!Paths, VaultAssumption, Syncing!SyncAssumption
<1>4. Havers # {}
  BY DEF Syncing!UnitIds
<1>5. PICK p \in Havers : p = Syncing!Min(Havers)
  BY <1>3, <1>4, LeastElement
<1>6. /\ p \in Syncing!Paths /\ sync[s].note[p] # Absent
      /\ r \in DOMAIN Records[sync[s].note[p]]
  BY <1>2, <1>5 DEF Syncing!Prepared, Syncing!Units
<1>7. Syncing!Unit(s, r).text = Records[sync[s].note[p]][r]
  BY <1>5 DEF Syncing!Unit
<1>8. sync[s].note[p] \in NoteContents
  BY <1>6 DEF SyncRuns, Seen
<1> QED BY <1>6, <1>7, <1>8 DEF HasRecord, RecordIds

\* A step of a run that goes on to another place, or ends there.
LEMMA RunGoesOn ==
    ASSUME SyncInvariant, NEW s \in Syncs, sync[s] \in SyncRuns, UNCHANGED <<vault, alone>>,
           NEW run \in SyncRuns \cup Rests, sync' = [sync EXCEPT ![s] = run],
           run \in SyncRuns =>
              VectorsAreRead(run) /\ (alone[s] /\ Current(sync[s]) => Current(run))
    PROVE  SyncInvariant'
<1>1. /\ sync' \in [Syncs -> SyncRuns \cup Rests] /\ sync'[s] = run
      /\ \A t \in Syncs \ {s} : sync'[t] = sync[t]
  BY DEF SyncInvariant
<1>2. \A t \in Syncs : sync'[t] \in SyncRuns => VectorsAreRead(sync'[t])
  BY <1>1 DEF SyncInvariant
<1>3. ASSUME NEW t \in Syncs, alone[t]
      PROVE  t = s
  BY <1>3 DEF SyncInvariant
<1>4. \A t \in Syncs : alone'[t] =>
        /\ \A u \in Syncs \ {t} : sync'[u] \notin SyncRuns
        /\ sync'[t] \in SyncRuns => Current(sync[t])'
  <2>1. alone[s] /\ run \in SyncRuns => Current(run)
    BY DEF SyncInvariant
  <2>2. Current(run) => Current(run)'
    BY DEF Current
  <2>3. alone[s] => \A u \in Syncs \ {s} : sync[u] \notin SyncRuns
    BY DEF SyncInvariant
  <2> QED BY <1>1, <1>3, <2>1, <2>2, <2>3 DEF Current
<1> QED BY <1>1, <1>2, <1>4 DEF SyncInvariant

LEMMA RunEnds ==
    ASSUME SyncInvariant, NEW s \in Syncs, sync[s] \in SyncRuns, UNCHANGED <<vault, alone>>,
           NEW at \in {"idle", "done", "refused"}, Syncing!End(s, at)
    PROVE  SyncInvariant'
<1>1. PICK run : run = IF at = "idle" THEN Syncing!Idle ELSE [at |-> at, mode |-> sync[s].mode]
  OBVIOUS
<1>2. run \in Rests
  BY <1>1 DEF SyncRuns, Rests, Syncing!Idle, Modes
<1>3. sync' = [sync EXCEPT ![s] = run]
  BY <1>1 DEF Syncing!End
<1>4. run \notin SyncRuns
  BY <1>2, WhoRuns DEF Rests
<1> QED BY <1>2, <1>3, <1>4, RunGoesOn

LEMMA SyncsStart ==
    ASSUME Syncing!Init
    PROVE  SyncInvariant
<1>1. Syncing!Idle \in Rests
  BY DEF Syncing!Idle, Rests, Modes
<1>2. Syncing!Idle \notin SyncRuns
  BY <1>1, WhoRuns DEF Syncing!Idle
<1> QED BY <1>1, <1>2 DEF Syncing!Init, SyncInvariant

LEMMA SaveStep ==
    ASSUME SyncInvariant, NEW p \in Syncing!Paths, Syncing!Save(p)
    PROVE  SyncInvariant'
<1>1. sync' = sync /\ alone' = [s \in Syncs |-> FALSE]
  BY DEF Syncing!Save
<1>2. \A s \in Syncs : sync'[s] \in SyncRuns => VectorsAreRead(sync'[s])
  BY <1>1 DEF SyncInvariant
<1> QED BY <1>1, <1>2 DEF SyncInvariant

LEMMA BeginSyncStep ==
    ASSUME SyncInvariant, NEW s \in Syncs, NEW mode \in {"changed", "full", "load"},
           Syncing!Begin(s, mode)
    PROVE  SyncInvariant'
<1>1. PICK run : run = [at |-> "walk", mode |-> mode, next |-> 1, todo |-> {}, kept |-> {},
                        hash |-> [p \in Syncing!Paths |-> Absent],
                        note |-> [p \in Syncing!Paths |-> Absent]]
  OBVIOUS
<1>2. run \in SyncRuns
  BY <1>1 DEF SyncRuns, Seen, Modes
<1>3. VectorsAreRead(run) /\ Current(run)'
  BY <1>1 DEF VectorsAreRead, Current
<1>4. /\ sync' = [sync EXCEPT ![s] = run] /\ vault' = vault
      /\ alone' = [t \in Syncs |-> t = s /\ \A u \in Syncs \ {s} : ~Syncing!Running(u)]
  BY <1>1 DEF Syncing!Begin
<1>5. /\ sync' \in [Syncs -> SyncRuns \cup Rests] /\ sync'[s] = run
      /\ \A t \in Syncs \ {s} : sync'[t] = sync[t]
  BY <1>2, <1>4 DEF SyncInvariant
<1>6. \A u \in Syncs : ~Syncing!Running(u) => sync[u] \notin SyncRuns
  BY WhoRuns DEF SyncInvariant, Syncing!Running
<1>7. \A t \in Syncs : sync'[t] \in SyncRuns => VectorsAreRead(sync'[t])
  BY <1>3, <1>5 DEF SyncInvariant
<1>8. ASSUME NEW t \in Syncs, alone'[t]
      PROVE  t = s /\ \A u \in Syncs \ {s} : sync[u] \notin SyncRuns
  BY <1>4, <1>6, <1>8
<1>9. alone' \in [Syncs -> BOOLEAN]
  BY <1>4
<1>10. Current(sync[s])'
  BY <1>3, <1>5 DEF Current
<1> QED BY <1>5, <1>7, <1>8, <1>9, <1>10 DEF SyncInvariant

LEMMA Advancing ==
    ASSUME SyncInvariant, NEW s \in Syncs, sync[s] \in SyncRuns, UNCHANGED <<vault, alone>>,
           NEW state \in SyncRuns, NEW here \in {"walk", "read"},
           NEW there \in {"read", "compare"},
           Syncing!Advance(s, state, here, there), Current(sync[s]) => Current(state)
    PROVE  SyncInvariant'
<1>1. PICK run : run = IF state.next < NumNotes
                       THEN [state EXCEPT !.at = here, !.next = state.next + 1]
                       ELSE [state EXCEPT !.at = there, !.next = 1]
  OBVIOUS
<1>2. sync' = [sync EXCEPT ![s] = run]
  BY <1>1 DEF Syncing!Advance
<1>3. PICK next \in Nat : next = state.next + 1
  BY DEF SyncRuns
<1>4. run \in SyncRuns /\ run.note = state.note /\ run.at \in {"walk", "read", "compare"}
  BY <1>1, <1>3 DEF SyncRuns
<1>5. VectorsAreRead(run)
  BY <1>4 DEF VectorsAreRead
<1>6. Current(state) => Current(run)
  BY <1>4 DEF Current
<1> QED BY <1>2, <1>4, <1>5, <1>6, RunGoesOn

LEMMA WalkStep ==
    ASSUME SyncInvariant, NEW s \in Syncs, Syncing!Walk(s)
    PROVE  SyncInvariant'
<1>1. sync[s] \in SyncRuns
  BY WhoRuns DEF SyncInvariant, Syncing!Walk
<1>2. PICK seen \in NoteContents \cup {Absent} :
        Syncing!Advance(s, [sync[s] EXCEPT !.hash[sync[s].next] = seen], "walk", "read")
  BY DEF Syncing!Walk, Syncing!IsNote
<1>3. PICK state : state = [sync[s] EXCEPT !.hash[sync[s].next] = seen]
  OBVIOUS
<1>4. PICK hash : hash = [sync[s].hash EXCEPT ![sync[s].next] = seen]
  OBVIOUS
<1>5. hash \in Seen
  BY <1>1, <1>4 DEF SyncRuns, Seen
<1>6. state = [sync[s] EXCEPT !.hash = hash]
  BY <1>3, <1>4
<1>7. state \in SyncRuns /\ state.note = sync[s].note
  BY <1>1, <1>5, <1>6 DEF SyncRuns
<1>8. Current(sync[s]) => Current(state)
  BY <1>7 DEF Current
<1>9. Syncing!Advance(s, state, "walk", "read") /\ UNCHANGED <<vault, alone>>
  BY <1>2, <1>3 DEF Syncing!Walk
<1> QED BY <1>1, <1>7, <1>8, <1>9, Advancing

LEMMA ReadStep ==
    ASSUME SyncInvariant, NEW s \in Syncs, Syncing!Read(s)
    PROVE  SyncInvariant'
<1>1. sync[s] \in SyncRuns
  BY WhoRuns DEF SyncInvariant, Syncing!Read
<1>2. UNCHANGED <<vault, alone>>
  BY DEF Syncing!Read
<1>3. CASE Syncing!End(s, "idle")
  BY <1>1, <1>2, <1>3, RunEnds
<1>4. ASSUME NEW seen \in NoteContents \cup {Absent},
             seen # Absent => seen = vault[sync[s].next],
             Syncing!Advance(s, [sync[s] EXCEPT !.note[sync[s].next] = seen],
                             "read", "compare")
      PROVE  SyncInvariant'
  <2>1. PICK state : state = [sync[s] EXCEPT !.note[sync[s].next] = seen]
    OBVIOUS
  <2>2. PICK note : note = [sync[s].note EXCEPT ![sync[s].next] = seen]
    OBVIOUS
  <2>3. note \in Seen /\ \A p \in Syncing!Paths :
            note[p] = IF p = sync[s].next THEN seen ELSE sync[s].note[p]
    BY <1>1, <2>2 DEF SyncRuns, Seen
  <2>4. state = [sync[s] EXCEPT !.note = note]
    BY <2>1, <2>2
  <2>5. state \in SyncRuns /\ state.note = note
    BY <1>1, <2>3, <2>4 DEF SyncRuns
  <2>6. Current(sync[s]) => Current(state)
    BY <1>4, <2>3, <2>5 DEF Current
  <2>7. Syncing!Advance(s, state, "read", "compare")
    BY <1>4, <2>1
  <2> QED BY <1>1, <1>2, <2>5, <2>6, <2>7, Advancing
<1> QED BY <1>3, <1>4 DEF Syncing!Read, Syncing!IsNote

LEMMA CompareStep ==
    ASSUME SyncInvariant, NEW s \in Syncs, Syncing!Compare(s)
    PROVE  SyncInvariant'
<1>1. sync[s] \in SyncRuns
  BY WhoRuns DEF SyncInvariant, Syncing!Compare
<1>2. PICK todo \in SUBSET Syncing!Paths : todo = Syncing!Changed(s)
  BY DEF Syncing!Changed, Syncing!Prepared
<1>3. PICK kept \in SUBSET Syncing!Paths : kept = Syncing!Prepared(s) \ Syncing!Changed(s)
  BY DEF Syncing!Prepared
<1>4. PICK run : run = [sync[s] EXCEPT !.at = "upsert", !.todo = todo, !.kept = kept]
  OBVIOUS
<1>5. sync' = [sync EXCEPT ![s] = run] /\ UNCHANGED <<vault, alone>>
  BY <1>2, <1>3, <1>4 DEF Syncing!Compare, SyncInvariant
<1>6. run \in SyncRuns /\ run.note = sync[s].note /\ run.at = "upsert"
  BY <1>1, <1>2, <1>3, <1>4 DEF SyncRuns
<1>7. VectorsAreRead(run) /\ (Current(sync[s]) => Current(run))
  BY <1>6 DEF VectorsAreRead, Current
<1> QED BY <1>1, <1>5, <1>6, <1>7, RunGoesOn

\* The steps on the documents: their todo only shrinks.
LEMMA DocumentDone ==
    ASSUME SyncInvariant, NEW s \in Syncs, sync[s] \in SyncRuns, UNCHANGED <<vault, alone>>,
           sync[s].at \notin {"embed", "import"}, NEW p,
           sync' = [sync EXCEPT ![s].todo = @ \ {p}]
    PROVE  SyncInvariant'
<1>1. PICK run : run = [sync[s] EXCEPT !.todo = sync[s].todo \ {p}]
  OBVIOUS
<1>2. sync' = [sync EXCEPT ![s] = run]
  BY <1>1 DEF SyncInvariant
<1>3. run \in SyncRuns /\ run.note = sync[s].note /\ run.at = sync[s].at
  BY <1>1 DEF SyncRuns
<1>4. VectorsAreRead(run) /\ (Current(sync[s]) => Current(run))
  BY <1>3 DEF VectorsAreRead, Current
<1> QED BY <1>2, <1>3, <1>4, RunGoesOn

LEMMA UpsertStep ==
    ASSUME SyncInvariant, NEW s \in Syncs, Syncing!Upsert(s)
    PROVE  SyncInvariant'
<1>1. sync[s] \in SyncRuns /\ UNCHANGED <<vault, alone>> /\ sync[s].at = "upsert"
  BY WhoRuns DEF SyncInvariant, Syncing!Upsert
<1>2. \/ Syncing!End(s, "refused")
      \/ \E p : sync' = [sync EXCEPT ![s].todo = @ \ {p}]
  BY DEF Syncing!Upsert
<1> QED BY <1>1, <1>2, RunEnds, DocumentDone

LEMMA PruneStep ==
    ASSUME SyncInvariant, NEW s \in Syncs, Syncing!Prune(s)
    PROVE  SyncInvariant'
<1>1. sync[s] \in SyncRuns
  BY WhoRuns DEF SyncInvariant, Syncing!Prune
<1>2. PICK run : run = [sync[s] EXCEPT !.at = "restructure", !.todo = sync[s].kept]
  OBVIOUS
<1>3. sync' = [sync EXCEPT ![s] = run] /\ UNCHANGED <<vault, alone>>
  BY <1>2 DEF Syncing!Prune, SyncInvariant
<1>4. run \in SyncRuns /\ run.note = sync[s].note /\ run.at = "restructure"
  BY <1>1, <1>2 DEF SyncRuns
<1>5. VectorsAreRead(run) /\ (Current(sync[s]) => Current(run))
  BY <1>4 DEF VectorsAreRead, Current
<1> QED BY <1>1, <1>3, <1>4, <1>5, RunGoesOn

LEMMA RestructureStep ==
    ASSUME SyncInvariant, NEW s \in Syncs, Syncing!Restructure(s)
    PROVE  SyncInvariant'
<1>1. sync[s] \in SyncRuns /\ UNCHANGED <<vault, alone>> /\ sync[s].at = "restructure"
  BY WhoRuns DEF SyncInvariant, Syncing!Restructure
<1>2. \/ Syncing!End(s, "idle")
      \/ \E p : sync' = [sync EXCEPT ![s].todo = @ \ {p}]
  BY DEF Syncing!Restructure
<1> QED BY <1>1, <1>2, RunEnds, DocumentDone

LEMMA ScanStep ==
    ASSUME VaultAssumption, SyncInvariant, NEW s \in Syncs, Syncing!Scan(s)
    PROVE  SyncInvariant'
<1>1. sync[s] \in SyncRuns /\ UNCHANGED <<vault, alone>>
  BY WhoRuns DEF SyncInvariant, Syncing!Scan
<1>2. CASE sync' = [sync EXCEPT ![s].mode = "import", ![s].at = "walk"]
  <2>1. PICK run : run = [sync[s] EXCEPT !.mode = "import", !.at = "walk"]
    OBVIOUS
  <2>2. sync' = [sync EXCEPT ![s] = run]
    BY <1>2, <2>1 DEF SyncInvariant
  <2>3. run \in SyncRuns /\ run.note = sync[s].note /\ run.at = "walk"
    BY <1>1, <2>1 DEF SyncRuns, Modes
  <2>4. VectorsAreRead(run) /\ (Current(sync[s]) => Current(run))
    BY <2>3 DEF VectorsAreRead, Current
  <2> QED BY <1>1, <2>2, <2>3, <2>4, RunGoesOn
<1>3. ASSUME NEW stale \in SUBSET Syncing!UnitIds(s),
             sync' = [sync EXCEPT ![s].at = "embed", ![s].todo = stale]
      PROVE  SyncInvariant'
  <2>1. PICK run : run = [sync[s] EXCEPT !.at = "embed", !.todo = stale]
    OBVIOUS
  <2>2. sync' = [sync EXCEPT ![s] = run]
    BY <1>3, <2>1 DEF SyncInvariant
  <2>3. \A r \in stale : r \in RecordIds /\ \E text : HasRecord(sync[s], r, text)
    BY <1>1, RecordsRead
  <2>4. stale \in SUBSET (Syncing!Paths \cup RecordIds)
    BY <2>3
  <2>5. run \in SyncRuns /\ run.note = sync[s].note /\ run.at = "embed" /\ run.todo = stale
    BY <1>1, <2>1, <2>4 DEF SyncRuns
  <2>6. VectorsAreRead(run) /\ (Current(sync[s]) => Current(run))
    BY <2>3, <2>5 DEF VectorsAreRead, HasRecord, Current
  <2> QED BY <1>1, <2>2, <2>5, <2>6, RunGoesOn
<1>4. CASE Syncing!End(s, "done")
  BY <1>1, <1>4, RunEnds
<1> QED BY <1>2, <1>3, <1>4 DEF Syncing!Scan

LEMMA EmbedStep ==
    ASSUME SyncInvariant, NEW s \in Syncs, Syncing!Embed(s)
    PROVE  SyncInvariant'
<1>1. sync[s] \in SyncRuns /\ UNCHANGED <<vault, alone>>
  BY WhoRuns DEF SyncInvariant, Syncing!Embed
<1>2. Syncing!End(s, "done") \/ Syncing!End(s, "idle")
  BY DEF Syncing!Embed
<1> QED BY <1>1, <1>2, RunEnds

LEMMA SelectStep ==
    ASSUME VaultAssumption, SyncInvariant, NEW s \in Syncs, Syncing!Select(s)
    PROVE  SyncInvariant'
<1>1. sync[s] \in SyncRuns /\ UNCHANGED <<vault, alone>>
  BY WhoRuns DEF SyncInvariant, Syncing!Select
<1>2. PICK rows : rows = Syncing!Matching(s)
  OBVIOUS
<1>3. \A r \in rows : r \in Syncing!UnitIds(s) /\ Sidecar[r].text = Syncing!Unit(s, r).text
  BY <1>2 DEF Syncing!Matching
<1>4. \A r \in rows : r \in RecordIds /\ HasRecord(sync[s], r, Sidecar[r].text)
  <2> TAKE r \in rows
  <2>1. HasRecord(sync[s], r, Syncing!Unit(s, r).text) /\ r \in RecordIds
    BY <1>1, <1>3, RecordsRead
  <2> QED BY <1>3, <2>1
<1>5. PICK run : run = [sync[s] EXCEPT !.at = "import", !.todo = rows]
  OBVIOUS
<1>6. sync' = [sync EXCEPT ![s] = run]
  BY <1>2, <1>5 DEF Syncing!Select, SyncInvariant
<1>7. rows \in SUBSET (Syncing!Paths \cup RecordIds)
  BY <1>4
<1>8. run \in SyncRuns /\ run.note = sync[s].note /\ run.at = "import" /\ run.todo = rows
  BY <1>1, <1>5, <1>7 DEF SyncRuns
<1>9. VectorsAreRead(run) /\ (Current(sync[s]) => Current(run))
  BY <1>4, <1>8 DEF VectorsAreRead, HasRecord, Current
<1> QED BY <1>1, <1>6, <1>8, <1>9, RunGoesOn

LEMMA ImportStep ==
    ASSUME SyncInvariant, NEW s \in Syncs, Syncing!Import(s)
    PROVE  SyncInvariant'
<1>1. sync[s] \in SyncRuns /\ UNCHANGED <<vault, alone>> /\ sync[s].at = "import"
  BY WhoRuns DEF SyncInvariant, Syncing!Import
<1>2. CASE Syncing!End(s, "done") \/ Syncing!End(s, "idle")
  BY <1>1, <1>2, RunEnds
<1>3. ASSUME NEW r, sync' = [sync EXCEPT ![s].todo = @ \ {r}]
      PROVE  SyncInvariant'
  <2>1. PICK run : run = [sync[s] EXCEPT !.todo = sync[s].todo \ {r}]
    OBVIOUS
  <2>2. sync' = [sync EXCEPT ![s] = run]
    BY <1>3, <2>1 DEF SyncInvariant
  <2>3. /\ run \in SyncRuns /\ run.note = sync[s].note /\ run.at = "import"
        /\ run.todo = sync[s].todo \ {r}
    BY <1>1, <2>1 DEF SyncRuns
  <2>4. \A q \in sync[s].todo : HasRecord(sync[s], q, Sidecar[q].text)
    BY <1>1 DEF SyncInvariant, VectorsAreRead
  <2>5. VectorsAreRead(run) /\ (Current(sync[s]) => Current(run))
    BY <2>3, <2>4 DEF VectorsAreRead, HasRecord, Current
  <2> QED BY <1>1, <2>2, <2>3, <2>5, RunGoesOn
<1> QED BY <1>2, <1>3 DEF Syncing!Import

LEMMA SyncCrashStep ==
    ASSUME SyncInvariant, NEW s \in Syncs, Syncing!Crash(s)
    PROVE  SyncInvariant'
<1>1. sync[s] \in SyncRuns
  BY WhoRuns DEF SyncInvariant, Syncing!Crash, Syncing!Running
<1> QED BY <1>1, RunEnds DEF Syncing!Crash

LEMMA SyncsKept ==
    ASSUME VaultAssumption, SyncInvariant, Syncing!Next
    PROVE  SyncInvariant'
BY SaveStep, BeginSyncStep, WalkStep, ReadStep, CompareStep, UpsertStep, PruneStep,
  RestructureStep, ScanStep, EmbedStep, SelectStep, ImportStep, SyncCrashStep DEF
  Syncing!Next

\* The inductive invariant of the syncs: what an undisturbed one has read of a note is
\* what the file holds, and what it is about to write of vectors comes of what it read.
THEOREM SyncRunInvariant == AnySpec => []SyncInvariant
<1> USE VaultAssumption
<1>1. AnyInit => SyncInvariant
  BY SyncsStart DEF AnyInit
<1>2. SyncInvariant /\ [AnyNext]_<<component, vars, syncVars, ingestVars>> => SyncInvariant'
  <2>1. ASSUME SyncInvariant, UNCHANGED syncVars PROVE SyncInvariant'
    <3>1. sync' = sync /\ alone' = alone /\ vault' = vault
      BY <2>1 DEF syncVars
    <3>2. \A s \in Syncs : Current(sync[s])' = Current(sync[s])
      BY <3>1 DEF Current
    <3> QED BY <2>1, <3>1, <3>2 DEF SyncInvariant
  <2> QED BY <2>1, SyncsKept DEF AnyNext
<1> QED BY <1>1, <1>2, PTL DEF AnySpec

\* A record that an undisturbed run has read with a text is a note's, with that text.
LEMMA ReadIsLive ==
    ASSUME SyncInvariant, NEW s \in Syncs, alone[s], sync[s] \in SyncRuns, NEW r, NEW text,
           HasRecord(sync[s], r, text)
    PROVE  \E p \in Syncing!Notes :
              r \in DOMAIN Records[vault[p]] /\ text = Records[vault[p]][r]
<1>1. PICK p \in Syncing!Paths : /\ sync[s].note[p] # Absent
                                 /\ r \in DOMAIN Records[sync[s].note[p]]
                                 /\ Records[sync[s].note[p]][r] = text
  BY DEF HasRecord
<1>2. sync[s].note[p] = vault[p] /\ sync[s].note[p] \in NoteContents
  BY <1>1 DEF SyncInvariant, Current, SyncRuns, Seen
<1> QED BY <1>1, <1>2 DEF Syncing!Notes, Syncing!IsNote

\* A vector that this step writes, and what it must be.
Entered(r) == r \in DOMAIN vectors' /\ (r \notin DOMAIN vectors \/ vectors'[r] # vectors[r])
Live(r) == \E p \in Syncing!Notes : /\ r \in DOMAIN Records[vault[p]]
                                    /\ vectors'[r].text = Records[vault[p]][r]
                                    /\ vectors'[r].doc \in DOMAIN documents

LEMMA EmbeddedIsLive ==
    ASSUME VaultAssumption, SyncInvariant, NEW s \in Syncs, alone[s], Syncing!Embed(s),
           NEW r, Entered(r)
    PROVE  Live(r)
<1>1. sync[s] \in SyncRuns /\ sync[s].at = "embed"
  BY WhoRuns DEF SyncInvariant, Syncing!Embed
<1> DEFINE rows == [x \in sync[s].todo |-> Syncing!Unit(s, x)]
<1>2. /\ \A x \in DOMAIN rows : rows[x].doc \in DOMAIN documents
      /\ vectors' = [x \in DOMAIN vectors \cup DOMAIN rows |->
                        IF x \in DOMAIN rows THEN rows[x] ELSE vectors[x]]
  BY DEF Syncing!Embed, Entered
<1>3. r \in sync[s].todo /\ vectors'[r] = Syncing!Unit(s, r)
  BY <1>2 DEF Entered
<1>4. r \in Syncing!UnitIds(s)
  <2>1. PICK p \in Syncing!Paths :
            sync[s].note[p] # Absent /\ r \in DOMAIN Records[sync[s].note[p]]
    BY <1>1, <1>3 DEF SyncInvariant, VectorsAreRead, HasRecord
  <2>2. p \in Syncing!Prepared(s)
    BY <2>1 DEF Syncing!Prepared
  <2>3. p \in DOMAIN Syncing!Units(s) /\ r \in Syncing!Units(s)[p]
    BY <2>1, <2>2 DEF Syncing!Units
  <2> QED BY <2>3 DEF Syncing!UnitIds
<1>5. HasRecord(sync[s], r, Syncing!Unit(s, r).text)
  BY <1>1, <1>4, RecordsRead
<1> QED BY <1>1, <1>2, <1>3, <1>5, ReadIsLive DEF Live

LEMMA ImportedIsLive ==
    ASSUME SyncInvariant, NEW s \in Syncs, alone[s], Syncing!Import(s), NEW r, Entered(r)
    PROVE  Live(r)
<1>1. sync[s] \in SyncRuns /\ sync[s].at = "import"
  BY WhoRuns DEF SyncInvariant, Syncing!Import
<1>2. PICK q \in sync[s].todo :
        Sidecar[q].doc \in DOMAIN documents /\ vectors' = Syncing!Put(vectors, q, Sidecar[q])
  BY DEF Syncing!Import, Entered
<1>3. r = q /\ vectors'[r] = Sidecar[q]
  BY <1>2 DEF Syncing!Put, Entered
<1>4. HasRecord(sync[s], q, Sidecar[q].text)
  BY <1>1 DEF SyncInvariant, VectorsAreRead
<1> QED BY <1>1, <1>2, <1>3, <1>4, ReadIsLive DEF Live

LEMMA NothingElseEnters ==
    ASSUME SyncInvariant, Syncing!Next, NEW q \in Syncs, alone[q], NEW r, Entered(r)
    PROVE  Syncing!Embed(q) \/ Syncing!Import(q)
<1>1. ASSUME NEW s \in Syncs, Syncing!Embed(s) \/ Syncing!Import(s)
      PROVE  s = q
  <2>1. sync[s] \in SyncRuns
    BY <1>1, WhoRuns DEF SyncInvariant, Syncing!Embed, Syncing!Import
  <2> QED BY <2>1 DEF SyncInvariant
<1>2. ASSUME NEW rows
      PROVE  /\ DOMAIN Syncing!Drop(vectors, rows) \subseteq DOMAIN vectors
             /\ \A x \in DOMAIN Syncing!Drop(vectors, rows) :
                    Syncing!Drop(vectors, rows)[x] = vectors[x]
  BY DEF Syncing!Drop
<1>3. \A rows : vectors' # Syncing!Drop(vectors, rows)
  BY <1>2 DEF Entered
<1>4. vectors' # vectors
  BY DEF Entered
<1> QED
  BY <1>1, <1>3, <1>4 DEF Syncing!Next, Syncing!Save, Syncing!Begin, Syncing!Walk,
    Syncing!Read, Syncing!Compare, Syncing!Upsert, Syncing!Prune, Syncing!Restructure,
    Syncing!Scan, Syncing!Select, Syncing!Crash

\* A vector that an undisturbed sync writes is of the live text of a note that has a
\* document (sync/indexer.py, load_embeddings of sync/load.py).
THEOREM StaleVectorsStayOut == AnySpec => NoStaleVectorEnters
<1> USE VaultAssumption
<1> DEFINE Step ==
        \A s \in Syncs : alone[s] => \A r \in DOMAIN vectors' :
            r \notin DOMAIN vectors \/ vectors'[r] # vectors[r] =>
                \E p \in Syncing!Notes : /\ r \in DOMAIN Records[vault[p]]
                                         /\ vectors'[r].text = Records[vault[p]][r]
                                         /\ vectors'[r].doc \in DOMAIN documents
<1>1. SyncInvariant /\ Syncing!Next => Step
  <2> SUFFICES ASSUME SyncInvariant, Syncing!Next, NEW s \in Syncs, alone[s], NEW r, Entered(r)
               PROVE  Live(r)
    BY DEF Entered, Live
  <2> QED BY NothingElseEnters, EmbeddedIsLive, ImportedIsLive
<1>2. SyncInvariant /\ [AnyNext]_<<component, vars, syncVars, ingestVars>> => [Step]_Syncing!vars
  <2>1. UNCHANGED syncVars => UNCHANGED Syncing!vars
    BY DEF syncVars, Syncing!vars
  <2> HIDE DEF Step
  <2> QED BY <1>1, <2>1 DEF AnyNext
<1> HIDE DEF Step
<1>3. AnySpec => [][Step]_Syncing!vars
  BY <1>2, SyncRunInvariant, PTL DEF AnySpec
<1> USE DEF Step
<1> QED BY <1>3 DEF NoStaleVectorEnters, Syncing!NoStaleVectorEnters
-----------------------------------------------------------------------------
(* Syncs that nobody disturbs, under edits that go forward.                  *)

\* Ages and contents that the edits go forward by, if there are any.
Editing == CHOOSE e : Syncing!EditsGoForward(e.age, e.held)
GoesForward == Syncing!EditsGoForward(Editing.age, Editing.held)
Held(p) == Editing.held[p]

\* File p has held x, and y since or still.
Earlier(p, x, y) == x = y \/ (x \in NoteContents /\ Editing.age[p][x] < Editing.age[p][y])

\* What a sync sees of a file.
Visible(p) == IF Syncing!IsNote(vault[p]) THEN vault[p] ELSE Absent

\* A row of documents is of contents that its file has held, the hash the older of two.
RowOf(d, p) ==
    /\ p \in Syncing!Paths
    /\ documents[d] = [path |-> p, content |-> documents[d].content, hash |-> documents[d].hash]
    /\ documents[d].content \in NoteContents /\ documents[d].hash \in NoteContents
    /\ d = Syncing!Doc(p, documents[d].hash)
    /\ Earlier(p, documents[d].hash, documents[d].content)
    /\ Earlier(p, documents[d].content, vault[p])

\* A vector belongs to a document, and that to the note which may have the record.
VectorOf(r) ==
    /\ vectors[r] = [doc |-> vectors[r].doc, text |-> vectors[r].text]
    /\ vectors[r].doc \in DOMAIN documents
    /\ \A p \in Syncing!Paths : \A c \in Held(p) \cap NoteContents :
        r \in DOMAIN Records[c] => vectors[r].doc[2] = p

Tables ==
    /\ vault = [p \in Syncing!Paths |-> vault[p]]
    /\ \A p \in Syncing!Paths : vault[p] \in Held(p)
    /\ documents = [d \in DOMAIN documents |-> documents[d]]
    /\ \A d \in DOMAIN documents : RowOf(d, documents[d].path)
    /\ \A d, e \in DOMAIN documents : documents[d].path = documents[e].path => d = e
    /\ structural = [d \in DOMAIN structural |-> structural[d]]
    /\ DOMAIN structural \subseteq DOMAIN documents
    /\ vectors = [r \in DOMAIN vectors |-> vectors[r]]
    /\ \A r \in DOMAIN vectors : VectorOf(r)

HasRead == {"compare", "upsert", "restructure", "embed", "import"}

\* What any run has seen of the files is no newer than they are.
Saw(run, p) ==
    /\ run.hash[p] # Absent => Earlier(p, run.hash[p], vault[p])
    /\ run.note[p] # Absent => run.note[p] \in Held(p) /\ Earlier(p, run.note[p], vault[p])
    /\ run.at \in HasRead \/ (run.at = "read" /\ p < run.next) =>
        (run.note[p] # Absent => run.hash[p] # Absent /\ Earlier(p, run.hash[p], run.note[p]))

WasPrepared(run) == {p \in Syncing!Paths : run.note[p] # Absent}

Seeing(run) ==
    /\ \A p \in Syncing!Paths : Saw(run, p)
    /\ run.at \in {"upsert", "restructure"} => run.todo \subseteq WasPrepared(run)
    /\ run.at = "upsert" => run.kept \subseteq WasPrepared(run)
    /\ run.at \in {"upsert", "restructure", "embed"} => run.mode # "import"
    /\ run.at = "import" => run.mode = "import" /\ run.todo \subseteq DOMAIN Sidecar

\* The rows of a note.
Stored(p) ==
    LET d == Syncing!Doc(p, vault[p])
    IN  d \in DOMAIN documents /\ documents[d] = [path |-> p, content |-> vault[p], hash |-> vault[p]]
Structured(p) ==
    LET d == Syncing!Doc(p, vault[p])
    IN  d \in DOMAIN structural /\ structural[d] = vault[p]
Embedded(p, r) == r \in DOMAIN vectors /\ vectors[r].text = Records[vault[p]][r]

\* What an undisturbed run has done so far.
Looked(run, p) ==
    /\ run.at \in HasRead \cup {"read"} \/ p < run.next => run.hash[p] = Visible(p)
    /\ run.at \in HasRead \/ (run.at = "read" /\ p < run.next) => run.note[p] = Visible(p)

Undisturbed(run) ==
    /\ \A p \in Syncing!Paths : Looked(run, p)
    /\ run.at = "upsert" => \A p \in Syncing!Notes \ run.todo :
        Stored(p) /\ (p \notin run.kept => Structured(p))
    /\ run.at = "restructure" =>
        /\ \A p \in Syncing!Notes : Stored(p)
        /\ \A p \in Syncing!Notes \ run.todo : Structured(p)
        /\ \A d \in DOMAIN documents : documents[d].path \in Syncing!Notes
    /\ run.at = "embed" => \A p \in Syncing!Notes :
        \A r \in DOMAIN Records[vault[p]] \ run.todo : Embedded(p, r)
    /\ run.at = "embed" \/ run.mode = "import" => Syncing!MirrorsNotes

Converging ==
    /\ Tables
    /\ \A s \in Syncs : sync[s] \in SyncRuns => Seeing(sync[s])
    /\ \A s \in Syncs : alone[s] /\ sync[s] \in SyncRuns => Undisturbed(sync[s])
    /\ UndisturbedSyncConverges

\* What the edits allow to be said of files and their ages.
LEMMA HeldFiles ==
    ASSUME GoesForward, NEW p \in Syncing!Paths
    PROVE  /\ Initial = [q \in Syncing!Paths |-> Initial[q]] /\ Initial[p] \in Held(p)
           /\ Held(p) \subseteq NoteContents \cup {Absent, Broken}
           /\ \A c \in Held(p) : Editing.age[p][c] \in Nat
           /\ \A c \in Held(p) : \A to \in Saves[p][c] :
                /\ to \in Held(p) /\ Editing.age[p][c] <= Editing.age[p][to]
                /\ c \in NoteContents /\ to # c => Editing.age[p][c] < Editing.age[p][to]
BY DEF GoesForward, Syncing!EditsGoForward, Held

LEMMA ContentAges ==
    ASSUME GoesForward, NEW p \in Syncing!Paths, NEW c \in NoteContents
    PROVE  Editing.age[p][c] \in Nat
BY DEF GoesForward, Syncing!EditsGoForward

LEMMA OneOwner ==
    ASSUME GoesForward, NEW p \in Syncing!Paths, NEW q \in Syncing!Paths,
           NEW c \in Held(p) \cap NoteContents, NEW d \in Held(q) \cap NoteContents,
           NEW r \in DOMAIN Records[c], r \in DOMAIN Records[d]
    PROVE  p = q
BY DEF GoesForward, Syncing!EditsGoForward, Held

LEMMA SidecarRows ==
    ASSUME GoesForward, NEW r \in DOMAIN Sidecar
    PROVE  /\ Sidecar[r] = [doc |-> Sidecar[r].doc, text |-> Sidecar[r].text]
           /\ \A p \in Syncing!Paths : \A c \in Held(p) \cap NoteContents :
                r \in DOMAIN Records[c] => Sidecar[r].doc[2] = p
BY DEF GoesForward, Syncing!EditsGoForward, Held

LEMMA StaysEarlier ==
    ASSUME GoesForward, NEW p \in Syncing!Paths, NEW c \in Held(p), NEW to \in Saves[p][c],
           NEW x \in NoteContents, Earlier(p, x, c)
    PROVE  Earlier(p, x, to)
<1>1. /\ to \in Held(p) /\ Editing.age[p][c] <= Editing.age[p][to]
      /\ c \in NoteContents /\ to # c => Editing.age[p][c] < Editing.age[p][to]
      /\ Editing.age[p][c] \in Nat /\ Editing.age[p][to] \in Nat
  BY HeldFiles
<1>2. CASE x = c
  BY <1>1, <1>2 DEF Earlier
<1>3. CASE x # c
  <2>1. x \in NoteContents /\ Editing.age[p][x] < Editing.age[p][c]
    BY <1>3 DEF Earlier
  <2>2. Editing.age[p][x] \in Nat
    BY <2>1, ContentAges
  <2> QED BY <1>1, <2>1, <2>2 DEF Earlier
<1> QED BY <1>2, <1>3

\* Between two looks that saw the same nothing else was there.
LEMMA NothingBetween ==
    ASSUME GoesForward, NEW p \in Syncing!Paths, NEW x \in NoteContents,
           NEW y \in NoteContents, Earlier(p, x, y), Earlier(p, y, x)
    PROVE  x = y
<1>1. Editing.age[p][x] \in Nat /\ Editing.age[p][y] \in Nat
  BY ContentAges
<1> QED BY <1>1 DEF Earlier

LEMMA NoNothing == Absent \notin NoteContents /\ Broken \notin NoteContents
BY VaultAssumption DEF VaultAssumption, Syncing!SyncAssumption

LEMMA SawSame ==
    ASSUME NEW run, Seeing(run), UNCHANGED vault
    PROVE  Seeing(run)'
BY DEF Seeing, Saw, Earlier, Held, WasPrepared

\* What is said of an undisturbed run, of the tables and of the vault.
LEMMA UndisturbedSame ==
    ASSUME NEW run, Undisturbed(run), UNCHANGED <<vault, documents, structural, vectors>>
    PROVE  Undisturbed(run)'
BY DEF Undisturbed, Looked, Visible, Stored, Structured, Embedded, Syncing!MirrorsNotes,
  Syncing!Notes, Syncing!IsNote, Syncing!Doc

LEMMA TablesSame ==
    ASSUME Tables, UNCHANGED <<vault, documents, structural, vectors>>
    PROVE  Tables'
<1>1. \A d \in DOMAIN documents : RowOf(d, documents[d].path) => RowOf(d, documents[d].path)'
  BY DEF RowOf, Earlier, Syncing!Doc
<1>2. \A r : VectorOf(r) => VectorOf(r)'
  BY DEF VectorOf, Held
<1>3. \A p : Held(p)' = Held(p)
  BY DEF Held
<1> QED BY <1>1, <1>2, <1>3 DEF Tables

\* An undisturbed sync that is done has left what it should.
LeftWhole(run) ==
    run.at = "done" =>
        Syncing!MirrorsNotes /\ (run.mode # "import" => Syncing!HasVectors)

LEMMA WholeSame ==
    ASSUME NEW run, LeftWhole(run), UNCHANGED <<vault, documents, structural, vectors>>
    PROVE  LeftWhole(run)'
<1>1. Syncing!MirrorsNotes => Syncing!MirrorsNotes'
  BY DEF Syncing!MirrorsNotes, Syncing!Notes, Syncing!IsNote, Syncing!Doc
<1>2. Syncing!HasVectors => Syncing!HasVectors'
  BY DEF Syncing!HasVectors, Syncing!Notes, Syncing!IsNote, Syncing!Doc
<1> QED BY <1>1, <1>2 DEF LeftWhole

LEMMA ConvergedMeans ==
    UndisturbedSyncConverges <=> \A s \in Syncs : alone[s] => LeftWhole(sync[s])
BY DEF UndisturbedSyncConverges, Syncing!UndisturbedSyncConverges, LeftWhole

\* A step of a run, whatever it makes of the tables: what there is to show.
LEMMA ConvergingGoesOn ==
    ASSUME SyncInvariant, Converging, NEW s \in Syncs, sync[s] \in SyncRuns,
           UNCHANGED <<vault, alone>>, NEW run \in SyncRuns \cup Rests,
           sync' = [sync EXCEPT ![s] = run],
           Tables', run \in SyncRuns => Seeing(run),
           alone[s] /\ run \in SyncRuns => Undisturbed(run)',
           alone[s] => LeftWhole(run)'
    PROVE  Converging'
<1>1. sync'[s] = run /\ \A t \in Syncs \ {s} : sync'[t] = sync[t]
  BY DEF SyncInvariant
<1>2. \A t \in Syncs : alone[t] => t = s
  BY DEF SyncInvariant
<1>3. ASSUME NEW t \in Syncs, sync'[t] \in SyncRuns
      PROVE  Seeing(sync[t])'
  <2>1. CASE t = s
    <3>1. Seeing(run)'
      BY <1>1, <1>3, <2>1, SawSame
    <3> QED BY <1>1, <2>1, <3>1
  <2>2. CASE t # s
    <3>1. PICK r : r = sync[t]
      OBVIOUS
    <3>2. sync'[t] = r /\ Seeing(r)
      BY <1>1, <1>3, <2>2, <3>1 DEF Converging
    <3>3. Seeing(r)'
      BY <3>2, SawSame
    <3> QED BY <3>2, <3>3
  <2> QED BY <2>1, <2>2
<1>4. ASSUME NEW t \in Syncs, alone'[t], sync'[t] \in SyncRuns
      PROVE  Undisturbed(sync[t])'
  BY <1>1, <1>2, <1>4
<1>5. ASSUME NEW t \in Syncs, alone'[t]
      PROVE  LeftWhole(sync[t])'
  BY <1>1, <1>2, <1>5
<1>6. UndisturbedSyncConverges'
  BY <1>5 DEF UndisturbedSyncConverges, Syncing!UndisturbedSyncConverges, LeftWhole
<1> QED BY <1>3, <1>4, <1>6 DEF Converging

\* The same, of a step that leaves the tables.
LEMMA ConvergingLooksOn ==
    ASSUME SyncInvariant, Converging, NEW s \in Syncs, sync[s] \in SyncRuns,
           UNCHANGED <<vault, alone, documents, structural, vectors>>,
           NEW run \in SyncRuns \cup Rests, sync' = [sync EXCEPT ![s] = run],
           run \in SyncRuns => Seeing(run),
           alone[s] /\ run \in SyncRuns => Undisturbed(run),
           alone[s] => LeftWhole(run)
    PROVE  Converging'
<1>1. Tables'
  BY TablesSame DEF Converging
<1>2. alone[s] /\ run \in SyncRuns => Undisturbed(run)'
  BY UndisturbedSame
<1>3. alone[s] => LeftWhole(run)'
  BY WholeSame
<1> QED BY <1>1, <1>2, <1>3, ConvergingGoesOn

\* A run that stops short, with the tables as they should be of any run.
LEMMA ConvergingStops ==
    ASSUME SyncInvariant, Converging, NEW s \in Syncs, sync[s] \in SyncRuns,
           UNCHANGED <<vault, alone>>, NEW at \in {"idle", "refused"}, Syncing!End(s, at),
           UNCHANGED <<documents, structural, vectors>>
    PROVE  Converging'
<1>1. PICK run : run = IF at = "idle" THEN Syncing!Idle ELSE [at |-> at, mode |-> sync[s].mode]
  OBVIOUS
<1>2. run \in Rests
  BY <1>1 DEF SyncRuns, Rests, Syncing!Idle, Modes
<1>3. sync' = [sync EXCEPT ![s] = run]
  BY <1>1 DEF Syncing!End
<1>4. run \notin SyncRuns
  BY <1>2, WhoRuns DEF Rests
<1>5. LeftWhole(run)
  BY <1>1 DEF LeftWhole, Syncing!Idle
<1> QED BY <1>2, <1>3, <1>4, <1>5, ConvergingLooksOn

\* A run that is done.
LEMMA ConvergingEnds ==
    ASSUME SyncInvariant, Converging, NEW s \in Syncs, sync[s] \in SyncRuns,
           UNCHANGED <<vault, alone>>, Syncing!End(s, "done"), Tables',
           alone[s] => /\ Syncing!MirrorsNotes'
                       /\ sync[s].mode # "import" => Syncing!HasVectors'
    PROVE  Converging'
<1>1. PICK run : run = [at |-> "done", mode |-> sync[s].mode]
  OBVIOUS
<1>2. run \in Rests
  BY <1>1 DEF SyncRuns, Rests, Modes
<1>3. sync' = [sync EXCEPT ![s] = run]
  BY <1>1 DEF Syncing!End
<1>4. run \notin SyncRuns
  BY <1>1, <1>2, WhoRuns
<1>5. alone[s] => LeftWhole(run)'
  BY <1>1 DEF LeftWhole
<1> QED BY <1>2, <1>3, <1>4, <1>5, ConvergingGoesOn

LEMMA ConvergingStarts ==
    ASSUME GoesForward, Syncing!Init
    PROVE  Converging
<1>1. Syncing!Idle \notin SyncRuns
  BY WhoRuns DEF Syncing!Idle, Rests, Modes
<1>2. \A s \in Syncs : sync[s] \notin SyncRuns /\ ~alone[s]
  BY <1>1 DEF Syncing!Init
<1>3. ASSUME NEW d \in DOMAIN documents
      PROVE  \E p \in Syncing!Paths :
                /\ d = Syncing!Doc(p, vault[p]) /\ vault[p] \in NoteContents
                /\ documents[d] = [path |-> p, content |-> vault[p], hash |-> vault[p]]
  <2>1. PICK p \in Syncing!Paths : Syncing!IsNote(vault[p]) /\ d = Syncing!Doc(p, vault[p])
    BY DEF Syncing!Init
  <2>2. d[2] = p
    BY <2>1 DEF Syncing!Doc
  <2> QED BY <2>1, <2>2 DEF Syncing!Init, Syncing!IsNote
<1>4. ASSUME NEW d \in DOMAIN documents
      PROVE  RowOf(d, documents[d].path)
  BY <1>3 DEF RowOf, Earlier
<1>5. \A d, e \in DOMAIN documents : documents[d].path = documents[e].path => d = e
  BY <1>3
<1>6. /\ vault = [p \in Syncing!Paths |-> vault[p]]
      /\ \A p \in Syncing!Paths : vault[p] \in Held(p)
  <2>1. vault = Initial
    BY DEF Syncing!Init
  <2>2. Initial = [p \in Syncing!Paths |-> Initial[p]]
    BY DEF GoesForward, Syncing!EditsGoForward
  <2> QED BY <2>1, <2>2, HeldFiles
<1>7. documents = [d \in DOMAIN documents |-> documents[d]]
  BY DEF Syncing!Init
<1>8. DOMAIN structural = {} /\ DOMAIN vectors = {}
  BY DEF Syncing!Init
<1>9. /\ structural = [d \in DOMAIN structural |-> structural[d]]
      /\ vectors = [r \in DOMAIN vectors |-> vectors[r]]
  BY DEF Syncing!Init
<1>10. Tables
  BY <1>4, <1>5, <1>6, <1>7, <1>8, <1>9 DEF Tables
<1> QED BY <1>2, <1>10, ConvergedMeans DEF Converging

\* What a save leaves of what was earlier than the file.
LEMMA SavedLater ==
    ASSUME GoesForward, Tables, NEW q \in Syncing!Paths, Syncing!Save(q),
           NEW p \in Syncing!Paths, NEW x \in NoteContents, Earlier(p, x, vault[p])
    PROVE  Earlier(p, x, vault'[p])
<1>1. PICK c \in Saves[q][vault[q]] : vault' = [vault EXCEPT ![q] = c]
  BY DEF Syncing!Save
<1>2. vault[p] \in Held(p)
  BY DEF Tables
<1>3. CASE p = q
  <2>1. vault'[p] = c
    BY <1>1, <1>3 DEF Tables
  <2>2. Earlier(p, x, c)
    BY <1>1, <1>2, <1>3, StaysEarlier
  <2> QED BY <2>1, <2>2
<1>4. CASE p # q
  BY <1>1, <1>4 DEF Tables
<1> QED BY <1>3, <1>4

LEMMA SaveConverges ==
    ASSUME GoesForward, SyncInvariant, Converging, NEW q \in Syncing!Paths, Syncing!Save(q)
    PROVE  Converging'
<1>1. PICK c \in Saves[q][vault[q]] : vault' = [vault EXCEPT ![q] = c]
  BY DEF Syncing!Save
<1>2. /\ UNCHANGED <<documents, structural, vectors, sync>>
      /\ \A s \in Syncs : ~alone'[s]
  BY DEF Syncing!Save
<1>3. Tables
  BY DEF Converging
<1>4. /\ vault' = [p \in Syncing!Paths |-> vault'[p]]
      /\ \A p \in Syncing!Paths : vault'[p] \in Held(p)
  <2>1. vault[q] \in Held(q)
    BY <1>3 DEF Tables
  <2>2. c \in Held(q)
    BY <1>1, <2>1, HeldFiles
  <2> QED BY <1>1, <1>3, <2>2 DEF Tables
<1>5. ASSUME NEW d \in DOMAIN documents
      PROVE  RowOf(d, documents[d].path)'
  <2>1. RowOf(d, documents[d].path)
    BY <1>3 DEF Tables
  <2>2. Earlier(documents[d].path, documents[d].content, vault'[documents[d].path])
    BY <1>3, <2>1, SavedLater DEF RowOf
  <2> QED BY <1>2, <2>1, <2>2 DEF RowOf, Earlier, Syncing!Doc
<1>6. ASSUME NEW r \in DOMAIN vectors
      PROVE  VectorOf(r)'
  <2>1. VectorOf(r)
    BY <1>3 DEF Tables
  <2> QED BY <1>2, <2>1 DEF VectorOf, Held
<1>7. \A p : Held(p)' = Held(p)
  BY DEF Held
<1>8. Tables'
  BY <1>2, <1>3, <1>4, <1>5, <1>6, <1>7 DEF Tables
<1>9. ASSUME NEW s \in Syncs, sync[s] \in SyncRuns
      PROVE  Seeing(sync[s])'
  <2>1. Seeing(sync[s])
    BY <1>9 DEF Converging
  <2>2. ASSUME NEW p \in Syncing!Paths
        PROVE  Saw(sync[s], p)'
    <3>1. Saw(sync[s], p)
      BY <2>1 DEF Seeing
    <3>2. sync[s].hash[p] # Absent => sync[s].hash[p] \in NoteContents
      BY <1>9 DEF SyncRuns, Seen
    <3>3. sync[s].note[p] # Absent => sync[s].note[p] \in NoteContents
      BY <1>9 DEF SyncRuns, Seen
    <3>4. sync[s].hash[p] # Absent => Earlier(p, sync[s].hash[p], vault'[p])
      BY <1>3, <3>1, <3>2, SavedLater DEF Saw
    <3>5. sync[s].note[p] # Absent => Earlier(p, sync[s].note[p], vault'[p])
      BY <1>3, <3>1, <3>3, SavedLater DEF Saw
    <3> QED BY <1>2, <3>1, <3>4, <3>5 DEF Saw, Earlier, Held
  <2> QED BY <1>2, <2>1, <2>2 DEF Seeing, WasPrepared
<1>10. UndisturbedSyncConverges'
  BY <1>2 DEF UndisturbedSyncConverges, Syncing!UndisturbedSyncConverges
<1> QED BY <1>2, <1>8, <1>9, <1>10 DEF Converging

LEMMA BeginConverges ==
    ASSUME GoesForward, SyncInvariant, Converging, NEW s \in Syncs,
           NEW mode \in {"changed", "full", "load"}, Syncing!Begin(s, mode)
    PROVE  Converging'
<1>1. PICK run : run = [at |-> "walk", mode |-> mode, next |-> 1, todo |-> {}, kept |-> {},
                        hash |-> [p \in Syncing!Paths |-> Absent],
                        note |-> [p \in Syncing!Paths |-> Absent]]
  OBVIOUS
<1>2. /\ sync' = [sync EXCEPT ![s] = run]
      /\ alone' = [t \in Syncs |-> t = s /\ \A u \in Syncs \ {s} : ~Syncing!Running(u)]
      /\ UNCHANGED <<vault, documents, structural, vectors>>
  BY <1>1 DEF Syncing!Begin
<1>3. sync'[s] = run /\ \A t \in Syncs \ {s} : sync'[t] = sync[t] /\ ~alone'[t]
  BY <1>2 DEF SyncInvariant
<1>4. Seeing(run)'
  BY <1>1 DEF Seeing, Saw, HasRead, WasPrepared
<1>5. Undisturbed(run)'
  <2>1. \A p \in Syncing!Paths : ~(p < 1)
    BY VaultAssumption DEF VaultAssumption, Syncing!SyncAssumption, Syncing!Paths
  <2> QED BY <1>1, <2>1 DEF Undisturbed, Looked, HasRead
<1>6. ASSUME NEW t \in Syncs, sync'[t] \in SyncRuns
      PROVE  Seeing(sync[t])'
  <2>1. CASE t = s
    BY <1>3, <1>4, <2>1
  <2>2. CASE t # s
    <3>1. PICK r : r = sync[t]
      OBVIOUS
    <3>2. sync'[t] = r /\ Seeing(r)
      BY <1>3, <1>6, <2>2, <3>1 DEF Converging
    <3>3. Seeing(r)'
      BY <1>2, <3>2, SawSame
    <3> QED BY <3>2, <3>3
  <2> QED BY <2>1, <2>2
<1>7. \A t \in Syncs : alone'[t] => Undisturbed(sync[t])'
  BY <1>3, <1>5
<1>8. UndisturbedSyncConverges'
  <2>1. sync'[s].at # "done"
    BY <1>1, <1>3
  <2> QED BY <1>3, <2>1 DEF UndisturbedSyncConverges, Syncing!UndisturbedSyncConverges
<1>9. Tables'
  BY <1>2, TablesSame DEF Converging
<1> QED BY <1>6, <1>7, <1>8, <1>9 DEF Converging

LEMMA CrashConverges ==
    ASSUME SyncInvariant, Converging, NEW s \in Syncs, Syncing!Crash(s)
    PROVE  Converging'
<1>1. sync[s] \in SyncRuns
  BY WhoRuns DEF SyncInvariant, Syncing!Crash, Syncing!Running
<1> QED BY <1>1, ConvergingStops DEF Syncing!Crash

\* Where a walk or a reading goes next, and which files are then behind it.
LEMMA AdvanceReaches ==
    ASSUME NEW s \in Syncs, NEW state \in SyncRuns, NEW here \in {"walk", "read"},
           NEW there \in {"read", "compare"}, Syncing!Advance(s, state, here, there)
    PROVE  \E run \in SyncRuns :
              /\ sync' = [sync EXCEPT ![s] = run]
              /\ run.hash = state.hash /\ run.note = state.note /\ run.mode = state.mode
              /\ \/ /\ run.at = here
                    /\ \A p \in Syncing!Paths : p < run.next => p <= state.next
                 \/ /\ run.at = there
                    /\ \A p \in Syncing!Paths : p <= state.next /\ ~(p < run.next)
<1>1. PICK run : run = IF state.next < NumNotes
                       THEN [state EXCEPT !.at = here, !.next = state.next + 1]
                       ELSE [state EXCEPT !.at = there, !.next = 1]
  OBVIOUS
<1>2. sync' = [sync EXCEPT ![s] = run]
  BY <1>1 DEF Syncing!Advance
<1>3. PICK next \in Nat : next = state.next + 1
  BY DEF SyncRuns
<1>4. run \in SyncRuns
  BY <1>1, <1>3 DEF SyncRuns
<1>5. run.hash = state.hash /\ run.note = state.note /\ run.mode = state.mode
  BY <1>1 DEF SyncRuns
<1>6. NumNotes \in Nat /\ state.next \in Nat
  BY VaultAssumption DEF VaultAssumption, Syncing!SyncAssumption, SyncRuns
<1>7. CASE state.next < NumNotes
  <2>1. run.at = here /\ run.next = state.next + 1
    BY <1>1, <1>7 DEF SyncRuns
  <2>2. \A p \in Syncing!Paths : p < run.next => p <= state.next
    BY <1>6, <2>1 DEF Syncing!Paths
  <2> QED BY <1>2, <1>4, <1>5, <2>1, <2>2
<1>8. CASE ~(state.next < NumNotes)
  <2>1. run.at = there /\ run.next = 1
    BY <1>1, <1>8 DEF SyncRuns
  <2>2. \A p \in Syncing!Paths : p <= state.next /\ ~(p < run.next)
    BY <1>6, <1>8, <2>1 DEF Syncing!Paths
  <2> QED BY <1>2, <1>4, <1>5, <2>1, <2>2
<1> QED BY <1>7, <1>8

LEMMA PathsAreNumbers ==
    ASSUME NEW p \in Syncing!Paths, NEW n \in Nat
    PROVE  p \in Nat /\ (p <= n <=> p < n \/ p = n)
BY VaultAssumption DEF VaultAssumption, Syncing!SyncAssumption, Syncing!Paths

LEMMA WalkConverges ==
    ASSUME GoesForward, SyncInvariant, Converging, NEW s \in Syncs, Syncing!Walk(s)
    PROVE  Converging'
<1>1. sync[s] \in SyncRuns /\ sync[s].at = "walk"
  BY WhoRuns DEF SyncInvariant, Syncing!Walk
<1> DEFINE n == sync[s].next
<1>2. PICK seen : seen = IF Syncing!IsNote(vault[n]) THEN vault[n] ELSE Absent
  OBVIOUS
<1>3. PICK hash : hash = [sync[s].hash EXCEPT ![n] = seen]
  OBVIOUS
<1>4. hash \in Seen /\ \A p \in Syncing!Paths : hash[p] = IF p = n THEN seen ELSE sync[s].hash[p]
  BY <1>1, <1>2, <1>3 DEF SyncRuns, Seen, Syncing!IsNote
<1>5. PICK state : state = [sync[s] EXCEPT !.hash = hash]
  OBVIOUS
<1>6. /\ state \in SyncRuns /\ state.hash = hash /\ state.note = sync[s].note
      /\ state.mode = sync[s].mode /\ state.next = n
  BY <1>1, <1>4, <1>5 DEF SyncRuns
<1>7. Syncing!Advance(s, state, "walk", "read")
  <2>1. [sync[s] EXCEPT !.hash[n] = seen] = state
    BY <1>3, <1>5
  <2> QED BY <1>2, <2>1 DEF Syncing!Walk
<1>8. PICK run \in SyncRuns :
          /\ sync' = [sync EXCEPT ![s] = run]
          /\ run.hash = hash /\ run.note = sync[s].note /\ run.mode = sync[s].mode
          /\ \/ run.at = "walk" /\ \A p \in Syncing!Paths : p < run.next => p <= n
             \/ run.at = "read" /\ \A p \in Syncing!Paths : p <= n /\ ~(p < run.next)
  BY <1>6, <1>7, AdvanceReaches
<1>9. UNCHANGED <<vault, alone, documents, structural, vectors>>
  BY DEF Syncing!Walk
<1>10. n \in Nat
  BY <1>1 DEF SyncRuns
<1>11. Seeing(run)
  <2>1. Seeing(sync[s])
    BY <1>1 DEF Converging
  <2>2. ASSUME NEW p \in Syncing!Paths
        PROVE  Saw(run, p)
    <3>1. hash[p] # Absent => Earlier(p, hash[p], vault[p])
      BY <1>2, <1>4, <2>1 DEF Seeing, Saw, Earlier
    <3> QED BY <1>8, <2>1, <3>1 DEF Seeing, Saw, HasRead
  <2> QED BY <1>8, <2>2 DEF Seeing
<1>12. ASSUME alone[s]
       PROVE  Undisturbed(run)
  <2>1. Undisturbed(sync[s])
    BY <1>1, <1>12 DEF Converging
  <2>2. ASSUME NEW p \in Syncing!Paths
        PROVE  Looked(run, p)
    <3>1. p <= n => hash[p] = Visible(p)
      BY <1>1, <1>2, <1>4, <1>10, <2>1, PathsAreNumbers DEF Undisturbed, Looked,
        Visible, HasRead
    <3> QED BY <1>8, <3>1 DEF Looked, HasRead
  <2> QED BY <1>8, <2>1, <2>2 DEF Undisturbed
<1>13. LeftWhole(run)
  BY <1>8 DEF LeftWhole
<1> QED BY <1>1, <1>8, <1>9, <1>11, <1>12, <1>13, ConvergingLooksOn

LEMMA ReadConverges ==
    ASSUME GoesForward, SyncInvariant, Converging, NEW s \in Syncs, Syncing!Read(s)
    PROVE  Converging'
<1>1. sync[s] \in SyncRuns /\ sync[s].at = "read"
  BY WhoRuns DEF SyncInvariant, Syncing!Read
<1>2. UNCHANGED <<vault, alone, documents, structural, vectors>>
  BY DEF Syncing!Read
<1>3. CASE Syncing!End(s, "idle")
  BY <1>1, <1>2, <1>3, ConvergingStops
<1> DEFINE n == sync[s].next
<1>4. PICK seen : seen = IF sync[s].hash[n] # Absent /\ Syncing!IsNote(vault[n])
                         THEN vault[n] ELSE Absent
  OBVIOUS
<1>5. CASE Syncing!Advance(s, [sync[s] EXCEPT !.note[n] = seen], "read", "compare")
  <2>1. PICK note : note = [sync[s].note EXCEPT ![n] = seen]
    OBVIOUS
  <2>2. note \in Seen /\ \A p \in Syncing!Paths : note[p] = IF p = n THEN seen ELSE sync[s].note[p]
    BY <1>1, <1>4, <2>1 DEF SyncRuns, Seen, Syncing!IsNote
  <2>3. PICK state : state = [sync[s] EXCEPT !.note = note]
    OBVIOUS
  <2>4. /\ state \in SyncRuns /\ state.note = note /\ state.hash = sync[s].hash
        /\ state.mode = sync[s].mode /\ state.next = n
    BY <1>1, <2>2, <2>3 DEF SyncRuns
  <2>5. Syncing!Advance(s, state, "read", "compare")
    BY <1>5, <2>1, <2>3
  <2>6. PICK run \in SyncRuns :
            /\ sync' = [sync EXCEPT ![s] = run]
            /\ run.hash = sync[s].hash /\ run.note = note /\ run.mode = sync[s].mode
            /\ \/ run.at = "read" /\ \A p \in Syncing!Paths : p < run.next => p <= n
               \/ run.at = "compare" /\ \A p \in Syncing!Paths : p <= n /\ ~(p < run.next)
    BY <2>4, <2>5, AdvanceReaches
  <2>7. n \in Nat
    BY <1>1 DEF SyncRuns
  <2>8. Seeing(run)
    <3>1. Seeing(sync[s])
      BY <1>1 DEF Converging
    <3>2. ASSUME NEW p \in Syncing!Paths
          PROVE  Saw(run, p)
      <4>1. Saw(sync[s], p) /\ vault[p] \in Held(p)
        BY <3>1 DEF Seeing, Converging, Tables
      <4>2. note[p] # Absent => note[p] \in Held(p) /\ Earlier(p, note[p], vault[p])
        BY <1>4, <2>2, <4>1 DEF Saw, Earlier
      <4>3. p <= n /\ note[p] # Absent =>
                sync[s].hash[p] # Absent /\ Earlier(p, sync[s].hash[p], note[p])
        <5>1. CASE p = n
          BY <1>4, <2>2, <4>1, <5>1 DEF Saw
        <5>2. CASE p # n
          BY <1>1, <2>2, <2>7, <4>1, <5>2, PathsAreNumbers DEF Saw
        <5> QED BY <5>1, <5>2
      <4> QED BY <2>6, <4>1, <4>2, <4>3 DEF Saw, HasRead
    <3> QED BY <2>6, <3>2 DEF Seeing
  <2>9. ASSUME alone[s]
        PROVE  Undisturbed(run)
    <3>1. Undisturbed(sync[s])
      BY <1>1, <2>9 DEF Converging
    <3>2. ASSUME NEW p \in Syncing!Paths
          PROVE  Looked(run, p)
      <4>1. sync[s].hash[p] = Visible(p)
        BY <1>1, <3>1 DEF Undisturbed, Looked
      <4>2. p <= n => note[p] = Visible(p)
        <5>1. CASE p = n
          BY <1>4, <2>2, <4>1, <5>1 DEF Visible
        <5>2. CASE p # n
          BY <1>1, <2>2, <2>7, <3>1, <5>2, PathsAreNumbers DEF Undisturbed, Looked
        <5> QED BY <5>1, <5>2
      <4> QED BY <2>6, <4>1, <4>2 DEF Looked, HasRead
    <3> QED BY <2>6, <3>1, <3>2 DEF Undisturbed
  <2>10. LeftWhole(run)
    BY <2>6 DEF LeftWhole
  <2> QED BY <1>1, <1>2, <2>6, <2>8, <2>9, <2>10, ConvergingLooksOn
<1> QED BY <1>3, <1>4, <1>5 DEF Syncing!Read

\* What a run that has read the vault has of a note, and an undisturbed one of all.
LEMMA HasNotes ==
    ASSUME Converging, NEW s \in Syncs, sync[s] \in SyncRuns, sync[s].at \in HasRead,
           NEW p \in Syncing!Prepared(s)
    PROVE  /\ p \in Syncing!Paths
           /\ sync[s].note[p] \in Held(p) \cap NoteContents /\ sync[s].hash[p] \in NoteContents
           /\ Syncing!DocOf(s, p) = Syncing!Doc(p, sync[s].hash[p])
           /\ Earlier(p, sync[s].hash[p], sync[s].note[p])
           /\ Earlier(p, sync[s].note[p], vault[p])
<1>1. p \in Syncing!Paths /\ sync[s].note[p] # Absent
  BY DEF Syncing!Prepared
<1>2. Saw(sync[s], p)
  BY <1>1 DEF Converging, Seeing
<1>3. sync[s].hash[p] # Absent
  BY <1>1, <1>2 DEF Saw
<1>4. sync[s].hash[p] \in NoteContents /\ sync[s].note[p] \in NoteContents
  BY <1>1, <1>3 DEF SyncRuns, Seen
<1> QED BY <1>1, <1>2, <1>4 DEF Saw, Syncing!DocOf

LEMMA HasAllNotes ==
    ASSUME Converging, NEW s \in Syncs, sync[s] \in SyncRuns, sync[s].at \in HasRead, alone[s]
    PROVE  /\ Syncing!Prepared(s) = Syncing!Notes /\ WasPrepared(sync[s]) = Syncing!Notes
           /\ \A p \in Syncing!Notes :
                /\ p \in Syncing!Paths /\ vault[p] \in NoteContents /\ vault[p] \in Held(p)
                /\ sync[s].hash[p] = vault[p] /\ sync[s].note[p] = vault[p]
                /\ Syncing!DocOf(s, p) = Syncing!Doc(p, vault[p])
<1>1. \A p \in Syncing!Paths : sync[s].hash[p] = Visible(p) /\ sync[s].note[p] = Visible(p)
  BY DEF Converging, Undisturbed, Looked
<1>2. \A p \in Syncing!Paths : Visible(p) # Absent <=> p \in Syncing!Notes
  BY NoNothing DEF Visible, Syncing!Notes, Syncing!IsNote
<1>3. \A p \in Syncing!Notes : p \in Syncing!Paths /\ vault[p] \in NoteContents
                                /\ Visible(p) = vault[p]
  BY DEF Visible, Syncing!Notes, Syncing!IsNote
<1>4. \A p \in Syncing!Notes : vault[p] \in Held(p)
  BY <1>3 DEF Converging, Tables
<1>5. Syncing!Prepared(s) = Syncing!Notes /\ WasPrepared(sync[s]) = Syncing!Notes
  BY <1>1, <1>2, <1>3 DEF Syncing!Prepared, WasPrepared
<1> QED BY <1>1, <1>3, <1>4, <1>5 DEF Syncing!DocOf

LEMMA DocsDiffer ==
    ASSUME NEW p, NEW q, NEW c, NEW d, Syncing!Doc(p, c) = Syncing!Doc(q, d)
    PROVE  p = q
BY DEF Syncing!Doc

LEMMA CompareConverges ==
    ASSUME GoesForward, SyncInvariant, Converging, NEW s \in Syncs, Syncing!Compare(s)
    PROVE  Converging'
<1>1. sync[s] \in SyncRuns /\ sync[s].at = "compare" /\ sync[s].mode # "import"
  BY WhoRuns DEF SyncInvariant, Syncing!Compare
<1>2. PICK todo : todo = Syncing!Changed(s)
  OBVIOUS
<1>3. PICK kept : kept = Syncing!Prepared(s) \ todo
  OBVIOUS
<1>4. /\ todo \subseteq Syncing!Prepared(s) /\ kept \subseteq Syncing!Prepared(s)
      /\ Syncing!Prepared(s) \subseteq Syncing!Paths
  BY <1>2, <1>3 DEF Syncing!Changed, Syncing!Prepared
<1>5. PICK run : run = [sync[s] EXCEPT !.at = "upsert", !.todo = todo, !.kept = kept]
  OBVIOUS
<1>6. sync' = [sync EXCEPT ![s] = run] /\ UNCHANGED <<vault, alone, documents, structural, vectors>>
  BY <1>2, <1>3, <1>5 DEF Syncing!Compare, SyncInvariant
<1>7. /\ run \in SyncRuns /\ run.at = "upsert" /\ run.todo = todo /\ run.kept = kept
      /\ run.hash = sync[s].hash /\ run.note = sync[s].note /\ run.mode = sync[s].mode
  BY <1>1, <1>4, <1>5 DEF SyncRuns
<1>8. WasPrepared(run) = Syncing!Prepared(s)
  BY <1>7 DEF WasPrepared, Syncing!Prepared
<1>9. Seeing(run)
  <2>1. Seeing(sync[s])
    BY <1>1 DEF Converging
  <2>2. \A p \in Syncing!Paths : Saw(run, p)
    BY <1>1, <1>7, <2>1 DEF Seeing, Saw, HasRead
  <2> QED BY <1>1, <1>4, <1>7, <1>8, <2>2 DEF Seeing
<1>10. ASSUME alone[s]
       PROVE  Undisturbed(run)
  <2>1. Undisturbed(sync[s])
    BY <1>1, <1>10 DEF Converging
  <2>2. \A p \in Syncing!Paths : Looked(run, p)
    BY <1>1, <1>7, <2>1 DEF Undisturbed, Looked, HasRead
  <2>3. ASSUME NEW p \in Syncing!Notes, p \notin todo
        PROVE  Stored(p) /\ p \in kept
    <3>1. /\ p \in Syncing!Paths /\ p \in Syncing!Prepared(s) /\ vault[p] \in NoteContents
          /\ sync[s].hash[p] = vault[p] /\ Syncing!DocOf(s, p) = Syncing!Doc(p, vault[p])
      BY <1>1, <1>10, <2>3, HasAllNotes DEF HasRead
    <3>2. PICK d \in DOMAIN documents :
              d = Syncing!Doc(p, vault[p]) /\ documents[d].hash = vault[p]
      BY <1>2, <2>3, <3>1 DEF Syncing!Changed
    <3>3. RowOf(d, documents[d].path)
      BY DEF Converging, Tables
    <3>4. documents[d].path = p
      BY <3>2, <3>3, DocsDiffer DEF RowOf
    <3>5. documents[d].content = vault[p]
      BY <3>1, <3>2, <3>3, <3>4, NothingBetween DEF RowOf
    <3> QED BY <1>3, <2>3, <3>1, <3>2, <3>3, <3>4, <3>5 DEF RowOf, Stored
  <2> QED BY <1>1, <1>7, <2>2, <2>3 DEF Undisturbed
<1>11. LeftWhole(run)
  BY <1>7 DEF LeftWhole
<1> QED BY <1>1, <1>6, <1>7, <1>9, <1>10, <1>11, ConvergingLooksOn

LEMMA UpsertConverges ==
    ASSUME GoesForward, SyncInvariant, Converging, NEW s \in Syncs, Syncing!Upsert(s)
    PROVE  Converging'
<1>1. sync[s] \in SyncRuns /\ sync[s].at = "upsert" /\ sync[s].todo # {}
  BY WhoRuns DEF SyncInvariant, Syncing!Upsert
<1>2. UNCHANGED <<vault, alone>>
  BY DEF Syncing!Upsert
<1>3. CASE Syncing!End(s, "refused") /\ UNCHANGED <<documents, structural, vectors>>
  BY <1>1, <1>2, <1>3, ConvergingStops
<1>4. Seeing(sync[s]) /\ Tables
  BY <1>1 DEF Converging
<1>5. WasPrepared(sync[s]) = Syncing!Prepared(s)
  BY DEF WasPrepared, Syncing!Prepared
<1>6. sync[s].todo \subseteq Syncing!Prepared(s) /\ sync[s].todo \in SUBSET Nat
  BY <1>1, <1>4, <1>5 DEF Seeing, Syncing!Prepared, Syncing!Paths, VaultAssumption,
    Syncing!SyncAssumption
<1>7. PICK p \in sync[s].todo : p = Syncing!Min(sync[s].todo)
  BY <1>1, <1>6, LeastElement
<1>8. PICK d : d = Syncing!DocOf(s, p)
  OBVIOUS
<1>9. PICK c : c = sync[s].note[p]
  OBVIOUS
<1>10. /\ p \in Syncing!Paths /\ c \in NoteContents /\ sync[s].hash[p] \in NoteContents
       /\ d = Syncing!Doc(p, sync[s].hash[p])
       /\ Earlier(p, sync[s].hash[p], c) /\ Earlier(p, c, vault[p])
  BY <1>1, <1>6, <1>8, <1>9, HasNotes DEF HasRead
<1>11. CASE /\ ~Syncing!Constrained(d, p, c)
            /\ documents' = Syncing!Put(documents, d,
                                [path |-> p, content |-> c, hash |-> sync[s].hash[p]])
            /\ structural' = Syncing!Put(structural, d, c)
            /\ vectors' = Syncing!Drop(vectors, Syncing!Orphans(d, c))
            /\ sync' = [sync EXCEPT ![s].todo = @ \ {p}]
  <2>1. PICK row : row = [path |-> p, content |-> c, hash |-> sync[s].hash[p]]
    OBVIOUS
  <2>2. /\ DOMAIN documents' = DOMAIN documents \cup {d} /\ documents'[d] = row
        /\ \A e \in DOMAIN documents : e # d => documents'[e] = documents[e]
        /\ documents' = [e \in DOMAIN documents' |-> documents'[e]]
    BY <1>11, <2>1 DEF Syncing!Put
  <2>3. /\ DOMAIN structural' = DOMAIN structural \cup {d} /\ structural'[d] = c
        /\ \A e \in DOMAIN structural : e # d => structural'[e] = structural[e]
        /\ structural' = [e \in DOMAIN structural' |-> structural'[e]]
    BY <1>11 DEF Syncing!Put
  <2>4. /\ \A r \in DOMAIN vectors' : r \in DOMAIN vectors /\ vectors'[r] = vectors[r]
        /\ vectors' = [r \in DOMAIN vectors' |-> vectors'[r]]
    BY <1>11 DEF Syncing!Drop
  <2>5. ASSUME NEW e \in DOMAIN documents'
        PROVE  RowOf(e, documents[e].path)'
    <3>1. CASE e = d
      <4>1. documents'[e] = row /\ row.path = p /\ row.content = c /\ row.hash = sync[s].hash[p]
        BY <2>1, <2>2, <3>1
      <4> QED BY <1>2, <1>10, <2>1, <3>1, <4>1 DEF RowOf, Earlier, Syncing!Doc
    <3>2. CASE e # d
      <4>1. e \in DOMAIN documents /\ documents'[e] = documents[e]
        BY <2>2, <3>2
      <4>2. RowOf(e, documents[e].path)
        BY <1>4, <4>1 DEF Tables
      <4> QED BY <1>2, <4>1, <4>2 DEF RowOf, Earlier, Syncing!Doc
    <3> QED BY <3>1, <3>2
  <2>6. ASSUME NEW e \in DOMAIN documents', NEW f \in DOMAIN documents',
               documents'[e].path = documents'[f].path
        PROVE  e = f
    <3>1. \A g \in DOMAIN documents \ {d} : documents[g].path # p
      BY <1>11 DEF Syncing!Constrained
    <3>2. row.path = p
      BY <2>1
    <3> QED BY <1>4, <2>2, <2>6, <3>1, <3>2 DEF Tables
  <2>7. ASSUME NEW r \in DOMAIN vectors'
        PROVE  VectorOf(r)'
    <3>1. VectorOf(r) /\ vectors'[r] = vectors[r]
      BY <1>4, <2>4 DEF Tables
    <3> QED BY <2>2, <3>1 DEF VectorOf, Held
  <2>8. Tables'
    <3>1. DOMAIN structural' \subseteq DOMAIN documents'
      BY <1>4, <2>2, <2>3 DEF Tables
    <3>2. vault' = [q \in Syncing!Paths |-> vault'[q]] /\ \A q \in Syncing!Paths : vault'[q] \in Held(q)'
      BY <1>2, <1>4 DEF Tables, Held
    <3> QED BY <2>2, <2>3, <2>4, <2>5, <2>6, <2>7, <3>1, <3>2 DEF Tables
  <2>9. PICK run : run = [sync[s] EXCEPT !.todo = sync[s].todo \ {p}]
    OBVIOUS
  <2>10. sync' = [sync EXCEPT ![s] = run]
    BY <1>11, <2>9 DEF SyncInvariant
  <2>11. /\ run \in SyncRuns /\ run.at = "upsert" /\ run.todo = sync[s].todo \ {p}
         /\ run.hash = sync[s].hash /\ run.note = sync[s].note /\ run.mode = sync[s].mode
         /\ run.kept = sync[s].kept
    BY <1>1, <2>9 DEF SyncRuns
  <2>12. Seeing(run)
    <3>1. \A q \in Syncing!Paths : Saw(run, q)
      BY <1>1, <1>4, <2>11 DEF Seeing, Saw, HasRead
    <3>2. WasPrepared(run) = WasPrepared(sync[s])
      BY <2>11 DEF WasPrepared
    <3> QED BY <1>1, <1>4, <2>11, <3>1, <3>2 DEF Seeing
  <2>13. ASSUME alone[s]
         PROVE  Undisturbed(run)'
    <3>1. Undisturbed(sync[s])
      BY <1>1, <2>13 DEF Converging
    <3>2. \A q \in Syncing!Paths : Looked(run, q)'
      BY <1>1, <1>2, <2>11, <3>1 DEF Undisturbed, Looked, HasRead, Visible, Syncing!IsNote
    <3>3. Syncing!Notes' = Syncing!Notes
      BY <1>2 DEF Syncing!Notes, Syncing!IsNote
    <3>4. d = Syncing!Doc(p, vault[p]) /\ c = vault[p] /\ sync[s].hash[p] = vault[p]
      <4>1. p \in Syncing!Notes
        BY <1>1, <1>6, <2>13, HasAllNotes DEF HasRead
      <4> QED BY <1>1, <1>8, <1>9, <2>13, <4>1, HasAllNotes DEF HasRead
    <3>5. ASSUME NEW q \in Syncing!Notes, q \notin run.todo
          PROVE  Stored(q)' /\ (q \notin run.kept => Structured(q)')
      <4>1. CASE q = p
        BY <1>2, <2>1, <2>2, <2>3, <3>4, <4>1 DEF Stored, Structured, Syncing!Doc
      <4>2. CASE q # p
        <5>1. Stored(q) /\ (q \notin run.kept => Structured(q))
          BY <1>1, <2>11, <3>1, <3>5, <4>2 DEF Undisturbed
        <5>2. Syncing!Doc(q, vault[q]) # d
          BY <3>4, <4>2, DocsDiffer
        <5>3. Stored(q)'
          BY <1>2, <2>2, <5>1, <5>2 DEF Stored, Syncing!Doc
        <5>4. q \notin run.kept => Structured(q)'
          BY <1>2, <2>3, <5>1, <5>2 DEF Structured, Syncing!Doc
        <5> QED BY <5>3, <5>4
      <4> QED BY <4>1, <4>2
    <3>6. run.mode # "import"
      BY <1>1, <1>4, <2>11 DEF Seeing
    <3> QED BY <2>11, <3>2, <3>3, <3>5, <3>6 DEF Undisturbed
  <2>14. LeftWhole(run)'
    BY <2>11 DEF LeftWhole
  <2> QED BY <1>1, <1>2, <2>8, <2>10, <2>11, <2>12, <2>13, <2>14, ConvergingGoesOn
<1> QED BY <1>3, <1>7, <1>8, <1>9, <1>11 DEF Syncing!Upsert

LEMMA PruneConverges ==
    ASSUME GoesForward, SyncInvariant, Converging, NEW s \in Syncs, Syncing!Prune(s)
    PROVE  Converging'
<1>1. sync[s] \in SyncRuns /\ sync[s].at = "upsert" /\ sync[s].todo = {}
  BY WhoRuns DEF SyncInvariant, Syncing!Prune
<1>2. UNCHANGED <<vault, alone>>
  BY DEF Syncing!Prune
<1>3. Seeing(sync[s]) /\ Tables
  BY <1>1 DEF Converging
<1>4. PICK gone : gone = {d \in DOMAIN documents : documents[d].path \notin Syncing!Prepared(s)}
  OBVIOUS
<1>5. PICK lost : lost = {r \in DOMAIN vectors : vectors[r].doc \in gone}
  OBVIOUS
<1>6. /\ documents' = Syncing!Drop(documents, gone)
      /\ structural' = Syncing!Drop(structural, gone)
      /\ vectors' = Syncing!Drop(vectors, lost)
  BY <1>4, <1>5 DEF Syncing!Prune
<1>7. /\ DOMAIN documents' = DOMAIN documents \ gone
      /\ \A d \in DOMAIN documents' : documents'[d] = documents[d]
      /\ documents' = [d \in DOMAIN documents' |-> documents'[d]]
  BY <1>6 DEF Syncing!Drop
<1>8. /\ DOMAIN structural' = DOMAIN structural \ gone
      /\ \A d \in DOMAIN structural' : structural'[d] = structural[d]
      /\ structural' = [d \in DOMAIN structural' |-> structural'[d]]
  BY <1>6 DEF Syncing!Drop
<1>9. /\ DOMAIN vectors' = DOMAIN vectors \ lost
      /\ \A r \in DOMAIN vectors' : vectors'[r] = vectors[r]
      /\ vectors' = [r \in DOMAIN vectors' |-> vectors'[r]]
  BY <1>6 DEF Syncing!Drop
<1>10. Tables'
  <2>1. ASSUME NEW d \in DOMAIN documents'
        PROVE  RowOf(d, documents[d].path)'
    <3>1. documents'[d] = documents[d] /\ RowOf(d, documents[d].path)
      BY <1>3, <1>7, <2>1 DEF Tables
    <3> QED BY <1>2, <3>1 DEF RowOf, Earlier, Syncing!Doc
  <2>2. ASSUME NEW r \in DOMAIN vectors'
        PROVE  VectorOf(r)'
    <3>1. VectorOf(r) /\ vectors'[r] = vectors[r] /\ vectors[r].doc \notin gone
      BY <1>3, <1>5, <1>9, <2>2 DEF Tables
    <3> QED BY <1>7, <3>1 DEF VectorOf, Held
  <2>3. vault' = [q \in Syncing!Paths |-> vault'[q]] /\ \A q \in Syncing!Paths : vault'[q] \in Held(q)'
    BY <1>2, <1>3 DEF Tables, Held
  <2>4. DOMAIN structural' \subseteq DOMAIN documents'
    BY <1>3, <1>7, <1>8 DEF Tables
  <2>5. \A d, e \in DOMAIN documents' : documents'[d].path = documents'[e].path => d = e
    BY <1>3, <1>7 DEF Tables
  <2> QED BY <1>7, <1>8, <1>9, <2>1, <2>2, <2>3, <2>4, <2>5 DEF Tables
<1>11. PICK run : run = [sync[s] EXCEPT !.at = "restructure", !.todo = sync[s].kept]
  OBVIOUS
<1>12. sync' = [sync EXCEPT ![s] = run]
  BY <1>11 DEF Syncing!Prune, SyncInvariant
<1>13. /\ run \in SyncRuns /\ run.at = "restructure" /\ run.todo = sync[s].kept
       /\ run.hash = sync[s].hash /\ run.note = sync[s].note /\ run.mode = sync[s].mode
  BY <1>1, <1>11 DEF SyncRuns
<1>14. Seeing(run)
  <2>1. \A q \in Syncing!Paths : Saw(run, q)
    BY <1>1, <1>3, <1>13 DEF Seeing, Saw, HasRead
  <2>2. WasPrepared(run) = WasPrepared(sync[s])
    BY <1>13 DEF WasPrepared
  <2> QED BY <1>1, <1>3, <1>13, <2>1, <2>2 DEF Seeing
<1>15. ASSUME alone[s]
       PROVE  Undisturbed(run)'
  <2>1. Undisturbed(sync[s])
    BY <1>1, <1>15 DEF Converging
  <2>2. \A q \in Syncing!Paths : Looked(run, q)'
    BY <1>1, <1>2, <1>13, <2>1 DEF Undisturbed, Looked, HasRead, Visible, Syncing!IsNote
  <2>3. Syncing!Notes' = Syncing!Notes /\ Syncing!Prepared(s) = Syncing!Notes
    BY <1>1, <1>2, <1>15, HasAllNotes DEF Syncing!Notes, Syncing!IsNote, HasRead
  <2>4. ASSUME NEW q \in Syncing!Notes
        PROVE  Stored(q)' /\ (q \notin run.todo => Structured(q)')
    <3>1. Stored(q) /\ (q \notin run.todo => Structured(q))
      BY <1>1, <1>13, <2>1 DEF Undisturbed
    <3>2. PICK d \in DOMAIN documents : d = Syncing!Doc(q, vault[q]) /\ documents[d].path = q
      BY <3>1 DEF Stored
    <3>3. d \notin gone
      BY <1>4, <2>3, <3>2
    <3>4. Stored(q)'
      BY <1>2, <1>7, <3>1, <3>2, <3>3 DEF Stored, Syncing!Doc
    <3>5. q \notin run.todo => Structured(q)'
      BY <1>2, <1>8, <3>1, <3>2, <3>3 DEF Structured, Syncing!Doc
    <3> QED BY <3>4, <3>5
  <2>5. \A d \in DOMAIN documents' : documents'[d].path \in Syncing!Notes
    BY <1>4, <1>7, <2>3
  <2>6. run.mode # "import"
    BY <1>1, <1>3, <1>13 DEF Seeing
  <2> QED BY <1>13, <2>2, <2>3, <2>4, <2>5, <2>6 DEF Undisturbed
<1>16. LeftWhole(run)'
  BY <1>13 DEF LeftWhole
<1> QED BY <1>1, <1>2, <1>10, <1>12, <1>13, <1>14, <1>15, <1>16, ConvergingGoesOn

LEMMA RestructureConverges ==
    ASSUME GoesForward, SyncInvariant, Converging, NEW s \in Syncs, Syncing!Restructure(s)
    PROVE  Converging'
<1>1. sync[s] \in SyncRuns /\ sync[s].at = "restructure" /\ sync[s].todo # {}
  BY WhoRuns DEF SyncInvariant, Syncing!Restructure
<1>2. UNCHANGED <<vault, alone, documents, vectors>>
  BY DEF Syncing!Restructure
<1>3. Seeing(sync[s]) /\ Tables
  BY <1>1 DEF Converging
<1>4. CASE Syncing!End(s, "idle") /\ UNCHANGED structural
  BY <1>1, <1>2, <1>4, ConvergingStops
<1>5. WasPrepared(sync[s]) = Syncing!Prepared(s)
  BY DEF WasPrepared, Syncing!Prepared
<1>6. sync[s].todo \subseteq Syncing!Prepared(s) /\ sync[s].todo \in SUBSET Nat
  BY <1>1, <1>3, <1>5 DEF Seeing, Syncing!Prepared, Syncing!Paths, VaultAssumption,
    Syncing!SyncAssumption
<1>7. PICK p \in sync[s].todo : p = Syncing!Min(sync[s].todo)
  BY <1>1, <1>6, LeastElement
<1>8. PICK d : d = Syncing!DocOf(s, p)
  OBVIOUS
<1>9. CASE /\ d \in DOMAIN documents
           /\ structural' = Syncing!Put(structural, d, sync[s].note[p])
           /\ sync' = [sync EXCEPT ![s].todo = @ \ {p}]
  <2>1. /\ DOMAIN structural' = DOMAIN structural \cup {d} /\ structural'[d] = sync[s].note[p]
        /\ \A e \in DOMAIN structural : e # d => structural'[e] = structural[e]
        /\ structural' = [e \in DOMAIN structural' |-> structural'[e]]
    BY <1>9 DEF Syncing!Put
  <2>2. Tables'
    <3>1. \A e \in DOMAIN documents : RowOf(e, documents[e].path) => RowOf(e, documents[e].path)'
      BY <1>2 DEF RowOf, Earlier, Syncing!Doc
    <3>2. \A r : VectorOf(r) => VectorOf(r)'
      BY <1>2 DEF VectorOf, Held
    <3>3. \A q : Held(q)' = Held(q)
      BY DEF Held
    <3>4. DOMAIN structural' \subseteq DOMAIN documents'
      BY <1>2, <1>3, <1>9, <2>1 DEF Tables
    <3> QED BY <1>2, <1>3, <2>1, <3>1, <3>2, <3>3, <3>4 DEF Tables
  <2>3. PICK run : run = [sync[s] EXCEPT !.todo = sync[s].todo \ {p}]
    OBVIOUS
  <2>4. sync' = [sync EXCEPT ![s] = run]
    BY <1>9, <2>3 DEF SyncInvariant
  <2>5. /\ run \in SyncRuns /\ run.at = "restructure" /\ run.todo = sync[s].todo \ {p}
        /\ run.hash = sync[s].hash /\ run.note = sync[s].note /\ run.mode = sync[s].mode
    BY <1>1, <2>3 DEF SyncRuns
  <2>6. Seeing(run)
    <3>1. \A q \in Syncing!Paths : Saw(run, q)
      BY <1>1, <1>3, <2>5 DEF Seeing, Saw, HasRead
    <3>2. WasPrepared(run) = WasPrepared(sync[s])
      BY <2>5 DEF WasPrepared
    <3> QED BY <1>1, <1>3, <2>5, <3>1, <3>2 DEF Seeing
  <2>7. ASSUME alone[s]
        PROVE  Undisturbed(run)'
    <3>1. Undisturbed(sync[s])
      BY <1>1, <2>7 DEF Converging
    <3>2. \A q \in Syncing!Paths : Looked(run, q)'
      BY <1>1, <1>2, <2>5, <3>1 DEF Undisturbed, Looked, HasRead, Visible, Syncing!IsNote
    <3>3. Syncing!Notes' = Syncing!Notes
      BY <1>2 DEF Syncing!Notes, Syncing!IsNote
    <3>4. d = Syncing!Doc(p, vault[p]) /\ sync[s].note[p] = vault[p]
      <4>1. p \in Syncing!Notes
        BY <1>1, <1>6, <2>7, HasAllNotes DEF HasRead
      <4> QED BY <1>1, <1>8, <2>7, <4>1, HasAllNotes DEF HasRead
    <3>5. ASSUME NEW q \in Syncing!Notes
          PROVE  Stored(q)' /\ (q \notin run.todo => Structured(q)')
      <4>1. Stored(q)'
        BY <1>1, <1>2, <3>1 DEF Undisturbed, Stored, Syncing!Doc
      <4>2. CASE q = p
        <5>1. Structured(q)'
          BY <1>2, <2>1, <3>4, <4>2 DEF Structured, Syncing!Doc
        <5> QED BY <4>1, <5>1
      <4>3. CASE q # p
        <5>1. q \notin run.todo => Structured(q)
          BY <1>1, <2>5, <3>1, <4>3 DEF Undisturbed
        <5>2. Syncing!Doc(q, vault[q]) # d
          BY <3>4, <4>3, DocsDiffer
        <5>3. q \notin run.todo => Structured(q)'
          BY <1>2, <2>1, <5>1, <5>2 DEF Structured, Syncing!Doc
        <5> QED BY <4>1, <5>3
      <4> QED BY <4>2, <4>3
    <3>6. \A e \in DOMAIN documents' : documents'[e].path \in Syncing!Notes
      BY <1>1, <1>2, <3>1 DEF Undisturbed
    <3>7. run.mode # "import"
      BY <1>1, <1>3, <2>5 DEF Seeing
    <3> QED BY <2>5, <3>2, <3>3, <3>5, <3>6, <3>7 DEF Undisturbed
  <2>8. LeftWhole(run)'
    BY <2>5 DEF LeftWhole
  <2> QED BY <1>1, <1>2, <2>2, <2>4, <2>5, <2>6, <2>7, <2>8, ConvergingGoesOn
<1> QED BY <1>4, <1>7, <1>8, <1>9 DEF Syncing!Restructure

\* An undisturbed run that has nothing left to restructure has made the tables mirror
\* the notes.
LEMMA RestructuredMirrors ==
    ASSUME Converging, NEW s \in Syncs, alone[s], sync[s] \in SyncRuns,
           sync[s].at = "restructure", sync[s].todo = {}
    PROVE  Syncing!MirrorsNotes
<1>1. Undisturbed(sync[s]) /\ Tables
  BY DEF Converging
<1>2. /\ \A p \in Syncing!Notes : Stored(p) /\ Structured(p)
      /\ \A d \in DOMAIN documents : documents[d].path \in Syncing!Notes
  BY <1>1 DEF Undisturbed
<1>3. ASSUME NEW d \in DOMAIN documents
      PROVE  \E p \in Syncing!Notes :
                d = Syncing!Doc(p, vault[p]) /\ d[2] = p
                /\ documents[d] = [path |-> p, content |-> vault[p], hash |-> vault[p]]
  <2>1. PICK p \in Syncing!Notes : p = documents[d].path
    BY <1>2
  <2>2. PICK e : e = Syncing!Doc(p, vault[p])
    OBVIOUS
  <2>3. /\ e \in DOMAIN documents /\ documents[e].path = p
        /\ documents[e] = [path |-> p, content |-> vault[p], hash |-> vault[p]]
    BY <1>2, <2>2 DEF Stored
  <2>4. d = e
    BY <1>1, <2>1, <2>3 DEF Tables
  <2> QED BY <2>2, <2>3, <2>4 DEF Syncing!Doc
<1>4. DOMAIN documents = {Syncing!Doc(p, vault[p]) : p \in Syncing!Notes}
  BY <1>2, <1>3 DEF Stored
<1>5. documents = [d \in {Syncing!Doc(p, vault[p]) : p \in Syncing!Notes} |->
                      [path |-> d[2], content |-> vault[d[2]], hash |-> vault[d[2]]]]
  <2>1. \A d \in DOMAIN documents :
            documents[d] = [path |-> d[2], content |-> vault[d[2]], hash |-> vault[d[2]]]
    BY <1>3
  <2>2. documents = [d \in DOMAIN documents |-> documents[d]]
    BY <1>1 DEF Tables
  <2> QED BY <1>4, <2>1, <2>2
<1>6. structural = [d \in DOMAIN documents |-> documents[d].content]
  <2>1. ASSUME NEW d \in DOMAIN documents
        PROVE  d \in DOMAIN structural /\ structural[d] = documents[d].content
    BY <1>2, <1>3 DEF Structured
  <2>2. /\ structural = [d \in DOMAIN structural |-> structural[d]]
        /\ DOMAIN structural \subseteq DOMAIN documents
    BY <1>1 DEF Tables
  <2>3. DOMAIN structural = DOMAIN documents
    BY <2>1, <2>2
  <2> QED BY <2>1, <2>2, <2>3
<1> QED BY <1>5, <1>6 DEF Syncing!MirrorsNotes

\* With the notes mirrored, a vector of the text of a note's record is the note's.
LEMMA VectorsAreNotes ==
    ASSUME Tables, Syncing!MirrorsNotes,
           \A p \in Syncing!Notes : \A r \in DOMAIN Records[vault[p]] : Embedded(p, r)
    PROVE  Syncing!HasVectors
<1>1. SUFFICES ASSUME NEW p \in Syncing!Notes, NEW r \in DOMAIN Records[vault[p]]
               PROVE  /\ r \in DOMAIN vectors
                      /\ vectors[r] = [doc |-> Syncing!Doc(p, vault[p]),
                                       text |-> Records[vault[p]][r]]
  BY DEF Syncing!HasVectors
<1>2. r \in DOMAIN vectors /\ vectors[r].text = Records[vault[p]][r]
  BY DEF Embedded
<1>3. VectorOf(r)
  BY <1>2 DEF Tables
<1>4. p \in Syncing!Paths /\ vault[p] \in Held(p) \cap NoteContents
  BY DEF Tables, Syncing!Notes, Syncing!IsNote
<1>5. vectors[r].doc[2] = p
  BY <1>3, <1>4 DEF VectorOf
<1>6. vectors[r].doc \in {Syncing!Doc(q, vault[q]) : q \in Syncing!Notes}
  BY <1>3 DEF VectorOf, Syncing!MirrorsNotes
<1>7. PICK q \in Syncing!Notes : vectors[r].doc = Syncing!Doc(q, vault[q])
  BY <1>6
<1>8. Syncing!Doc(q, vault[q])[2] = q
  BY DEF Syncing!Doc
<1> QED BY <1>2, <1>3, <1>5, <1>7, <1>8 DEF VectorOf

\* The unit of a record is of a note that the run has read.
LEMMA UnitsAreOfNotes ==
    ASSUME NEW s \in Syncs, NEW r \in Syncing!UnitIds(s)
    PROVE  \E p \in Syncing!Prepared(s) :
              /\ r \in DOMAIN Records[sync[s].note[p]]
              /\ Syncing!Unit(s, r) = [doc |-> Syncing!DocOf(s, p),
                                       text |-> Records[sync[s].note[p]][r]]
<1> DEFINE Havers == {q \in DOMAIN Syncing!Units(s) : r \in Syncing!Units(s)[q]}
<1>1. DOMAIN Syncing!Units(s) = Syncing!Prepared(s)
  BY DEF Syncing!Units
<1>2. Havers \in SUBSET Nat
  BY <1>1, VaultAssumption DEF Syncing!Prepared, Syncing!Paths, VaultAssumption,
    Syncing!SyncAssumption
<1>3. Havers # {}
  BY DEF Syncing!UnitIds
<1>4. PICK p \in Havers : p = Syncing!Min(Havers)
  BY <1>2, <1>3, LeastElement
<1>5. p \in Syncing!Prepared(s) /\ r \in DOMAIN Records[sync[s].note[p]]
  BY <1>1, <1>4 DEF Syncing!Units
<1>6. Syncing!Unit(s, r) = [doc |-> Syncing!DocOf(s, p), text |-> Records[sync[s].note[p]][r]]
  BY <1>4 DEF Syncing!Unit
<1> QED BY <1>5, <1>6

LEMMA RecordsAreUnits ==
    ASSUME NEW s \in Syncs, NEW p \in Syncing!Prepared(s),
           NEW r \in DOMAIN Records[sync[s].note[p]]
    PROVE  r \in Syncing!UnitIds(s)
<1>1. p \in DOMAIN Syncing!Units(s) /\ r \in Syncing!Units(s)[p]
  BY DEF Syncing!Units
<1> QED BY <1>1 DEF Syncing!UnitIds

\* An undisturbed run's unit of a record is that of the note which has it.
LEMMA UnitsAreLive ==
    ASSUME GoesForward, Converging, NEW s \in Syncs, sync[s] \in SyncRuns,
           sync[s].at \in HasRead, alone[s], NEW p \in Syncing!Notes,
           NEW r \in DOMAIN Records[vault[p]]
    PROVE  /\ r \in Syncing!UnitIds(s)
           /\ Syncing!Unit(s, r) =
                [doc |-> Syncing!Doc(p, vault[p]), text |-> Records[vault[p]][r]]
<1>1. /\ p \in Syncing!Prepared(s) /\ p \in Syncing!Paths /\ sync[s].note[p] = vault[p]
      /\ vault[p] \in Held(p) \cap NoteContents
      /\ Syncing!DocOf(s, p) = Syncing!Doc(p, vault[p])
  BY HasAllNotes
<1>2. r \in Syncing!UnitIds(s)
  BY <1>1, RecordsAreUnits
<1>3. PICK q \in Syncing!Prepared(s) :
          /\ r \in DOMAIN Records[sync[s].note[q]]
          /\ Syncing!Unit(s, r) = [doc |-> Syncing!DocOf(s, q),
                                   text |-> Records[sync[s].note[q]][r]]
  BY <1>2, UnitsAreOfNotes
<1>4. q \in Syncing!Paths /\ sync[s].note[q] \in Held(q) \cap NoteContents
  BY HasNotes
<1>5. p = q
  BY <1>1, <1>3, <1>4, OneOwner
<1> QED BY <1>1, <1>2, <1>3, <1>5

LEMMA ScanConverges ==
    ASSUME GoesForward, SyncInvariant, Converging, NEW s \in Syncs, Syncing!Scan(s)
    PROVE  Converging'
<1>1. sync[s] \in SyncRuns /\ sync[s].at = "restructure" /\ sync[s].todo = {}
  BY WhoRuns DEF SyncInvariant, Syncing!Scan
<1>2. UNCHANGED <<vault, alone, documents, structural, vectors>>
  BY DEF Syncing!Scan
<1>3. Seeing(sync[s]) /\ Tables
  BY <1>1 DEF Converging
<1>4. alone[s] => Undisturbed(sync[s]) /\ Syncing!MirrorsNotes
  BY <1>1, RestructuredMirrors DEF Converging
<1> DEFINE stale == {r \in Syncing!UnitIds(s) : ~Syncing!Fresh(s, r)}
<1>5. ASSUME alone[s], NEW p \in Syncing!Notes, NEW r \in DOMAIN Records[vault[p]], r \notin stale
      PROVE  Embedded(p, r)
  <2>1. /\ r \in Syncing!UnitIds(s)
        /\ Syncing!Unit(s, r) = [doc |-> Syncing!Doc(p, vault[p]), text |-> Records[vault[p]][r]]
    BY <1>1, <1>5, UnitsAreLive DEF HasRead
  <2>2. Syncing!Fresh(s, r)
    BY <1>5, <2>1
  <2> QED BY <2>1, <2>2 DEF Syncing!Fresh, Embedded
<1>6. CASE sync' = [sync EXCEPT ![s].mode = "import", ![s].at = "walk"]
  <2>1. PICK run : run = [sync[s] EXCEPT !.mode = "import", !.at = "walk"]
    OBVIOUS
  <2>2. sync' = [sync EXCEPT ![s] = run]
    BY <1>6, <2>1 DEF SyncInvariant
  <2>3. /\ run \in SyncRuns /\ run.at = "walk" /\ run.mode = "import"
        /\ run.hash = sync[s].hash /\ run.note = sync[s].note
        /\ run.next = sync[s].next
    BY <1>1, <2>1 DEF SyncRuns, Modes
  <2>4. Seeing(run)
    BY <1>3, <2>3 DEF Seeing, Saw, HasRead
  <2>5. ASSUME alone[s]
        PROVE  Undisturbed(run)
    <3>1. \A p \in Syncing!Paths : Looked(run, p)
      BY <1>1, <1>4, <2>3, <2>5 DEF Undisturbed, Looked, HasRead
    <3> QED BY <1>4, <2>3, <2>5, <3>1 DEF Undisturbed
  <2>6. LeftWhole(run)
    BY <2>3 DEF LeftWhole
  <2> QED BY <1>1, <1>2, <2>2, <2>3, <2>4, <2>5, <2>6, ConvergingLooksOn
<1>7. CASE sync' = [sync EXCEPT ![s].at = "embed", ![s].todo = stale]
  <2>1. PICK run : run = [sync[s] EXCEPT !.at = "embed", !.todo = stale]
    OBVIOUS
  <2>2. sync' = [sync EXCEPT ![s] = run]
    BY <1>7, <2>1 DEF SyncInvariant
  <2>3. \A r \in stale : r \in RecordIds
    BY <1>1, RecordsRead, VaultAssumption
  <2>4. stale \in SUBSET (Syncing!Paths \cup RecordIds)
    BY <2>3
  <2>5. /\ run \in SyncRuns /\ run.at = "embed" /\ run.mode = sync[s].mode
        /\ run.hash = sync[s].hash /\ run.note = sync[s].note /\ run.todo = stale
    <3> HIDE DEF stale
    <3> QED BY <1>1, <2>1, <2>4 DEF SyncRuns
  <2>6. Seeing(run)
    BY <1>1, <1>3, <2>5 DEF Seeing, Saw, HasRead
  <2>7. ASSUME alone[s]
        PROVE  Undisturbed(run)
    <3>1. \A p \in Syncing!Paths : Looked(run, p)
      BY <1>1, <1>4, <2>5, <2>7 DEF Undisturbed, Looked, HasRead
    <3> HIDE DEF stale
    <3> QED BY <1>4, <1>5, <2>5, <2>7, <3>1 DEF Undisturbed
  <2>8. LeftWhole(run)
    BY <2>5 DEF LeftWhole
  <2> QED BY <1>1, <1>2, <2>2, <2>5, <2>6, <2>7, <2>8, ConvergingLooksOn
<1>8. CASE stale = {} /\ Syncing!End(s, "done")
  <2>1. Tables'
    BY <1>2, <1>3, TablesSame
  <2>2. ASSUME alone[s]
        PROVE  Syncing!MirrorsNotes /\ Syncing!HasVectors
    BY <1>3, <1>4, <1>5, <1>8, <2>2, VectorsAreNotes
  <2>3. alone[s] => Syncing!MirrorsNotes' /\ Syncing!HasVectors'
    <3>1. Syncing!MirrorsNotes => Syncing!MirrorsNotes'
      BY <1>2 DEF Syncing!MirrorsNotes, Syncing!Notes, Syncing!IsNote, Syncing!Doc
    <3>2. Syncing!HasVectors => Syncing!HasVectors'
      BY <1>2 DEF Syncing!HasVectors, Syncing!Notes, Syncing!IsNote, Syncing!Doc
    <3> QED BY <2>2, <3>1, <3>2
  <2> QED BY <1>1, <1>2, <1>8, <2>1, <2>3, ConvergingEnds
<1> QED BY <1>6, <1>7, <1>8 DEF Syncing!Scan

LEMMA EmbedConverges ==
    ASSUME GoesForward, SyncInvariant, Converging, NEW s \in Syncs, Syncing!Embed(s)
    PROVE  Converging'
<1>1. sync[s] \in SyncRuns /\ sync[s].at = "embed"
  BY WhoRuns DEF SyncInvariant, Syncing!Embed
<1>2. UNCHANGED <<vault, alone, documents, structural>>
  BY DEF Syncing!Embed
<1>3. Seeing(sync[s]) /\ Tables
  BY <1>1 DEF Converging
<1>4. CASE Syncing!End(s, "idle") /\ UNCHANGED vectors
  BY <1>1, <1>2, <1>4, ConvergingStops
<1>5. PICK todo : todo = sync[s].todo
  OBVIOUS
<1> DEFINE rows == [r \in todo |-> Syncing!Unit(s, r)]
<1>6. CASE /\ \A r \in DOMAIN rows : rows[r].doc \in DOMAIN documents
           /\ vectors' = [r \in DOMAIN vectors \cup DOMAIN rows |->
                              IF r \in DOMAIN rows THEN rows[r] ELSE vectors[r]]
           /\ Syncing!End(s, "done")
  <2>1. /\ DOMAIN vectors' = DOMAIN vectors \cup todo
        /\ \A r \in todo : vectors'[r] = Syncing!Unit(s, r)
        /\ \A r \in DOMAIN vectors \ todo : vectors'[r] = vectors[r]
        /\ \A r \in todo : Syncing!Unit(s, r).doc \in DOMAIN documents
        /\ vectors' = [r \in DOMAIN vectors' |-> vectors'[r]]
    BY <1>6
  <2> HIDE DEF rows
  <2>2. ASSUME NEW r \in todo
        PROVE  VectorOf(r)'
    <3>1. PICK q \in Syncing!Paths :
              sync[s].note[q] # Absent /\ r \in DOMAIN Records[sync[s].note[q]]
      BY <1>1, <1>5 DEF SyncInvariant, VectorsAreRead, HasRecord
    <3>2. r \in Syncing!UnitIds(s)
      BY <3>1, RecordsAreUnits DEF Syncing!Prepared
    <3>3. PICK p \in Syncing!Prepared(s) :
              /\ r \in DOMAIN Records[sync[s].note[p]]
              /\ Syncing!Unit(s, r) = [doc |-> Syncing!DocOf(s, p),
                                       text |-> Records[sync[s].note[p]][r]]
      BY <3>2, UnitsAreOfNotes
    <3>4. /\ p \in Syncing!Paths /\ sync[s].note[p] \in Held(p) \cap NoteContents
          /\ Syncing!DocOf(s, p) = Syncing!Doc(p, sync[s].hash[p])
      BY <1>1, HasNotes DEF HasRead
    <3>5. Syncing!DocOf(s, p)[2] = p
      BY <3>4 DEF Syncing!Doc
    <3>6. \A o \in Syncing!Paths : \A c \in Held(o) \cap NoteContents :
              r \in DOMAIN Records[c] => o = p
      BY <3>3, <3>4, OneOwner
    <3>7. \A o : Held(o)' = Held(o)
      BY DEF Held
    <3> QED BY <1>2, <2>1, <3>3, <3>5, <3>6, <3>7 DEF VectorOf
  <2>3. ASSUME NEW r \in DOMAIN vectors \ todo
        PROVE  VectorOf(r)'
    <3>1. VectorOf(r) /\ vectors'[r] = vectors[r]
      BY <1>3, <2>1 DEF Tables
    <3> QED BY <1>2, <3>1 DEF VectorOf, Held
  <2>4. Tables'
    <3>1. \A e \in DOMAIN documents : RowOf(e, documents[e].path) => RowOf(e, documents[e].path)'
      BY <1>2 DEF RowOf, Earlier, Syncing!Doc
    <3>2. \A q : Held(q)' = Held(q)
      BY DEF Held
    <3>3. \A r \in DOMAIN vectors' : VectorOf(r)'
      BY <2>1, <2>2, <2>3
    <3> QED BY <1>2, <1>3, <2>1, <3>1, <3>2, <3>3 DEF Tables
  <2>5. ASSUME alone[s]
        PROVE  Syncing!MirrorsNotes' /\ Syncing!HasVectors'
    <3>1. Undisturbed(sync[s])
      BY <1>1, <2>5 DEF Converging
    <3>2. Syncing!MirrorsNotes'
      BY <1>1, <1>2, <3>1 DEF Undisturbed, Syncing!MirrorsNotes, Syncing!Notes,
        Syncing!IsNote, Syncing!Doc
    <3>3. Syncing!Notes' = Syncing!Notes
      BY <1>2 DEF Syncing!Notes, Syncing!IsNote
    <3>4. ASSUME NEW p \in Syncing!Notes, NEW r \in DOMAIN Records[vault[p]]
          PROVE  Embedded(p, r)'
      <4>1. CASE r \in todo
        <5>1. Syncing!Unit(s, r).text = Records[vault[p]][r]
          BY <1>1, <2>5, UnitsAreLive DEF HasRead
        <5> QED BY <1>2, <2>1, <4>1, <5>1 DEF Embedded
      <4>2. CASE r \notin todo
        <5>1. Embedded(p, r)
          BY <1>1, <1>5, <3>1, <4>2 DEF Undisturbed
        <5> QED BY <1>2, <2>1, <4>2, <5>1 DEF Embedded
      <4> QED BY <4>1, <4>2
    <3>5. \A p \in Syncing!Notes : \A r \in DOMAIN Records[vault[p]] :
              /\ r \in DOMAIN vectors'
              /\ vectors'[r] = [doc |-> Syncing!Doc(p, vault[p]), text |-> Records[vault[p]][r]]
      <4> SUFFICES ASSUME NEW p \in Syncing!Notes, NEW r \in DOMAIN Records[vault[p]]
                   PROVE  /\ r \in DOMAIN vectors'
                          /\ vectors'[r] = [doc |-> Syncing!Doc(p, vault[p]),
                                            text |-> Records[vault[p]][r]]
        OBVIOUS
      <4>1. r \in DOMAIN vectors' /\ vectors'[r].text = Records[vault[p]][r]
        BY <1>2, <3>4 DEF Embedded
      <4>2. VectorOf(r)'
        BY <4>1, <2>4 DEF Tables
      <4>3. p \in Syncing!Paths /\ vault[p] \in Held(p) \cap NoteContents
        BY <1>3 DEF Tables, Syncing!Notes, Syncing!IsNote
      <4>4. /\ vectors'[r] = [doc |-> vectors'[r].doc, text |-> vectors'[r].text]
            /\ vectors'[r].doc \in DOMAIN documents /\ vectors'[r].doc[2] = p
        BY <1>2, <4>2, <4>3 DEF VectorOf, Held
      <4>5. PICK q \in Syncing!Notes : vectors'[r].doc = Syncing!Doc(q, vault[q])
        BY <1>1, <3>1, <4>4 DEF Undisturbed, Syncing!MirrorsNotes
      <4>6. Syncing!Doc(q, vault[q])[2] = q
        BY DEF Syncing!Doc
      <4> QED BY <4>1, <4>4, <4>5, <4>6
    <3>6. Syncing!HasVectors'
      BY <1>2, <3>3, <3>5 DEF Syncing!HasVectors, Syncing!Doc
    <3> QED BY <3>2, <3>6
  <2> QED BY <1>1, <1>2, <1>6, <2>4, <2>5, ConvergingEnds
<1> QED BY <1>4, <1>5, <1>6 DEF Syncing!Embed

LEMMA SelectConverges ==
    ASSUME SyncInvariant, Converging, NEW s \in Syncs, Syncing!Select(s)
    PROVE  Converging'
<1>1. sync[s] \in SyncRuns /\ sync[s].at = "compare" /\ sync[s].mode = "import"
  BY WhoRuns DEF SyncInvariant, Syncing!Select
<1>2. UNCHANGED <<vault, alone, documents, structural, vectors>>
  BY DEF Syncing!Select
<1>3. Seeing(sync[s])
  BY <1>1 DEF Converging
<1>4. PICK rows : rows = Syncing!Matching(s)
  OBVIOUS
<1>5. rows \subseteq Syncing!UnitIds(s) /\ rows \subseteq DOMAIN Sidecar
  BY <1>4 DEF Syncing!Matching
<1>6. rows \in SUBSET (Syncing!Paths \cup RecordIds)
  BY <1>1, <1>5, RecordsRead, VaultAssumption
<1>7. PICK run : run = [sync[s] EXCEPT !.at = "import", !.todo = rows]
  OBVIOUS
<1>8. sync' = [sync EXCEPT ![s] = run]
  BY <1>4, <1>7 DEF Syncing!Select, SyncInvariant
<1>9. /\ run \in SyncRuns /\ run.at = "import" /\ run.mode = "import"
      /\ run.hash = sync[s].hash /\ run.note = sync[s].note /\ run.todo = rows
  BY <1>1, <1>6, <1>7 DEF SyncRuns
<1>10. Seeing(run)
  BY <1>1, <1>3, <1>5, <1>9 DEF Seeing, Saw, HasRead
<1>11. ASSUME alone[s]
       PROVE  Undisturbed(run)
  <2>1. Undisturbed(sync[s])
    BY <1>1, <1>11 DEF Converging
  <2>2. \A p \in Syncing!Paths : Looked(run, p)
    BY <1>1, <1>9, <2>1 DEF Undisturbed, Looked, HasRead
  <2> QED BY <1>1, <1>9, <2>1, <2>2 DEF Undisturbed
<1>12. LeftWhole(run)
  BY <1>9 DEF LeftWhole
<1> QED BY <1>1, <1>2, <1>8, <1>9, <1>10, <1>11, <1>12, ConvergingLooksOn

LEMMA ImportConverges ==
    ASSUME GoesForward, SyncInvariant, Converging, NEW s \in Syncs, Syncing!Import(s)
    PROVE  Converging'
<1>1. sync[s] \in SyncRuns /\ sync[s].at = "import"
  BY WhoRuns DEF SyncInvariant, Syncing!Import
<1>2. UNCHANGED <<vault, alone, documents, structural>>
  BY DEF Syncing!Import
<1>3. Seeing(sync[s]) /\ Tables /\ sync[s].mode = "import"
  BY <1>1 DEF Converging, Seeing
<1>4. alone[s] => Undisturbed(sync[s]) /\ Syncing!MirrorsNotes
  BY <1>1, <1>3 DEF Converging, Undisturbed
<1>5. Syncing!MirrorsNotes => Syncing!MirrorsNotes'
  BY <1>2 DEF Syncing!MirrorsNotes, Syncing!Notes, Syncing!IsNote, Syncing!Doc
<1>6. CASE Syncing!End(s, "done") /\ UNCHANGED vectors
  <2>1. Tables'
    BY <1>2, <1>3, <1>6, TablesSame
  <2> QED BY <1>1, <1>2, <1>3, <1>4, <1>5, <1>6, <2>1, ConvergingEnds
<1>7. CASE Syncing!End(s, "idle") /\ UNCHANGED vectors
  BY <1>1, <1>2, <1>7, ConvergingStops
<1>8. ASSUME NEW r \in sync[s].todo, Sidecar[r].doc \in DOMAIN documents,
             vectors' = Syncing!Put(vectors, r, Sidecar[r]),
             sync' = [sync EXCEPT ![s].todo = @ \ {r}]
      PROVE  Converging'
  <2>1. /\ DOMAIN vectors' = DOMAIN vectors \cup {r} /\ vectors'[r] = Sidecar[r]
        /\ \A x \in DOMAIN vectors : x # r => vectors'[x] = vectors[x]
        /\ vectors' = [x \in DOMAIN vectors' |-> vectors'[x]]
    BY <1>8 DEF Syncing!Put
  <2>2. PICK run : run = [sync[s] EXCEPT !.todo = sync[s].todo \ {r}]
    OBVIOUS
  <2>3. sync' = [sync EXCEPT ![s] = run]
    BY <1>8, <2>2 DEF SyncInvariant
  <2>4. /\ run \in SyncRuns /\ run.at = "import" /\ run.mode = "import"
        /\ run.hash = sync[s].hash /\ run.note = sync[s].note
        /\ run.todo = sync[s].todo \ {r}
    BY <1>1, <1>3, <2>2 DEF SyncRuns
  <2>5. Seeing(run)
    BY <1>1, <1>3, <2>4 DEF Seeing, Saw, HasRead
  <2>6. VectorOf(r)'
    <3>1. r \in DOMAIN Sidecar
      BY <1>1, <1>8 DEF Converging, Seeing
    <3>2. \A p : Held(p)' = Held(p)
      BY DEF Held
    <3> QED BY <1>2, <1>8, <2>1, <3>1, <3>2, SidecarRows DEF VectorOf
  <2>7. Tables'
    <3>1. \A e \in DOMAIN documents : RowOf(e, documents[e].path) => RowOf(e, documents[e].path)'
      BY <1>2 DEF RowOf, Earlier, Syncing!Doc
    <3>2. \A q : Held(q)' = Held(q)
      BY DEF Held
    <3>3. ASSUME NEW x \in DOMAIN vectors'
          PROVE  VectorOf(x)'
      <4>1. CASE x = r
        BY <2>6, <4>1
      <4>2. CASE x # r
        <5>1. VectorOf(x) /\ vectors'[x] = vectors[x]
          BY <1>3, <2>1, <3>3, <4>2 DEF Tables
        <5> QED BY <1>2, <5>1 DEF VectorOf, Held
      <4> QED BY <4>1, <4>2
    <3> QED BY <1>2, <1>3, <2>1, <3>1, <3>2, <3>3 DEF Tables
  <2>8. ASSUME alone[s]
        PROVE  Undisturbed(run)'
    <3>1. \A p \in Syncing!Paths : Looked(run, p)'
      BY <1>1, <1>2, <1>4, <2>4, <2>8 DEF Undisturbed, Looked, HasRead, Visible,
        Syncing!IsNote
    <3> QED BY <1>4, <1>5, <2>4, <2>8, <3>1 DEF Undisturbed
  <2>9. LeftWhole(run)'
    BY <2>4 DEF LeftWhole
  <2> QED BY <1>1, <1>2, <2>3, <2>4, <2>5, <2>7, <2>8, <2>9, ConvergingGoesOn
<1> QED BY <1>6, <1>7, <1>8 DEF Syncing!Import

LEMMA ConvergingKept ==
    ASSUME GoesForward, SyncInvariant, Converging, Syncing!Next
    PROVE  Converging'
BY SaveConverges, BeginConverges, WalkConverges, ReadConverges, CompareConverges,
  UpsertConverges, PruneConverges, RestructureConverges, ScanConverges, EmbedConverges,
  SelectConverges, ImportConverges, CrashConverges DEF Syncing!Next

LEMMA ForwardEditing ==
    ASSUME NEW age, NEW held, Syncing!EditsGoForward(age, held)
    PROVE  GoesForward
<1>1. PICK e : e = [age |-> age, held |-> held]
  OBVIOUS
<1>2. Syncing!EditsGoForward(e.age, e.held)
  BY <1>1
<1> QED BY <1>2 DEF GoesForward, Editing

\* The inductive invariant of converging: rows are of contents that their file has held,
\* the hash the older; an undisturbed run has seen the files as they are and the notes
\* behind it are stored, structured and embedded.
THEOREM ConvergingIsKept ==
    ASSUME NEW age, NEW held, Syncing!EditsGoForward(age, held)
    PROVE  AnySpec => []Converging
<1>1. GoesForward
  BY ForwardEditing
<1>2. AnyInit => Converging
  BY <1>1, ConvergingStarts DEF AnyInit
<1>3. SyncInvariant /\ Converging /\ [AnyNext]_<<component, vars, syncVars, ingestVars>>
        => Converging'
  <2>1. ASSUME Converging, UNCHANGED syncVars
        PROVE  Converging'
    <3>1. UNCHANGED <<vault, documents, structural, vectors, sync, alone>>
      BY <2>1 DEF syncVars
    <3>2. Tables'
      BY <2>1, <3>1, TablesSame DEF Converging
    <3>3. ASSUME NEW s \in Syncs, sync'[s] \in SyncRuns
          PROVE  Seeing(sync[s])'
      <4>1. PICK run : run = sync[s]
        OBVIOUS
      <4>2. Seeing(run)'
        BY <2>1, <3>1, <3>3, <4>1, SawSame DEF Converging
      <4> QED BY <3>1, <4>1, <4>2
    <3>4. ASSUME NEW s \in Syncs, alone'[s], sync'[s] \in SyncRuns
          PROVE  Undisturbed(sync[s])'
      <4>1. PICK run : run = sync[s]
        OBVIOUS
      <4>2. Undisturbed(run)'
        BY <2>1, <3>1, <3>4, <4>1, UndisturbedSame DEF Converging
      <4> QED BY <3>1, <4>1, <4>2
    <3>5. UndisturbedSyncConverges'
      <4>1. Syncing!MirrorsNotes => Syncing!MirrorsNotes'
        BY <3>1 DEF Syncing!MirrorsNotes, Syncing!Notes, Syncing!IsNote, Syncing!Doc
      <4>2. Syncing!HasVectors => Syncing!HasVectors'
        BY <3>1 DEF Syncing!HasVectors, Syncing!Notes, Syncing!IsNote, Syncing!Doc
      <4>3. UndisturbedSyncConverges
        BY <2>1 DEF Converging
      <4> QED
        BY <3>1, <4>1, <4>2, <4>3 DEF UndisturbedSyncConverges,
          Syncing!UndisturbedSyncConverges
    <3> QED BY <3>1, <3>2, <3>3, <3>4, <3>5 DEF Converging
  <2> QED BY <1>1, <2>1, ConvergingKept DEF AnyNext
<1> QED BY <1>2, <1>3, SyncRunInvariant, PTL DEF AnySpec

\* A sync that nobody disturbs ends with the documents of the notes and, unless it was a
\* metadata-only one, with their vectors, whatever syncs died or overlapped before it
\* (sync_vault of sync/indexer.py), provided that the edits go forward.
THEOREM SyncsConverge ==
    ASSUME NEW age, NEW held, Syncing!EditsGoForward(age, held)
    PROVE  AnySpec => []UndisturbedSyncConverges
<1>1. Converging => UndisturbedSyncConverges
  BY DEF Converging
<1>2. AnySpec => []Converging
  BY ConvergingIsKept
<1> QED BY <1>1, <1>2, PTL
-----------------------------------------------------------------------------
(* Ingest runs: the invariant.                                               *)

Outcomes == {"none", "unreadable", "budget", "completed", "failed"}
Plans == [failFast : BOOLEAN, of : [Ingest!Units -> Ingest!Texts]]

Extracting == {"open", "extract", "skip", "write", "complete", "fail"}
Routing == {"route", "rewrite"}
Closing == {"propose", "reconcile", "finish"}
Processes ==
    [at : {"plan"} \cup Extracting \cup Routing \cup Closing, cap : Caps, spent : Nat,
     todo : SUBSET Ingest!Units, text : Ingest!Texts, retried : BOOLEAN,
     written : SUBSET Ingest!Units, tally : SUBSET Ingest!Units, exhausted : BOOLEAN,
     failed : BOOLEAN]

IngestTyped ==
    /\ raw \in [Ingest!Units -> Ingest!Texts]
    /\ log \in [Ingest!Units -> Outcomes]
    /\ notes \in [Ingest!Units -> Ingest!SourceNotes \cup {None}]
    /\ plan \in Plans \cup {None}
    /\ process \in Processes \cup {Ingest!Dead}
    /\ stub \in BOOLEAN

\* A run at work or finished has a plan.
PlanKept ==
    /\ process.at \notin {"dead", "plan"} \/ finished # "no" => plan \in Plans
    /\ process # Ingest!Dead => finished = "no"
    /\ process.at = "plan" => process.written = {}

\* A note of the unit, of the version that it was planned with.
HasNote(u) == notes[u] \in Ingest!SourceNotes /\ notes[u].planned = plan.of[u]

LogIsTrue ==
    plan \in Plans => \A u \in Ingest!Units :
        /\ log[u] = "completed" /\ u \in Ingest!Planned => HasNote(u)
        /\ log[u] = "unreadable" => u \notin Ingest!Planned

Settled(u) == log[u] \in {"completed", "failed"}

\* What is written is what the log has as completed; what is left to do is not settled,
\* and all else is, unless the budget or a failure has ended the extraction.
WorkIsWhole ==
    process.at \in Extracting \cup Routing \cup Closing =>
        /\ process.written = Ingest!Completed
        /\ \A u \in Ingest!Planned :
            \/ Settled(u) \/ process.exhausted \/ plan.failFast
            \/ process.at \in Extracting /\ u \in process.todo

TodoIsOpen ==
    /\ process.at \in Extracting =>
        \A u \in process.todo : u \in Ingest!Planned /\ log[u] \in {"none", "budget"}
    /\ process.at \in Routing \cup {"reconcile"} => process.todo \subseteq process.written
    /\ process.at \in (Extracting \ {"open"}) \cup {"rewrite"} => process.todo # {}
    /\ process.at = "complete" => HasNote(Ingest!Unit)

RoutesAreWhole ==
    /\ process.at \in Routing =>
        \A u \in process.written \ process.todo : notes[u].routed
    /\ process.at \in Closing => \A u \in process.written : notes[u].routed
    /\ process.at = "finish" => indexed = [notes |-> notes, stub |-> stub]

FinishedIsWhole ==
    finished # "no" =>
        /\ indexed = [notes |-> notes, stub |-> stub]
        /\ \A u \in Ingest!Planned :
            \/ finished = "budget"
            \/ /\ log[u] = "completed" => notes[u].routed
               /\ ~plan.failFast => Settled(u)

IngestInvariant ==
    /\ IngestTyped /\ PlanKept /\ LogIsTrue /\ WorkIsWhole /\ TodoIsOpen /\ RoutesAreWhole
    /\ FinishedIsWhole

LEMMA UnitInHand ==
    ASSUME VaultAssumption, process \in Processes, process.todo # {}
    PROVE  Ingest!Unit \in process.todo /\ Ingest!Unit \in Ingest!Units
<1>1. process.todo \subseteq Ingest!Units
  BY DEF Processes
<1>2. process.todo \in SUBSET Nat
  BY <1>1 DEF VaultAssumption, Ingest!IngestAssumption, Ingest!Units
<1> QED BY <1>1, <1>2, LeastElement DEF Ingest!Unit

LEMMA Working ==
    ASSUME IngestInvariant, process.at # "dead"
    PROVE  /\ process \in Processes /\ process # Ingest!Dead /\ finished = "no"
           /\ process.at # "plan" => plan \in Plans
<1>1. process # Ingest!Dead
  BY DEF Ingest!Dead
<1> QED BY <1>1 DEF IngestInvariant, IngestTyped, PlanKept

LEMMA EveryProcess ==
    ASSUME NEW p \in Processes
    PROVE  p.at # "dead" /\ p # Ingest!Dead
<1>1. p.at # "dead"
  BY DEF Processes, Extracting, Routing, Closing
<1> QED BY <1>1 DEF Ingest!Dead

LEMMA IngestStarts ==
    ASSUME VaultAssumption, Ingest!Init
    PROVE  IngestInvariant
<1>1. process.at = "dead" /\ finished = "no" /\ log = [u \in Ingest!Units |-> "none"]
  BY DEF Ingest!Init, Ingest!Dead
<1>2. IngestTyped
  BY <1>1 DEF Ingest!Init, IngestTyped, Outcomes, Ingest!Texts
<1> QED
  BY <1>1, <1>2 DEF Ingest!Init, IngestInvariant, PlanKept, LogIsTrue, WorkIsWhole,
    TodoIsOpen, RoutesAreWhole, FinishedIsWhole, Extracting, Routing, Closing

\* What does not touch the run keeps it.
LEMMA SourceChanges ==
    ASSUME IngestInvariant, NEW u \in Ingest!Units, Ingest!ChangeSource(u)
    PROVE  IngestInvariant'
<1>1. UNCHANGED <<plan, log, finished, notes, stub, items, indexed, process>>
  BY DEF Ingest!ChangeSource
<1>2. raw' \in [Ingest!Units -> Ingest!Texts]
  BY DEF Ingest!ChangeSource, IngestInvariant, IngestTyped, Ingest!Texts
<1> QED
  BY <1>1, <1>2 DEF IngestInvariant, IngestTyped, PlanKept, LogIsTrue, WorkIsWhole,
    TodoIsOpen, RoutesAreWhole, FinishedIsWhole, Settled, HasNote, Ingest!Planned,
    Ingest!Completed, Ingest!Unit

LEMMA CrashStep ==
    ASSUME IngestInvariant, Ingest!Crash
    PROVE  IngestInvariant'
<1>1. process'.at = "dead" /\ process' = Ingest!Dead /\ finished' = "no"
  BY DEF Ingest!Crash, Ingest!Dead, IngestInvariant, PlanKept
<1> QED
  BY <1>1 DEF Ingest!Crash, IngestInvariant, IngestTyped, PlanKept, LogIsTrue,
    WorkIsWhole, TodoIsOpen, RoutesAreWhole, FinishedIsWhole, Extracting, Routing,
    Closing, HasNote, Ingest!Planned

LEMMA BeginStep ==
    ASSUME IngestInvariant, NEW cap \in Caps, Ingest!Begin(cap)
    PROVE  IngestInvariant'
<1>1. /\ process' \in Processes /\ process'.at = "plan" /\ process'.written = {}
  BY DEF Ingest!Begin, Ingest!Live, Processes, Ingest!Texts
<1>2. /\ log' = [u \in Ingest!Units |-> "none"] /\ plan' = None /\ finished' = "no"
      /\ UNCHANGED <<raw, notes, stub, indexed>>
  BY DEF Ingest!Begin
<1>3. IngestTyped'
  BY <1>1, <1>2 DEF IngestInvariant, IngestTyped, Outcomes
<1>4. LogIsTrue'
  BY <1>2 DEF LogIsTrue
<1> QED
  BY <1>1, <1>2, <1>3, <1>4 DEF IngestInvariant, PlanKept, WorkIsWhole, TodoIsOpen,
    RoutesAreWhole, FinishedIsWhole, Extracting, Routing, Closing

LEMMA FreezePlanStep ==
    ASSUME VaultAssumption, IngestInvariant, Ingest!FreezePlan
    PROVE  IngestInvariant'
<1>1. process \in Processes /\ finished = "no" /\ process.at = "plan"
  BY Working DEF Ingest!FreezePlan
<1>2. plan' \in Plans
  <2>1. PICK failFast \in BOOLEAN :
            plan' = [failFast |-> failFast,
                     of |-> [u \in Ingest!Units |->
                                IF raw[u] \in Ingest!Ingested THEN None ELSE raw[u]]]
    BY DEF Ingest!FreezePlan
  <2> QED BY <2>1 DEF Plans, IngestInvariant, IngestTyped, Ingest!Texts
<1>3. /\ process' \in Processes /\ process'.at = "open" /\ process'.written = {}
      /\ process'.todo = {u \in Ingest!Units : plan'.of[u] # None}
  BY <1>1 DEF Ingest!FreezePlan, Processes, Extracting, IngestInvariant, PlanKept
<1>4. log' = [u \in Ingest!Units |-> IF raw[u] = None THEN "unreadable" ELSE "none"]
  BY DEF Ingest!FreezePlan
<1>5. \A u \in Ingest!Units : raw[u] = None => plan'.of[u] = None
  BY DEF Ingest!FreezePlan
<1>6. IngestTyped'
  BY <1>2, <1>3, <1>4 DEF IngestInvariant, IngestTyped, Outcomes, Ingest!FreezePlan
<1>7. LogIsTrue'
  BY <1>4, <1>5 DEF LogIsTrue, Ingest!Planned
<1>8. Ingest!Planned' = process'.todo /\ Ingest!Completed' = {}
  BY <1>3, <1>4 DEF Ingest!Planned, Ingest!Completed
<1>9. WorkIsWhole'
  BY <1>3, <1>8 DEF WorkIsWhole, Extracting
<1>10. TodoIsOpen'
  <2>1. \A u \in process'.todo : u \in Ingest!Planned' /\ log'[u] \in {"none", "budget"}
    BY <1>3, <1>4, <1>5, <1>8
  <2> QED BY <1>3, <2>1 DEF TodoIsOpen, Extracting, Routing
<1>11. PlanKept' /\ FinishedIsWhole'
  BY <1>1, <1>2, <1>3 DEF Ingest!FreezePlan, PlanKept, FinishedIsWhole
<1>12. RoutesAreWhole'
  BY <1>3 DEF RoutesAreWhole, Routing, Closing
<1> QED BY <1>6, <1>7, <1>9, <1>10, <1>11, <1>12 DEF IngestInvariant

LEMMA ResumeStep ==
    ASSUME VaultAssumption, IngestInvariant, NEW cap \in Caps, Ingest!Resume(cap)
    PROVE  IngestInvariant'
<1>1. plan \in Plans /\ UNCHANGED <<raw, plan, log, notes, stub, indexed>> /\ finished' = "no"
  BY DEF Ingest!Resume, IngestInvariant, IngestTyped
<1>2. Ingest!Pending \subseteq Ingest!Units /\ Ingest!Completed \subseteq Ingest!Units
  BY DEF Ingest!Pending, Ingest!Completed, Ingest!Planned
<1>3. /\ process' \in Processes /\ process'.at = "open" /\ process'.todo = Ingest!Pending
      /\ process'.written = Ingest!Completed
  BY <1>2 DEF Ingest!Resume, Ingest!Live, Processes, Ingest!Texts, Extracting
<1>4. IngestTyped' /\ PlanKept' /\ FinishedIsWhole'
  BY <1>1, <1>3 DEF IngestInvariant, IngestTyped, PlanKept, FinishedIsWhole
<1>5. LogIsTrue'
  BY <1>1 DEF IngestInvariant, LogIsTrue, HasNote, Ingest!Planned
<1>6. \A u \in Ingest!Planned : u \in Ingest!Pending \/ Settled(u)
  BY <1>1 DEF IngestInvariant, IngestTyped, LogIsTrue, Outcomes, Settled,
    Ingest!Pending, Ingest!Planned
<1>7. Ingest!Planned' = Ingest!Planned /\ Ingest!Completed' = Ingest!Completed
  BY <1>1 DEF Ingest!Planned, Ingest!Completed
<1>8. WorkIsWhole'
  BY <1>1, <1>3, <1>6, <1>7 DEF WorkIsWhole, Settled, Extracting
<1>9. TodoIsOpen'
  BY <1>1, <1>3, <1>7 DEF TodoIsOpen, Extracting, Routing, Ingest!Pending
<1>10. RoutesAreWhole'
  BY <1>3 DEF RoutesAreWhole, Routing, Closing
<1> QED BY <1>4, <1>5, <1>8, <1>9, <1>10 DEF IngestInvariant

\* A step that only moves the process on.
LEMMA MovesOn ==
    ASSUME IngestInvariant, process.at # "dead", process.at # "plan", process' \in Processes,
           process'.at # "plan", UNCHANGED <<raw, plan, log, finished, notes, stub, indexed>>
    PROVE  /\ IngestTyped' /\ PlanKept' /\ LogIsTrue' /\ FinishedIsWhole'
           /\ Ingest!Planned' = Ingest!Planned /\ Ingest!Completed' = Ingest!Completed
           /\ \A u \in Ingest!Units : HasNote(u)' = HasNote(u) /\ Settled(u)' = Settled(u)
<1>1. finished = "no" /\ plan \in Plans
  BY Working
<1>2. IngestTyped' /\ PlanKept' /\ FinishedIsWhole'
  BY <1>1 DEF IngestInvariant, IngestTyped, PlanKept, FinishedIsWhole
<1>3. LogIsTrue'
  BY DEF IngestInvariant, LogIsTrue, HasNote, Ingest!Planned
<1> QED BY <1>2, <1>3 DEF Ingest!Planned, Ingest!Completed, HasNote, Settled

LEMMA OpenStep ==
    ASSUME VaultAssumption, IngestInvariant, Ingest!Open
    PROVE  IngestInvariant'
<1>1. process \in Processes /\ process.at = "open" /\ process.todo # {}
  BY Working DEF Ingest!Open
<1>2. Ingest!Unit \in Ingest!Units
  BY <1>1, UnitInHand
<1>3. raw[Ingest!Unit] \in Ingest!Texts
  BY <1>2 DEF IngestInvariant, IngestTyped
<1>4. PICK at \in {"fail", "extract"} :
        process' = [process EXCEPT !.at = at, !.text = raw[Ingest!Unit], !.retried = FALSE]
  BY DEF Ingest!Open
<1>5. /\ process' \in Processes /\ process'.at = at /\ process'.todo = process.todo
      /\ process'.written = process.written /\ process'.exhausted = process.exhausted
  BY <1>1, <1>3, <1>4 DEF Processes, Extracting
<1>6. UNCHANGED <<raw, plan, log, finished, notes, stub, indexed>>
  BY DEF Ingest!Open
<1>7. /\ IngestTyped' /\ PlanKept' /\ LogIsTrue' /\ FinishedIsWhole'
      /\ Ingest!Planned' = Ingest!Planned /\ Ingest!Completed' = Ingest!Completed
      /\ \A u \in Ingest!Units : HasNote(u)' = HasNote(u) /\ Settled(u)' = Settled(u)
  BY <1>1, <1>5, <1>6, MovesOn
<1>8. WorkIsWhole' /\ TodoIsOpen' /\ RoutesAreWhole'
  BY <1>1, <1>5, <1>6, <1>7 DEF IngestInvariant, WorkIsWhole, TodoIsOpen,
    RoutesAreWhole, Extracting, Routing, Closing, Ingest!Planned
<1> QED BY <1>7, <1>8 DEF IngestInvariant

LEMMA ExtractStep ==
    ASSUME IngestInvariant, Ingest!Extract
    PROVE  IngestInvariant'
<1>1. process \in Processes /\ process.at = "extract"
  BY Working DEF Ingest!Extract
<1>2. /\ process' \in Processes /\ process'.at \in {"write", "fail", "extract", "skip"}
      /\ process'.todo = process.todo /\ process'.written = process.written
      /\ process'.exhausted = process.exhausted
  <2>1. CASE Ingest!Affordable
    <3>1. PICK at \in {"write", "fail", "extract"} :
            process' = [process EXCEPT !.at = at, !.spent = @ + 1, !.retried = TRUE]
      BY <2>1 DEF Ingest!Extract
    <3>2. PICK spent \in Nat : spent = process.spent + 1
      BY <1>1 DEF Processes
    <3>3. process' = [process EXCEPT !.at = at, !.spent = spent, !.retried = TRUE]
      BY <3>1, <3>2
    <3> QED BY <1>1, <3>3 DEF Processes, Extracting
  <2>2. CASE ~Ingest!Affordable
    BY <1>1, <2>2 DEF Ingest!Extract, Ingest!Goto, Processes, Extracting
  <2> QED BY <2>1, <2>2
<1>3. UNCHANGED <<raw, plan, log, finished, notes, stub, indexed>>
  BY DEF Ingest!Extract
<1>4. /\ IngestTyped' /\ PlanKept' /\ LogIsTrue' /\ FinishedIsWhole'
      /\ Ingest!Planned' = Ingest!Planned /\ Ingest!Completed' = Ingest!Completed
      /\ \A u \in Ingest!Units : HasNote(u)' = HasNote(u) /\ Settled(u)' = Settled(u)
  BY <1>1, <1>2, <1>3, MovesOn
<1>5. WorkIsWhole' /\ TodoIsOpen' /\ RoutesAreWhole'
  BY <1>1, <1>2, <1>3, <1>4 DEF IngestInvariant, WorkIsWhole, TodoIsOpen,
    RoutesAreWhole, Extracting, Routing, Closing, Ingest!Planned
<1> QED BY <1>4, <1>5 DEF IngestInvariant

\* A step that settles the unit in hand, or gives it up, and keeps the notes.
LEMMA SkipRestStep ==
    ASSUME VaultAssumption, IngestInvariant, Ingest!SkipRest
    PROVE  IngestInvariant'
<1>1. process \in Processes /\ process.at = "skip" /\ plan \in Plans /\ finished = "no"
  BY Working DEF Ingest!SkipRest
<1>2. PICK u \in Ingest!Units : u = Ingest!Unit /\ u \in process.todo
  BY <1>1, UnitInHand DEF Ingest!SkipRest
<1>3. log' = [log EXCEPT ![u] = "budget"]
  BY <1>2 DEF Ingest!SkipRest
<1>4. /\ process' \in Processes /\ process'.todo = process.todo \ {u} /\ process'.exhausted
      /\ process'.at = (IF process'.todo = {} THEN "open" ELSE "skip")
      /\ process'.written = process.written
  <2>1. process' = [process EXCEPT !.todo = @ \ {u}, !.exhausted = TRUE,
                        !.at = IF process.todo = {u} THEN "open" ELSE "skip"]
    BY <1>2 DEF Ingest!SkipRest
  <2>2. process.todo = {u} <=> process.todo \ {u} = {}
    BY <1>2
  <2> HIDE DEF Processes
  <2>3. /\ process'.todo = process.todo \ {u} /\ process'.exhausted
        /\ process'.at = (IF process.todo = {u} THEN "open" ELSE "skip")
        /\ process'.written = process.written
    BY <1>1, <2>1 DEF Processes
  <2>4. process' \in Processes
    BY <1>1, <2>1 DEF Processes, Extracting
  <2> QED BY <2>2, <2>3, <2>4
<1>5. UNCHANGED <<raw, plan, finished, notes, stub, indexed>>
  BY DEF Ingest!SkipRest
<1>6. u \in Ingest!Planned /\ log[u] # "completed"
  BY <1>1, <1>2 DEF IngestInvariant, TodoIsOpen, Extracting
<1>7. Ingest!Planned' = Ingest!Planned /\ Ingest!Completed' = Ingest!Completed
  BY <1>3, <1>5, <1>6 DEF Ingest!Planned, Ingest!Completed, IngestInvariant, IngestTyped
<1>8. IngestTyped' /\ PlanKept' /\ FinishedIsWhole'
  BY <1>1, <1>3, <1>4, <1>5 DEF IngestInvariant, IngestTyped, PlanKept, FinishedIsWhole,
    Outcomes
<1>9. LogIsTrue'
  BY <1>3, <1>5 DEF IngestInvariant, IngestTyped, LogIsTrue, HasNote, Ingest!Planned
<1>10. WorkIsWhole'
  BY <1>1, <1>4, <1>7 DEF IngestInvariant, WorkIsWhole, Extracting
<1>11. TodoIsOpen'
  BY <1>1, <1>3, <1>4, <1>7 DEF IngestInvariant, IngestTyped, TodoIsOpen, Extracting,
    Routing, Ingest!Planned
<1>12. RoutesAreWhole'
  BY <1>4 DEF RoutesAreWhole, Routing, Closing
<1> QED BY <1>8, <1>9, <1>10, <1>11, <1>12 DEF IngestInvariant

LEMMA WriteNoteStep ==
    ASSUME VaultAssumption, IngestInvariant, Ingest!WriteNote
    PROVE  IngestInvariant'
<1>1. process \in Processes /\ process.at = "write" /\ plan \in Plans /\ finished = "no"
  BY Working DEF Ingest!WriteNote
<1>2. process.todo # {}
  BY <1>1 DEF IngestInvariant, TodoIsOpen, Extracting
<1>3. PICK u \in Ingest!Units : u = Ingest!Unit /\ u \in process.todo
  BY <1>1, <1>2, UnitInHand
<1>4. u \in Ingest!Planned /\ plan.of[u] \in Versions
  BY <1>1, <1>3 DEF IngestInvariant, TodoIsOpen, Extracting, Ingest!Planned, Plans,
    Ingest!Texts
<1>5. PICK valid \in BOOLEAN :
        /\ notes' = IF valid
                    THEN [notes EXCEPT ![u] =
                            [planned |-> plan.of[u], text |-> process.text,
                             affects |-> u \in Bearing, routed |-> FALSE]]
                    ELSE notes
        /\ process' = [process EXCEPT !.at = IF valid THEN "complete" ELSE "fail"]
  BY <1>3 DEF Ingest!WriteNote, Ingest!Published, Ingest!Goto
<1>6. /\ process' \in Processes /\ process'.at = (IF valid THEN "complete" ELSE "fail")
      /\ process'.todo = process.todo /\ process'.written = process.written
      /\ process'.exhausted = process.exhausted
  BY <1>1, <1>5 DEF Processes, Extracting
<1>7. UNCHANGED <<raw, plan, log, finished, stub, indexed>>
  BY DEF Ingest!WriteNote
<1>8. /\ notes' \in [Ingest!Units -> Ingest!SourceNotes \cup {None}]
      /\ \A v \in Ingest!Units : HasNote(v) => HasNote(v)'
      /\ valid => HasNote(u)'
  <2>1. CASE ~valid
    BY <1>5, <1>7, <2>1 DEF HasNote, IngestInvariant, IngestTyped
  <2>2. CASE valid
    <3> DEFINE note == [planned |-> plan.of[u], text |-> process.text,
                        affects |-> u \in Bearing, routed |-> FALSE]
    <3>1. note \in Ingest!SourceNotes /\ note.planned = plan.of[u]
      BY <1>1, <1>4 DEF Ingest!SourceNotes, Processes
    <3>2. notes' = [notes EXCEPT ![u] = note]
      BY <1>5, <2>2
    <3> HIDE DEF note
    <3> QED BY <1>7, <3>1, <3>2 DEF HasNote, IngestInvariant, IngestTyped
  <2> QED BY <2>1, <2>2
<1>9. IngestTyped' /\ PlanKept' /\ FinishedIsWhole'
  BY <1>1, <1>6, <1>7, <1>8 DEF IngestInvariant, IngestTyped, PlanKept, FinishedIsWhole
<1>10. LogIsTrue'
  BY <1>7, <1>8 DEF IngestInvariant, LogIsTrue, Ingest!Planned
<1>11. Ingest!Planned' = Ingest!Planned /\ Ingest!Completed' = Ingest!Completed
  BY <1>7 DEF Ingest!Planned, Ingest!Completed
<1>12. WorkIsWhole'
  BY <1>1, <1>6, <1>7, <1>11 DEF IngestInvariant, WorkIsWhole, Extracting, Settled
<1>13. TodoIsOpen'
  <2>1. Ingest!Unit' = u
    BY <1>3, <1>6 DEF Ingest!Unit
  <2> QED
    BY <1>1, <1>2, <1>6, <1>7, <1>8, <1>11, <2>1 DEF IngestInvariant, TodoIsOpen,
      Extracting, Routing
<1>14. RoutesAreWhole'
  BY <1>6 DEF RoutesAreWhole, Routing, Closing
<1> QED BY <1>9, <1>10, <1>12, <1>13, <1>14 DEF IngestInvariant

LEMMA CompleteStep ==
    ASSUME VaultAssumption, IngestInvariant, Ingest!Complete
    PROVE  IngestInvariant'
<1>1. process \in Processes /\ process.at = "complete" /\ plan \in Plans /\ finished = "no"
  BY Working DEF Ingest!Complete
<1>2. process.todo # {} /\ HasNote(Ingest!Unit)
  BY <1>1 DEF IngestInvariant, TodoIsOpen, Extracting
<1>3. PICK u \in Ingest!Units : u = Ingest!Unit /\ u \in process.todo /\ HasNote(u)
  BY <1>1, <1>2, UnitInHand
<1>4. log' = [log EXCEPT ![u] = "completed"]
  BY <1>3 DEF Ingest!Complete
<1>5. /\ process' \in Processes /\ process'.at = "open" /\ process'.todo = process.todo \ {u}
      /\ process'.written = process.written \cup {u} /\ process'.exhausted = process.exhausted
  BY <1>1, <1>3 DEF Ingest!Complete, Processes, Extracting
<1>6. UNCHANGED <<raw, plan, finished, notes, stub, indexed>>
  BY DEF Ingest!Complete
<1>7. u \in Ingest!Planned
  BY <1>1, <1>3 DEF IngestInvariant, TodoIsOpen, Extracting
<1>8. Ingest!Planned' = Ingest!Planned /\ Ingest!Completed' = Ingest!Completed \cup {u}
  BY <1>4, <1>6, <1>7 DEF Ingest!Planned, Ingest!Completed, IngestInvariant, IngestTyped
<1>9. IngestTyped' /\ PlanKept' /\ FinishedIsWhole'
  BY <1>1, <1>4, <1>5, <1>6 DEF IngestInvariant, IngestTyped, PlanKept, FinishedIsWhole,
    Outcomes
<1>10. LogIsTrue'
  BY <1>3, <1>4, <1>6 DEF IngestInvariant, IngestTyped, LogIsTrue, HasNote, Ingest!Planned
<1>11. WorkIsWhole'
  BY <1>1, <1>4, <1>5, <1>6, <1>8 DEF IngestInvariant, IngestTyped, WorkIsWhole,
    Extracting, Settled, Ingest!Planned
<1>12. TodoIsOpen'
  BY <1>1, <1>4, <1>5, <1>8 DEF IngestInvariant, IngestTyped, TodoIsOpen, Extracting,
    Routing, Ingest!Planned
<1>13. RoutesAreWhole'
  BY <1>5 DEF RoutesAreWhole, Routing, Closing
<1> QED BY <1>9, <1>10, <1>11, <1>12, <1>13 DEF IngestInvariant

LEMMA FailStep ==
    ASSUME VaultAssumption, IngestInvariant, Ingest!Fail
    PROVE  IngestInvariant'
<1>1. process \in Processes /\ process.at = "fail" /\ plan \in Plans /\ finished = "no"
  BY Working DEF Ingest!Fail
<1>2. process.todo # {}
  BY <1>1 DEF IngestInvariant, TodoIsOpen, Extracting
<1>3. PICK u \in Ingest!Units : u = Ingest!Unit /\ u \in process.todo
  BY <1>1, <1>2, UnitInHand
<1>4. log' = [log EXCEPT ![u] = "failed"]
  BY <1>3 DEF Ingest!Fail
<1>5. /\ process' \in Processes /\ process'.at = "open"
      /\ process'.todo = (IF plan.failFast THEN {} ELSE process.todo \ {u})
      /\ process'.written = process.written /\ process'.exhausted = process.exhausted
  BY <1>1, <1>3 DEF Ingest!Fail, Processes, Extracting
<1>6. UNCHANGED <<raw, plan, finished, notes, stub, indexed>>
  BY DEF Ingest!Fail
<1>7. u \in Ingest!Planned /\ log[u] # "completed"
  BY <1>1, <1>3 DEF IngestInvariant, TodoIsOpen, Extracting
<1>8. Ingest!Planned' = Ingest!Planned /\ Ingest!Completed' = Ingest!Completed
  BY <1>4, <1>6, <1>7 DEF Ingest!Planned, Ingest!Completed, IngestInvariant, IngestTyped
<1>9. IngestTyped' /\ PlanKept' /\ FinishedIsWhole'
  BY <1>1, <1>4, <1>5, <1>6 DEF IngestInvariant, IngestTyped, PlanKept, FinishedIsWhole,
    Outcomes
<1>10. LogIsTrue'
  BY <1>3, <1>4, <1>6 DEF IngestInvariant, IngestTyped, LogIsTrue, HasNote, Ingest!Planned
<1>11. WorkIsWhole'
  BY <1>1, <1>4, <1>5, <1>6, <1>8 DEF IngestInvariant, IngestTyped, WorkIsWhole,
    Extracting, Settled, Ingest!Planned
<1>12. TodoIsOpen'
  BY <1>1, <1>4, <1>5, <1>8 DEF IngestInvariant, IngestTyped, TodoIsOpen, Extracting,
    Routing, Ingest!Planned
<1>13. RoutesAreWhole'
  BY <1>5 DEF RoutesAreWhole, Routing, Closing
<1> QED BY <1>9, <1>10, <1>11, <1>12, <1>13 DEF IngestInvariant

LEMMA IngestSyncStep ==
    ASSUME VaultAssumption, IngestInvariant, Ingest!Sync
    PROVE  IngestInvariant'
<1>1. /\ process \in Processes /\ process.at = "open" /\ process.todo = {} /\ plan \in Plans
      /\ finished = "no"
  BY Working DEF Ingest!Sync
<1>2. /\ process' \in Processes /\ process'.at = "route" /\ process'.todo = process.written
      /\ process'.written = process.written /\ process'.exhausted = process.exhausted
  BY <1>1 DEF Ingest!Sync, Processes, Routing
<1>3. UNCHANGED <<raw, plan, log, finished, notes, stub>>
  BY DEF Ingest!Sync
<1>4. IngestTyped' /\ PlanKept' /\ FinishedIsWhole'
  BY <1>1, <1>2, <1>3 DEF IngestInvariant, IngestTyped, PlanKept, FinishedIsWhole
<1>5. LogIsTrue'
  BY <1>3 DEF IngestInvariant, LogIsTrue, HasNote, Ingest!Planned
<1>6. WorkIsWhole'
  BY <1>1, <1>2, <1>3 DEF IngestInvariant, WorkIsWhole, Extracting, Routing, Settled,
    Ingest!Planned, Ingest!Completed
<1>7. TodoIsOpen' /\ RoutesAreWhole'
  BY <1>2 DEF TodoIsOpen, RoutesAreWhole, Extracting, Routing, Closing
<1> QED BY <1>4, <1>5, <1>6, <1>7 DEF IngestInvariant

LEMMA RouteStep ==
    ASSUME VaultAssumption, IngestInvariant, Ingest!Route
    PROVE  IngestInvariant'
<1>1. process \in Processes /\ process.at = "route" /\ process.todo # {} /\ plan \in Plans
  BY Working DEF Ingest!Route
<1>2. PICK u \in Ingest!Units : u = Ingest!Unit /\ u \in process.todo
  BY <1>1, UnitInHand
<1>3. /\ process' \in Processes /\ process'.at = "rewrite" /\ process'.todo = process.todo
      /\ process'.written = process.written /\ (process.exhausted => process'.exhausted)
  <2>1. CASE u \in Bearing /\ ~indexed.stub /\
             process' = [process EXCEPT !.at = "rewrite",
                !.tally = IF notes[u].affects THEN @ \cup {u} ELSE @]
    <3>1. PICK tally \in SUBSET Ingest!Units :
            process' = [process EXCEPT !.at = "rewrite", !.tally = tally]
      <4>1. /\ process.tally \in SUBSET Ingest!Units
            /\ process.tally \cup {u} \in SUBSET Ingest!Units
        BY <1>1 DEF Processes
      <4> QED BY <2>1, <4>1
    <3> QED BY <1>1, <3>1 DEF Processes, Routing
  <2>2. CASE process' = [process EXCEPT !.at = "rewrite"]
    BY <1>1, <2>2 DEF Processes, Routing
  <2>3. CASE process' = [process EXCEPT !.at = "rewrite", !.spent = @ + 1]
    <3>1. PICK spent \in Nat : spent = process.spent + 1
      BY <1>1 DEF Processes
    <3>2. process' = [process EXCEPT !.at = "rewrite", !.spent = spent]
      BY <2>3, <3>1
    <3> QED BY <1>1, <3>2 DEF Processes, Routing
  <2>4. CASE process' = [process EXCEPT !.at = "rewrite", !.exhausted = TRUE]
    BY <1>1, <2>4 DEF Processes, Routing
  <2> QED BY <1>2, <2>1, <2>2, <2>3, <2>4 DEF Ingest!Route, Ingest!Goto
<1>4. UNCHANGED <<raw, plan, log, finished, notes, stub, indexed>>
  BY DEF Ingest!Route
<1>5. /\ IngestTyped' /\ PlanKept' /\ LogIsTrue' /\ FinishedIsWhole'
      /\ Ingest!Planned' = Ingest!Planned /\ Ingest!Completed' = Ingest!Completed
      /\ \A v \in Ingest!Units : HasNote(v)' = HasNote(v) /\ Settled(v)' = Settled(v)
  BY <1>1, <1>3, <1>4, MovesOn
<1>6. WorkIsWhole' /\ TodoIsOpen' /\ RoutesAreWhole'
  BY <1>1, <1>3, <1>4, <1>5 DEF IngestInvariant, WorkIsWhole, TodoIsOpen,
    RoutesAreWhole, Extracting, Routing, Closing, Ingest!Planned
<1> QED BY <1>5, <1>6 DEF IngestInvariant

\* A step that changes a note of a completed unit in what the log does not tell.
LEMMA NoteIsEdited ==
    ASSUME IngestInvariant, process.at # "dead", process.at # "plan", process' \in Processes,
           process'.at # "plan", UNCHANGED <<raw, plan, log, finished, stub, indexed>>,
           NEW u \in Ingest!Completed, NEW note,
           notes[u] \in Ingest!SourceNotes =>
              note \in Ingest!SourceNotes /\ note.planned = notes[u].planned,
           notes' = [notes EXCEPT ![u] = note]
    PROVE  /\ IngestTyped' /\ PlanKept' /\ LogIsTrue' /\ FinishedIsWhole'
           /\ Ingest!Planned' = Ingest!Planned /\ Ingest!Completed' = Ingest!Completed
           /\ \A v \in Ingest!Units : Settled(v)' = Settled(v)
<1>1. finished = "no" /\ plan \in Plans
  BY Working
<1>2. u \in Ingest!Units /\ HasNote(u)
  BY <1>1 DEF IngestInvariant, LogIsTrue, Ingest!Completed, Ingest!Planned
<1>3. /\ note \in Ingest!SourceNotes /\ note.planned = notes[u].planned
  BY <1>2 DEF HasNote
<1>4. /\ notes' \in [Ingest!Units -> Ingest!SourceNotes \cup {None}]
      /\ \A v \in Ingest!Units : HasNote(v) => HasNote(v)'
  BY <1>2, <1>3 DEF HasNote, IngestInvariant, IngestTyped
<1>5. IngestTyped' /\ PlanKept' /\ FinishedIsWhole'
  BY <1>1, <1>4 DEF IngestInvariant, IngestTyped, PlanKept, FinishedIsWhole
<1>6. LogIsTrue'
  BY <1>4 DEF IngestInvariant, LogIsTrue, Ingest!Planned
<1> QED BY <1>5, <1>6 DEF Ingest!Planned, Ingest!Completed, Settled

LEMMA RewriteStep ==
    ASSUME VaultAssumption, IngestInvariant, Ingest!Rewrite
    PROVE  IngestInvariant'
<1>1. process \in Processes /\ process.at = "rewrite" /\ plan \in Plans
  BY Working DEF Ingest!Rewrite
<1>2. process.todo # {} /\ process.todo \subseteq process.written
  BY <1>1 DEF IngestInvariant, TodoIsOpen, Routing
<1>3. PICK u \in Ingest!Units : u = Ingest!Unit /\ u \in process.todo
  BY <1>1, <1>2, UnitInHand
<1>4. /\ process' \in Processes /\ process'.at = "route" /\ process'.todo = process.todo \ {u}
      /\ process'.written = process.written /\ process'.exhausted = process.exhausted
  BY <1>1, <1>3 DEF Ingest!Rewrite, Processes, Routing
<1>5. UNCHANGED <<raw, plan, log, finished, stub, indexed>>
  BY DEF Ingest!Rewrite
<1>6. process.written = Ingest!Completed /\ u \in Ingest!Completed
  BY <1>1, <1>2, <1>3 DEF IngestInvariant, WorkIsWhole, Routing
<1>7. PICK note : note = [notes[u] EXCEPT !.routed = TRUE]
  OBVIOUS
<1>8. notes' = [notes EXCEPT ![u] = note]
  BY <1>3, <1>7 DEF Ingest!Rewrite
<1>9. notes[u] \in Ingest!SourceNotes =>
        note \in Ingest!SourceNotes /\ note.planned = notes[u].planned /\ note.routed
  BY <1>7 DEF Ingest!SourceNotes
<1>10. /\ IngestTyped' /\ PlanKept' /\ LogIsTrue' /\ FinishedIsWhole'
       /\ Ingest!Planned' = Ingest!Planned /\ Ingest!Completed' = Ingest!Completed
       /\ \A v \in Ingest!Units : Settled(v)' = Settled(v)
  BY <1>1, <1>4, <1>5, <1>6, <1>8, <1>9, NoteIsEdited
<1>11. WorkIsWhole' /\ TodoIsOpen'
  BY <1>1, <1>4, <1>5, <1>6, <1>10 DEF IngestInvariant, WorkIsWhole, TodoIsOpen,
    Extracting, Routing, Closing, Ingest!Planned
<1>12. \A v \in process'.written \ process'.todo : notes'[v].routed
  <2> TAKE v \in process'.written \ process'.todo
  <2>1. v \in Ingest!Units
    BY <1>4, <1>6 DEF Ingest!Completed, Ingest!Planned
  <2>2. CASE v = u
    <3>1. notes[u] \in Ingest!SourceNotes
      BY <1>1, <1>6 DEF IngestInvariant, LogIsTrue, HasNote, Ingest!Completed,
        Ingest!Planned
    <3> QED BY <1>8, <1>9, <2>1, <2>2, <3>1 DEF IngestInvariant, IngestTyped
  <2>3. CASE v # u
    BY <1>1, <1>4, <1>8, <2>1, <2>3 DEF IngestInvariant, IngestTyped, RoutesAreWhole,
      Routing
  <2> QED BY <2>2, <2>3
<1>13. RoutesAreWhole'
  BY <1>4, <1>12 DEF RoutesAreWhole, Routing, Closing
<1> QED BY <1>10, <1>11, <1>13 DEF IngestInvariant

LEMMA DraftConceptStep ==
    ASSUME IngestInvariant, Ingest!DraftConcept
    PROVE  IngestInvariant'
<1>1. /\ process \in Processes /\ process.at = "route" /\ process.todo = {} /\ plan \in Plans
      /\ finished = "no"
  BY Working DEF Ingest!DraftConcept
<1>2. PICK spent \in Nat : spent = process.spent + 1
  BY <1>1 DEF Processes
<1>3. /\ process' \in Processes /\ process'.at \in {"reconcile", "propose"}
      /\ process'.at = "reconcile" => process'.todo = process.written
      /\ process'.written = process.written /\ (process.exhausted => process'.exhausted)
  <2>1. PICK r : r = Ingest!Reconciling
    OBVIOUS
  <2>2. /\ r \in Processes /\ r.at = "reconcile" /\ r.todo = process.written
        /\ r.written = process.written /\ r.exhausted = process.exhausted
        /\ r.spent = process.spent
    BY <1>1, <2>1 DEF Ingest!Reconciling, Processes, Closing
  <2>3. \/ process' = r
        \/ process' = [r EXCEPT !.exhausted = TRUE]
        \/ process' = [process EXCEPT !.at = "propose", !.spent = spent]
        \/ process' = [r EXCEPT !.spent = spent]
    BY <1>2, <2>1, <2>2 DEF Ingest!DraftConcept
  <2> QED BY <1>1, <2>2, <2>3 DEF Processes, Closing
<1>4. UNCHANGED <<raw, plan, log, finished, notes, indexed>> /\ stub' \in BOOLEAN
  BY DEF Ingest!DraftConcept, IngestInvariant, IngestTyped
<1>5. IngestTyped' /\ PlanKept' /\ FinishedIsWhole'
  BY <1>1, <1>3, <1>4 DEF IngestInvariant, IngestTyped, PlanKept, FinishedIsWhole
<1>6. LogIsTrue'
  BY <1>4 DEF IngestInvariant, LogIsTrue, HasNote, Ingest!Planned
<1>7. WorkIsWhole'
  BY <1>1, <1>3, <1>4 DEF IngestInvariant, WorkIsWhole, Extracting, Routing, Closing,
    Settled, Ingest!Planned, Ingest!Completed
<1>8. TodoIsOpen' /\ RoutesAreWhole'
  BY <1>1, <1>3, <1>4 DEF IngestInvariant, TodoIsOpen, RoutesAreWhole, Extracting,
    Routing, Closing
<1> QED BY <1>5, <1>6, <1>7, <1>8 DEF IngestInvariant

LEMMA ProposeConceptStep ==
    ASSUME IngestInvariant, Ingest!ProposeConcept
    PROVE  IngestInvariant'
<1>1. process \in Processes /\ process.at = "propose" /\ plan \in Plans
  BY Working DEF Ingest!ProposeConcept
<1>2. /\ process' \in Processes /\ process'.at = "reconcile" /\ process'.todo = process.written
      /\ process'.written = process.written /\ process'.exhausted = process.exhausted
  BY <1>1 DEF Ingest!ProposeConcept, Ingest!Reconciling, Processes, Closing
<1>3. UNCHANGED <<raw, plan, log, finished, notes, stub, indexed>>
  BY DEF Ingest!ProposeConcept
<1>4. /\ IngestTyped' /\ PlanKept' /\ LogIsTrue' /\ FinishedIsWhole'
      /\ Ingest!Planned' = Ingest!Planned /\ Ingest!Completed' = Ingest!Completed
      /\ \A v \in Ingest!Units : HasNote(v)' = HasNote(v) /\ Settled(v)' = Settled(v)
  BY <1>1, <1>2, <1>3, MovesOn
<1>5. WorkIsWhole' /\ TodoIsOpen' /\ RoutesAreWhole'
  BY <1>1, <1>2, <1>3, <1>4 DEF IngestInvariant, WorkIsWhole, TodoIsOpen,
    RoutesAreWhole, Extracting, Routing, Closing, Ingest!Planned
<1> QED BY <1>4, <1>5 DEF IngestInvariant

LEMMA ReconcileStep ==
    ASSUME VaultAssumption, IngestInvariant, Ingest!Reconcile
    PROVE  IngestInvariant'
<1>1. process \in Processes /\ process.at = "reconcile" /\ process.todo # {} /\ plan \in Plans
  BY Working DEF Ingest!Reconcile
<1>2. process.todo \subseteq process.written
  BY <1>1 DEF IngestInvariant, TodoIsOpen
<1>3. PICK u \in Ingest!Units : u = Ingest!Unit /\ u \in process.todo
  BY <1>1, UnitInHand
<1>4. /\ process' \in Processes /\ process'.at = "reconcile" /\ process'.todo = process.todo \ {u}
      /\ process'.written = process.written /\ process'.exhausted = process.exhausted
  BY <1>1, <1>3 DEF Ingest!Reconcile, Processes, Closing
<1>5. UNCHANGED <<raw, plan, log, finished, stub, indexed>>
  BY DEF Ingest!Reconcile
<1>6. process.written = Ingest!Completed /\ u \in Ingest!Completed
  BY <1>1, <1>2, <1>3 DEF IngestInvariant, WorkIsWhole, Closing
<1>7. PICK note : note = [notes[u] EXCEPT !.affects = notes[u].affects /\ stub]
  OBVIOUS
<1>8. notes' = [notes EXCEPT ![u] = note]
  BY <1>3, <1>7 DEF Ingest!Reconcile
<1>9. notes[u] \in Ingest!SourceNotes =>
        /\ note \in Ingest!SourceNotes /\ note.planned = notes[u].planned
        /\ note.routed = notes[u].routed
  BY <1>7 DEF Ingest!SourceNotes
<1>10. /\ IngestTyped' /\ PlanKept' /\ LogIsTrue' /\ FinishedIsWhole'
       /\ Ingest!Planned' = Ingest!Planned /\ Ingest!Completed' = Ingest!Completed
       /\ \A v \in Ingest!Units : Settled(v)' = Settled(v)
  BY <1>1, <1>4, <1>5, <1>6, <1>8, <1>9, NoteIsEdited
<1>11. WorkIsWhole' /\ TodoIsOpen'
  BY <1>1, <1>4, <1>5, <1>6, <1>10 DEF IngestInvariant, WorkIsWhole, TodoIsOpen,
    Extracting, Routing, Closing, Ingest!Planned
<1>12. \A v \in process'.written : notes'[v].routed
  <2> TAKE v \in process'.written
  <2>1. v \in Ingest!Units /\ notes[v].routed
    BY <1>1, <1>4, <1>6 DEF Ingest!Completed, Ingest!Planned, IngestInvariant,
      RoutesAreWhole, Closing
  <2>2. notes[u] \in Ingest!SourceNotes
    BY <1>1, <1>6 DEF IngestInvariant, LogIsTrue, HasNote, Ingest!Completed, Ingest!Planned
  <2> QED BY <1>8, <1>9, <2>1, <2>2 DEF IngestInvariant, IngestTyped
<1>13. RoutesAreWhole'
  BY <1>4, <1>12 DEF RoutesAreWhole, Routing, Closing
<1> QED BY <1>10, <1>11, <1>13 DEF IngestInvariant

LEMMA FinalSyncStep ==
    ASSUME IngestInvariant, Ingest!FinalSync
    PROVE  IngestInvariant'
<1>1. /\ process \in Processes /\ process.at = "reconcile" /\ plan \in Plans /\ finished = "no"
  BY Working DEF Ingest!FinalSync
<1>2. /\ process' \in Processes /\ process'.at = "finish"
      /\ process'.written = process.written /\ process'.exhausted = process.exhausted
  BY <1>1 DEF Ingest!FinalSync, Ingest!Goto, Processes, Closing
<1>3. /\ UNCHANGED <<raw, plan, log, finished, notes, stub>>
      /\ indexed' = [notes |-> notes, stub |-> stub]
  BY DEF Ingest!FinalSync
<1>4. IngestTyped' /\ PlanKept' /\ FinishedIsWhole'
  BY <1>1, <1>2, <1>3 DEF IngestInvariant, IngestTyped, PlanKept, FinishedIsWhole
<1>5. LogIsTrue'
  BY <1>3 DEF IngestInvariant, LogIsTrue, HasNote, Ingest!Planned
<1>6. WorkIsWhole'
  BY <1>1, <1>2, <1>3 DEF IngestInvariant, WorkIsWhole, Extracting, Closing, Settled,
    Ingest!Planned, Ingest!Completed
<1>7. TodoIsOpen' /\ RoutesAreWhole'
  BY <1>1, <1>2, <1>3 DEF IngestInvariant, TodoIsOpen, RoutesAreWhole, Extracting,
    Routing, Closing
<1> QED BY <1>4, <1>5, <1>6, <1>7 DEF IngestInvariant

LEMMA FinishStep ==
    ASSUME IngestInvariant, Ingest!Finish
    PROVE  IngestInvariant'
<1>1. /\ process \in Processes /\ process.at = "finish" /\ plan \in Plans
  BY Working DEF Ingest!Finish
<1>2. /\ process' = Ingest!Dead /\ process'.at = "dead"
      /\ UNCHANGED <<raw, plan, log, notes, stub, indexed>>
  BY DEF Ingest!Finish, Ingest!Dead
<1>3. process.exhausted => finished' = "budget"
  BY DEF Ingest!Finish
<1>4. IngestTyped' /\ PlanKept' /\ LogIsTrue'
  BY <1>1, <1>2 DEF IngestInvariant, IngestTyped, PlanKept, LogIsTrue, HasNote,
    Ingest!Planned
<1>5. WorkIsWhole' /\ TodoIsOpen' /\ RoutesAreWhole'
  BY <1>2 DEF WorkIsWhole, TodoIsOpen, RoutesAreWhole, Extracting, Routing, Closing
<1>6. FinishedIsWhole'
  <2>1. indexed = [notes |-> notes, stub |-> stub]
    BY <1>1 DEF IngestInvariant, RoutesAreWhole
  <2>2. \A u \in Ingest!Planned :
            /\ log[u] = "completed" => notes[u].routed
            /\ Settled(u) \/ process.exhausted \/ plan.failFast
    BY <1>1 DEF IngestInvariant, WorkIsWhole, RoutesAreWhole, Extracting, Closing,
      Ingest!Completed
  <2> QED BY <1>2, <1>3, <2>1, <2>2 DEF FinishedIsWhole, Settled, Ingest!Planned
<1> QED BY <1>4, <1>5, <1>6 DEF IngestInvariant

LEMMA IngestKept ==
    ASSUME VaultAssumption, IngestInvariant, Ingest!Next
    PROVE  IngestInvariant'
BY SourceChanges, BeginStep, ResumeStep, FreezePlanStep, OpenStep, ExtractStep,
  SkipRestStep, WriteNoteStep, CompleteStep, FailStep, IngestSyncStep, RouteStep,
  RewriteStep, DraftConceptStep, ProposeConceptStep, ReconcileStep, FinalSyncStep,
  FinishStep, CrashStep DEF Ingest!Next

\* The inductive invariant of ingest runs: the log is true of the notes, the process
\* knows what it has completed, and each phase leaves its work whole.
THEOREM IngestRunInvariant == AnySpec => []IngestInvariant
<1> USE VaultAssumption
<1>1. AnyInit => IngestInvariant
  BY IngestStarts DEF AnyInit
<1>2. IngestInvariant /\ [AnyNext]_<<component, vars, syncVars, ingestVars>> => IngestInvariant'
  <2>1. ASSUME IngestInvariant, UNCHANGED ingestVars PROVE IngestInvariant'
    BY <2>1 DEF ingestVars, IngestInvariant, IngestTyped, PlanKept, LogIsTrue,
      WorkIsWhole, TodoIsOpen, RoutesAreWhole, FinishedIsWhole, HasNote, Settled,
      Ingest!Planned, Ingest!Completed, Ingest!Unit
  <2> QED BY <2>1, IngestKept DEF AnyNext
<1> QED BY <1>1, <1>2, PTL DEF AnySpec

\* A run that reports itself as finished has its notes in the index, its planned units
\* settled and its completed ones routed (pipelines/ingest.py, core/runctx.py).
THEOREM RunsAreWhole == AnySpec => []FinishedRunsAreWhole
<1>1. IngestInvariant => FinishedRunsAreWhole
  <2> SUFFICES ASSUME IngestInvariant PROVE Ingest!FinishedRunsAreWhole
    BY DEF FinishedRunsAreWhole
  <2>1. Ingest!CompletedUnitsHaveNotes
    BY VaultAssumption DEF Ingest!CompletedUnitsHaveNotes, VaultAssumption,
      Ingest!IngestAssumption, IngestInvariant, IngestTyped, LogIsTrue, HasNote,
      Ingest!Planned
  <2> QED BY <2>1 DEF IngestInvariant, FinishedIsWhole, Settled, Ingest!FinishedRunsAreWhole
<1> QED BY <1>1, IngestRunInvariant, PTL

\* No extraction is paid for a unit that the log has as completed or failed, whichever
\* process of the run it was (_pending_units of pipelines/ingest.py); the calls of the
\* routes, which every process takes again for the completed units, are not meant.
THEOREM UnitsAreNotExtractedAgain == AnySpec => SettledUnitsAreNotExtractedAgain
<1> DEFINE ExtractedOnce ==
        process.at = "extract" /\ process' # Ingest!Dead /\ process'.spent > process.spent
            => log[Ingest!Unit] \notin {"completed", "failed"}
<1>1. IngestInvariant => ExtractedOnce
  <2> SUFFICES ASSUME IngestInvariant, process.at = "extract"
               PROVE  log[Ingest!Unit] \notin {"completed", "failed"}
    OBVIOUS
  <2>1. process \in Processes /\ process.todo # {}
    BY Working DEF IngestInvariant, TodoIsOpen, Extracting
  <2>2. Ingest!Unit \in process.todo
    BY <2>1, VaultAssumption, UnitInHand
  <2> QED BY <2>2 DEF IngestInvariant, TodoIsOpen, Extracting
<1>2. IngestInvariant => [ExtractedOnce]_Ingest!vars
  BY <1>1
<1> HIDE DEF ExtractedOnce
<1>3. AnySpec => [][ExtractedOnce]_Ingest!vars
  BY <1>2, IngestRunInvariant, PTL
<1> QED
  BY <1>3 DEF ExtractedOnce, SettledUnitsAreNotExtractedAgain,
    Ingest!SettledUnitsAreNotExtractedAgain
=============================================================================
