-------------------------- MODULE StoreCoordination --------------------------
(***************************************************************************)
(* How the transactions of ChangeControlStore come to be atomic: the       *)
(* handles of change_control/store.py on one database file, the flock on   *)
(* its directory, and SQLite's rollback journal.                           *)
(*                                                                         *)
(* A handle is opened by a process of its own, which may die at any step:  *)
(* its lock goes with it, the file and the journal stay as they are.  A    *)
(* writer takes the exclusive lock for each transaction (constructor and   *)
(* reads included: their effect is that of a transaction that fails or     *)
(* writes nothing); a read-only handle holds the shared lock from open to  *)
(* close, because it is opened immutable=1 and takes no SQLite lock.       *)
(*                                                                         *)
(* The transaction is a compare-and-swap of one aggregate, on two pages:   *)
(* the aggregate's head and the operation receipts.                        *)
(***************************************************************************)
EXTENDS Naturals, FiniteSets

CONSTANTS
    Handles,        \* open stores, each in its own process
    Operations,     \* operation ids
    Versions,       \* contents an aggregate can have
    Nothing,        \* no content, no journal, no transaction, no call
    Wanted,         \* the content each operation id was derived for
    MaxRevision     \* bound on the revision of the aggregate

VARIABLES
    file,       \* the pages of the database file
    journal,    \* the pages saved in the rollback journal, or Nothing
    lock,       \* the flock mode each handle holds on the directory
    pc,         \* where each handle is
    call,       \* the compare-and-swap a writer executes
    image,      \* the pages a transaction means to write
    view,       \* the pages a read-only handle has read so far
    answers     \* what callers were told, by the calls that returned

vars == <<file, journal, lock, pc, call, image, view, answers>>

Pages == {"aggregates", "operations"}

Heads == [revision : 0..MaxRevision, content : Versions \cup {Nothing}]

Receipts == [op : Operations, expected : 0..MaxRevision, content : Versions,
             revision : 0..MaxRevision, changed : BOOLEAN]

Databases == [aggregates : Heads, operations : SUBSET Receipts]

Calls == [op : Operations, expected : 0..MaxRevision]

CoordinationAssumption ==
    /\ Wanted \in [Operations -> Versions]
    /\ Nothing \notin Versions \cup Databases
    /\ MaxRevision \in Nat

Answers == [op : Operations, expected : 0..MaxRevision,
            result : {"committed", "conflict", "reused"}, revision : 0..MaxRevision]

\* What the next reader or writer will find: a hot journal undoes the file.
Committed == IF journal = Nothing THEN file ELSE journal

\* The places of a writer that has the lock: in its transaction, or past one that
\* SQLite has rolled back under it.
InTransaction == {"locked", "open", "dirty", "journaled", "committed", "raised"}

-----------------------------------------------------------------------------
(* The lock, the journal and the transaction as functions of what they see. *)

\* flock: any number of shared holders, or one exclusive holder.
Available(h, mode) ==
    \A g \in Handles \ {h} :
        lock[g] = "none" \/ (mode = "shared" /\ lock[g] = "shared")

\* Mutant of Readable: a read-only open tolerates the journal as a writer does.
ReadableWithJournal == TRUE

\* A read-only handle refuses a database with a rollback journal: it cannot
\* play it back.
Readable == journal = Nothing

\* Mutant of Recovered: the journal is deleted without being played back.
RecoveredWithoutPlayback == file

\* SQLite plays a hot journal back before it starts a transaction.
Recovered == IF journal = Nothing THEN file ELSE journal

ReceiptOf(db, op) == {x \in db.operations : x.op = op}

\* Mutant of Replays: the receipt of the operation id is not looked up.
ReplaysNothing(db, c) == FALSE

\* The call has committed before, with these very inputs.
Replays(db, c) == \E x \in ReceiptOf(db, c.op) : x.expected = c.expected

\* The database after a compare-and-swap that neither replays nor conflicts.
Transact(db, c) ==
    LET content  == Wanted[c.op]
        changed  == c.expected = 0 \/ content # db.aggregates.content
        revision == IF changed THEN c.expected + 1 ELSE c.expected
    IN  [aggregates |-> [revision |-> revision, content |-> content],
         operations |-> db.operations \cup
            {[op |-> c.op, expected |-> c.expected, content |-> content,
              revision |-> revision, changed |-> changed]}]

Answer(c, result, revision) ==
    [op |-> c.op, expected |-> c.expected, result |-> result, revision |-> revision]

-----------------------------------------------------------------------------
Init ==
    /\ file = [aggregates |-> [revision |-> 0, content |-> Nothing], operations |-> {}]
    /\ journal = Nothing
    /\ lock = [h \in Handles |-> "none"]
    /\ pc = [h \in Handles |-> "idle"]
    /\ call = [h \in Handles |-> Nothing]
    /\ image = [h \in Handles |-> Nothing]
    /\ view = [h \in Handles |-> <<>>]
    /\ answers = {}

\* Mutant of Release: an error path forgets the lock.
ReleaseKeepingLock(h) ==
    /\ pc' = [pc EXCEPT ![h] = "idle"]
    /\ call' = [call EXCEPT ![h] = Nothing]
    /\ image' = [image EXCEPT ![h] = Nothing]
    /\ view' = [view EXCEPT ![h] = <<>>]
    /\ UNCHANGED lock

\* The call or the handle ends, normally or with an exception.
Release(h) ==
    /\ pc' = [pc EXCEPT ![h] = "idle"]
    /\ lock' = [lock EXCEPT ![h] = "none"]
    /\ call' = [call EXCEPT ![h] = Nothing]
    /\ image' = [image EXCEPT ![h] = Nothing]
    /\ view' = [view EXCEPT ![h] = <<>>]

Goto(h, from, to) == pc[h] = from /\ pc' = [pc EXCEPT ![h] = to]

\* A caller asks for a write, on a revision it has seen at some time.
Call(h, op, expected) ==
    /\ Goto(h, "idle", "waiting")
    /\ expected <= Committed.aggregates.revision
    /\ call' = [call EXCEPT ![h] = [op |-> op, expected |-> expected]]
    /\ UNCHANGED <<file, journal, lock, image, view, answers>>

Acquire(h) ==
    /\ Goto(h, "waiting", "locked")
    /\ Available(h, "exclusive")
    /\ lock' = [lock EXCEPT ![h] = "exclusive"]
    /\ UNCHANGED <<file, journal, call, image, view, answers>>

\* The deadline passed: ChangeControlBusyError.
Busy(h) ==
    /\ pc[h] \in {"waiting", "opening"}
    /\ Release(h)
    /\ UNCHANGED <<file, journal, answers>>

Begin(h) ==
    /\ Goto(h, "locked", "open")
    /\ file' = Recovered
    /\ journal' = Nothing
    /\ image' = [image EXCEPT ![h] = Recovered]
    /\ UNCHANGED <<lock, call, view, answers>>

\* The receipt of the same call answers for it.
Replay(h) ==
    /\ pc[h] = "open"
    /\ Replays(image[h], call[h])
    /\ \E x \in ReceiptOf(image[h], call[h].op) :
        answers' = answers \cup {Answer(call[h], "committed", x.revision)}
    /\ Release(h)
    /\ UNCHANGED <<file, journal>>

\* ChangeControlIdempotencyError: the operation id has another receipt.
\* ChangeControlConflictError: the aggregate is not at the expected revision.
Refuse(h) ==
    /\ pc[h] = "open"
    /\ ~Replays(image[h], call[h])
    /\ \/ /\ ReceiptOf(image[h], call[h].op) # {}
          /\ answers' = answers \cup {Answer(call[h], "reused", 0)}
       \/ /\ ReceiptOf(image[h], call[h].op) = {}
          /\ image[h].aggregates.revision # call[h].expected
          /\ answers' = answers \cup {Answer(call[h], "conflict", 0)}
    /\ Release(h)
    /\ UNCHANGED <<file, journal>>

Write(h) ==
    /\ Goto(h, "open", "dirty")
    /\ ~Replays(image[h], call[h])
    /\ ReceiptOf(image[h], call[h].op) = {}
    /\ image[h].aggregates.revision = call[h].expected
    /\ Transact(image[h], call[h]).aggregates.revision <= MaxRevision
    /\ image' = [image EXCEPT ![h] = Transact(image[h], call[h])]
    /\ UNCHANGED <<file, journal, lock, call, view, answers>>

\* COMMIT, step by step: save the old pages, write the new ones, and delete the
\* journal, which is the moment the transaction takes effect.
WriteJournal(h) ==
    /\ Goto(h, "dirty", "journaled")
    /\ journal' = file
    /\ UNCHANGED <<file, lock, call, image, view, answers>>

WritePage(h, page) ==
    /\ pc[h] = "journaled"
    /\ file[page] # image[h][page]
    /\ file' = [file EXCEPT ![page] = image[h][page]]
    /\ UNCHANGED <<journal, lock, pc, call, image, view, answers>>

DeleteJournal(h) ==
    /\ Goto(h, "journaled", "committed")
    /\ file = image[h]
    /\ journal' = Nothing
    /\ UNCHANGED <<file, lock, call, image, view, answers>>

\* The database is verified after COMMIT, and the caller gets its answer.
Return(h) ==
    /\ pc[h] = "committed"
    /\ \E x \in ReceiptOf(image[h], call[h].op) :
        answers' = answers \cup {Answer(call[h], "committed", x.revision)}
    /\ Release(h)
    /\ UNCHANGED <<file, journal>>

\* That verification raises: the caller gets an error for what has committed.
ReturnUnverified(h) ==
    /\ pc[h] = "committed"
    /\ Release(h)
    /\ UNCHANGED <<file, journal, answers>>

\* Verification, the transaction body or COMMIT fails: ROLLBACK, and the lock is
\* given back.
Rollback(h) ==
    /\ pc[h] \in {"locked", "open", "dirty", "journaled"}
    /\ IF pc[h] = "journaled"
       THEN file' = journal /\ journal' = Nothing
       ELSE UNCHANGED <<file, journal>>
    /\ Release(h)
    /\ UNCHANGED answers

\* A statement of the body fails (full disk, I/O error) and SQLite has rolled back
\* by itself.  The operation sees that no transaction is open, takes the error for
\* one that COMMIT has dealt with, and re-raises it without giving the lock back.
SelfRollback(h) ==
    /\ pc[h] \in {"open", "dirty", "journaled"}
    /\ pc' = [pc EXCEPT ![h] = "raised"]
    /\ IF pc[h] = "journaled"
       THEN file' = journal /\ journal' = Nothing
       ELSE UNCHANGED <<file, journal>>
    /\ UNCHANGED <<lock, call, image, view, answers>>

\* The caller closes the store that raised, which each does in a finally; it is
\* only then that the lock comes free.
CloseRaised(h) ==
    /\ pc[h] = "raised"
    /\ Release(h)
    /\ UNCHANGED <<file, journal, answers>>

Crash(h) ==
    /\ pc[h] # "idle"
    /\ Release(h)
    /\ UNCHANGED <<file, journal, answers>>

-----------------------------------------------------------------------------
(* Read-only handles.                                                      *)

OpenReadOnly(h) ==
    /\ Goto(h, "idle", "opening")
    /\ UNCHANGED <<file, journal, lock, call, image, view, answers>>

AcquireShared(h) ==
    /\ Goto(h, "opening", "checking")
    /\ Available(h, "shared")
    /\ lock' = [lock EXCEPT ![h] = "shared"]
    /\ UNCHANGED <<file, journal, call, image, view, answers>>

Check(h) ==
    /\ Goto(h, "checking", "reading")
    /\ Readable
    /\ UNCHANGED <<file, journal, lock, call, image, view, answers>>

CheckFails(h) ==
    /\ pc[h] = "checking"
    /\ ~Readable
    /\ Release(h)
    /\ UNCHANGED <<file, journal, answers>>

\* Queries fetch pages when they need them and keep them in the page cache.
ReadPage(h, page) ==
    /\ pc[h] = "reading"
    /\ page \notin DOMAIN view[h]
    /\ view' = [view EXCEPT ![h] =
        [p \in DOMAIN @ \cup {page} |-> IF p = page THEN file[page] ELSE @[p]]]
    /\ UNCHANGED <<file, journal, lock, pc, call, image, answers>>

Close(h) ==
    /\ pc[h] = "reading"
    /\ Release(h)
    /\ UNCHANGED <<file, journal, answers>>

-----------------------------------------------------------------------------
\* The steps of a transaction that runs on.
Progress(h) ==
    \/ Begin(h) \/ Replay(h) \/ Refuse(h) \/ Write(h)
    \/ WriteJournal(h) \/ (\E page \in Pages : WritePage(h, page))
    \/ DeleteJournal(h) \/ Return(h)

Next ==
    \E h \in Handles :
        \/ \E op \in Operations, expected \in 0..MaxRevision : Call(h, op, expected)
        \/ Acquire(h) \/ Busy(h)
        \/ Progress(h)
        \/ ReturnUnverified(h) \/ Rollback(h) \/ Crash(h)
        \/ SelfRollback(h) \/ CloseRaised(h)
        \/ OpenReadOnly(h) \/ AcquireShared(h) \/ Check(h) \/ CheckFails(h)
        \/ (\E page \in Pages : ReadPage(h, page)) \/ Close(h)

\* A process that is neither dead nor stuck goes on with its transaction, and out
\* of it through the finally that closes the store; a write beyond MaxRevision can
\* only fail.
Fairness == \A h \in Handles : WF_vars(Progress(h) \/ Rollback(h) \/ CloseRaised(h))

Spec == Init /\ [][Next]_vars /\ Fairness

-----------------------------------------------------------------------------
(* Properties.                                                             *)

\* The values of the variables, and that a handle holds the lock mode that its
\* place in the protocol calls for.
TypeOK ==
    /\ file \in Databases
    /\ journal \in Databases \cup {Nothing}
    /\ pc \in [Handles -> InTransaction \cup {"idle", "waiting", "opening", "checking", "reading"}]
    /\ lock = [h \in Handles |->
                IF pc[h] \in InTransaction THEN "exclusive"
                ELSE IF pc[h] \in {"checking", "reading"} THEN "shared" ELSE "none"]
    /\ call \in [Handles -> Calls \cup {Nothing}]
    /\ image \in [Handles -> Databases \cup {Nothing}]
    /\ \A h \in Handles : DOMAIN view[h] \subseteq Pages
    /\ answers \subseteq Answers

\* All pages that a read-only handle reads, however far apart, are those of one
\* committed state, which is still the committed state while the handle is open:
\* never a torn file, and never a mixture of two commits.
ReadersSeeOneCommit ==
    \A h \in Handles : \A page \in DOMAIN view[h] : view[h][page] = Committed[page]

\* A definite answer stays true, through crashes, rollbacks and the retries of
\* other processes: what was acknowledged is still committed with the revision
\* that was named, and a call that was refused never takes effect later.
AnswersStayTrue ==
    \A a \in answers :
        LET effects == {x \in Committed.operations : x.op = a.op /\ x.expected = a.expected}
        IN  IF a.result = "committed"
            THEN \E x \in effects : x.revision = a.revision
            ELSE effects = {}

\* Every transaction ends and the exclusive lock of the directory comes free: by the
\* path that the operation takes out of it or, where SQLite rolled back under it and
\* the operation raises with the lock in hand, by the close of its caller.
TransactionsEnd ==
    \A h \in Handles : lock[h] = "exclusive" ~> lock[h] = "none"

=============================================================================
