-------------------------- MODULE ManagedActivation --------------------------
(***************************************************************************)
(* The activation of a reviewed generation: change_control/                *)
(* managed_activation_service.py over the tables of managed_store.py and   *)
(* the files of managed_generation_repository.py.                          *)
(*                                                                         *)
(* A call claims the decision for its operation id, publishes the          *)
(* generation's files one by one, builds its index, seals the index with a *)
(* READY receipt, and moves the active-generation pointer from generation  *)
(* zero to the generation.  Every step leaves a row or a file; a call can  *)
(* die at any point and is completed by calling again, in this process or  *)
(* in another one at the same time.  Rows change in transactions, which    *)
(* are single steps, except the last: it reopens the files while it is     *)
(* open.  Files are changed under the repository's lock only, but they can *)
(* be tampered with at any time.                                           *)
(*                                                                         *)
(* A generation is named by its request: the decision, the manifest and    *)
(* the source bytes a request resolves to are fixed once it is decided.    *)
(***************************************************************************)
EXTENDS Integers, FiniteSets

CONSTANTS
    Services,       \* processes that run the activation service
    Requests,       \* decided reviews whose manifest requires activation
    Publications,   \* the number of files a generation publishes
    Calls,          \* the calls callers make: [request, op, config]
    Variants,       \* a rebuilt index may differ in its bytes
    None,           \* no command, no receipt, no holder, no job
    Zero,           \* generation zero
    Mishaps         \* bound: how many crashes and failing steps may occur with how
                    \* many changes made to finished files

VARIABLES
    active,     \* change_control_active_generation
    intents,    \* ..._managed_activation_intents: the command of a request
    events,     \* ..._revision_publication_events: the ordinals of a request
    readiness,  \* ..._index_generation_receipts: the image that is ready
    activations,\* ..._generation_activation_receipts
    files,      \* the published files of a generation
    index,      \* the index file of a generation
    ready,      \* its READY receipt: the image it names and its link count
    repository, \* who holds the repository's lock
    writer,     \* who has the authority transaction open
    pc, job,    \* where a service is in its call, and the call's locals
    answers,    \* what callers were told
    faults, tampering

rows == <<active, intents, events, readiness, activations>>
disk == <<files, index, ready>>
locks == <<repository, writer>>
bounds == <<faults, tampering>>
vars == <<rows, disk, locks, pc, job, answers, bounds>>

Ordinals(r) == 0 .. Publications[r] - 1

Command(c) == [op |-> c.op, config |-> c.config]

Commands == {Command(c) : c \in Calls}

\* An index image: what it was built with, and which of its possible bytes.
Images == [config : {c.config : c \in Calls}, variant : Variants]

Receipts == [image : Images, links : {1, 2}]

Torn == [torn |-> TRUE]
Changed == [changed |-> TRUE]
Changing == [changing |-> TRUE]

ASSUME ActivationAssumptions ==
    /\ Publications \in [Requests -> Nat]
    /\ \A c \in Calls : c.request \in Requests
    /\ Zero \notin Requests
    /\ None \notin Requests \cup Services \cup Commands \cup Images \cup Receipts
                    \cup {Torn, Changed, Changing}
    /\ Mishaps \subseteq Nat \X Nat

Owner(op) == {r \in Requests : intents[r] # None /\ intents[r].op = op}

-----------------------------------------------------------------------------
(* What a verification finds when it reopens the files of a generation.    *)

\* open_publication: one private inode with the published bytes.
Published(r, n) == files[r][n] = "exact"

\* verify_index: READY names the image, and the index file is that image.
Indexed(r, image) == ready[r] = [image |-> image, links |-> 1] /\ index[r] = image

\* The capability of verify_effects, for the rows the store has.
Effects(r, ordinals, image) ==
    (\A n \in ordinals : Published(r, n)) /\ Indexed(r, image)

-----------------------------------------------------------------------------
Init ==
    /\ active = Zero
    /\ intents = [r \in Requests |-> None]
    /\ events = [r \in Requests |-> {}]
    /\ readiness = [r \in Requests |-> None]
    /\ activations = {}
    /\ files = [r \in Requests |-> [n \in Ordinals(r) |-> "absent"]]
    /\ index = [r \in Requests |-> None]
    /\ ready = [r \in Requests |-> None]
    /\ repository = None /\ writer = None
    /\ pc = [s \in Services |-> "idle"]
    /\ job = [s \in Services |-> None]
    /\ answers = {}
    /\ faults = 0 /\ tampering = 0

Goto(s, from, to) == pc[s] = from /\ pc' = [pc EXCEPT ![s] = to]

\* The call is over; whatever it held is released.
Leave(s) ==
    /\ pc' = [pc EXCEPT ![s] = "idle"]
    /\ job' = [job EXCEPT ![s] = None]
    /\ repository' = IF repository = s THEN None ELSE repository
    /\ writer' = IF writer = s THEN None ELSE writer

Answer(s, result) ==
    answers' = answers \cup {[request |-> job[s].request, op |-> job[s].op, result |-> result]}

\* The call asks for the active generation first ...
Begin(s, c) ==
    /\ Goto(s, "idle", "preflight")
    /\ writer = None
    /\ job' = [job EXCEPT ![s] = [request |-> c.request, op |-> c.op, config |-> c.config,
                seen |-> active, ordinal |-> 0, known |-> {}, image |-> None]]
    /\ UNCHANGED <<rows, disk, locks, answers, bounds>>

\* ... and goes on from generation zero, or to repeat a completed activation.
Admitted(s) ==
    LET r == job[s].request
    IN  /\ Owner(job[s].op) \subseteq {r}
        /\ \/ job[s].seen = Zero
           \/ job[s].seen = r /\ r \in activations /\ Owner(job[s].op) = {r}

Preflight(s) ==
    /\ Goto(s, "preflight", "claim")
    /\ writer = None
    /\ Admitted(s)
    /\ UNCHANGED <<rows, disk, locks, job, answers, bounds>>

\* Mutant of Claims: an exact retry is refused like any other taken decision.
ClaimsOnce(r, command) == FALSE

\* The claim repeats an earlier one exactly.
Claims(r, command) == intents[r] = command

\* Mutant of Claimable: any number of operations may work on one decision.
ClaimableAgain(r, command) == Owner(command.op) = {} /\ active = Zero

\* A fresh claim: neither the operation id nor the decision is taken.
Claimable(r, command) == Owner(command.op) = {} /\ intents[r] = None /\ active = Zero

\* An operator's run is bound to its baseline by a second transaction right after this
\* one, with an operation id of its own.  It is left out: an exact retry, whose claim is
\* found, comes to it again, so that a death between the two is one after the claim.
Claim(s) ==
    /\ Goto(s, "claim", "refresh")
    /\ writer = None
    /\ LET r == job[s].request
       IN  \/ Claims(r, Command(job[s])) /\ UNCHANGED intents
           \/ /\ Claimable(r, Command(job[s]))
              /\ intents' = [intents EXCEPT ![r] = Command(job[s])]
    /\ UNCHANGED <<active, events, readiness, activations, disk, locks, job, answers, bounds>>

\* Mutant of Stale: the authority is compared before the claim is looked up.
StaleBeforeReplay(s) == active # Zero

\* ManagedGenerationActivationStaleError: the claim would have been fresh.
Stale(s) == intents[job[s].request] = None /\ Owner(job[s].op) = {} /\ active # Zero

StaleClaim(s) ==
    /\ pc[s] = "claim"
    /\ writer = None
    /\ Stale(s)
    /\ Answer(s, "stale")
    /\ Leave(s)
    /\ UNCHANGED <<rows, disk, bounds>>

\* The base is no longer generation zero, or the operation id or the decision
\* belongs to another command.
Refuse(s) ==
    /\ writer = None
    /\ \/ pc[s] = "preflight" /\ ~Admitted(s)
       \/ /\ pc[s] = "claim"
          /\ ~Claims(job[s].request, Command(job[s]))
          /\ ~Claimable(job[s].request, Command(job[s])) /\ ~Stale(s)
    /\ Leave(s)
    /\ UNCHANGED <<rows, disk, answers, bounds>>

\* The rows of the activation are read again before every publication.
Refresh(s) ==
    /\ Goto(s, "refresh", "publish")
    /\ writer = None
    /\ job' = [job EXCEPT ![s].known = events[job[s].request],
                          ![s].image = readiness[job[s].request]]
    /\ UNCHANGED <<rows, disk, locks, answers, bounds>>

-----------------------------------------------------------------------------
(* One publication: reopened, or created, linked and recorded.             *)

Reopen(s) ==
    /\ Goto(s, "publish", "refresh")
    /\ job[s].ordinal \in job[s].known
    /\ Published(job[s].request, job[s].ordinal)
    /\ job' = [job EXCEPT ![s].ordinal = @ + 1]
    /\ UNCHANGED <<rows, disk, locks, answers, bounds>>

\* The lock is taken, and temporary names left by a crash are unlinked.
LockForFile(s) ==
    /\ Goto(s, "publish", "create")
    /\ job[s].ordinal \in Ordinals(job[s].request) \ job[s].known
    /\ repository = None
    /\ repository' = s
    /\ files' = [files EXCEPT ![job[s].request][job[s].ordinal] =
                    IF @ = "linked" THEN "exact" ELSE @]
    /\ UNCHANGED <<rows, index, ready, writer, job, answers, bounds>>

\* Create-only: an existing file must have the same bytes.
LinkFile(s) ==
    /\ pc[s] = "create"
    /\ LET file == files[job[s].request][job[s].ordinal]
       IN  \/ /\ file = "absent"
              /\ files' = [files EXCEPT ![job[s].request][job[s].ordinal] = "linked"]
              /\ pc' = [pc EXCEPT ![s] = "linked"]
              /\ UNCHANGED repository
           \/ /\ file = "exact"
              /\ pc' = [pc EXCEPT ![s] = "record"]
              /\ repository' = None
              /\ UNCHANGED files
    /\ UNCHANGED <<rows, index, ready, writer, job, answers, bounds>>

UnlinkTemporary(s) ==
    /\ Goto(s, "linked", "record")
    /\ files' = [files EXCEPT ![job[s].request][job[s].ordinal] = "exact"]
    /\ repository' = None
    /\ UNCHANGED <<rows, index, ready, writer, job, answers, bounds>>

\* The event is there already, or it is the next in the manifest's order.
Recordable(r, n) == n \in events[r] \/ n = Cardinality(events[r])

RecordPublication(s) ==
    /\ Goto(s, "record", "refresh")
    /\ writer = None
    /\ LET r == job[s].request
           n == job[s].ordinal
       IN  /\ Published(r, n)
           /\ Recordable(r, n)
           /\ events' = [events EXCEPT ![r] = @ \cup {n}]
    /\ job' = [job EXCEPT ![s].ordinal = @ + 1]
    /\ UNCHANGED <<active, intents, readiness, activations, disk, locks, answers, bounds>>

-----------------------------------------------------------------------------
(* The index: verified if its receipt is recorded, else built and sealed.  *)

Complete(s) == job[s].ordinal = Publications[job[s].request]

\* resolve_generation_notes reopens the published files it indexes.
Resolved(s) == \A n \in job[s].known : Published(job[s].request, n)

VerifyIndex(s) ==
    /\ Goto(s, "publish", "guard")
    /\ Complete(s) /\ Resolved(s)
    /\ job[s].image # None
    /\ Indexed(job[s].request, job[s].image)
    /\ UNCHANGED <<rows, disk, locks, job, answers, bounds>>

\* Mutant of Sealed: READY never survives the start of a build.
SealedNever(receipt) == None

\* What is left of READY when the residue of a crash is cleaned up: a receipt
\* that still has its temporary link is removed.
Sealed(receipt) == IF receipt # None /\ receipt.links = 2 THEN None ELSE receipt

LockForIndex(s) ==
    /\ Goto(s, "publish", "build")
    /\ Complete(s) /\ Resolved(s)
    /\ job[s].image = None
    /\ repository = None
    /\ repository' = s
    /\ ready' = [ready EXCEPT ![job[s].request] = Sealed(@)]
    /\ UNCHANGED <<rows, files, index, writer, job, answers, bounds>>

\* The index is ready: a call before this one built it and was not recorded.
AdoptIndex(s) ==
    /\ Goto(s, "build", "recordIndex")
    /\ LET receipt == ready[job[s].request]
       IN  /\ receipt # None
           /\ Indexed(job[s].request, receipt.image)
           /\ job' = [job EXCEPT ![s].image = receipt.image]
    /\ repository' = None
    /\ UNCHANGED <<rows, disk, writer, answers, bounds>>

\* Not ready: what is in the index file is thrown away, if it is ours.
ResetIndex(s) ==
    /\ Goto(s, "build", "write")
    /\ ready[job[s].request] = None
    /\ index[job[s].request] \in Images => index[job[s].request].config = job[s].config
    /\ index' = [index EXCEPT ![job[s].request] = Torn]
    /\ UNCHANGED <<rows, files, ready, locks, job, answers, bounds>>

WriteIndex(s) ==
    /\ Goto(s, "write", "written")
    /\ \E v \in Variants :
        index' = [index EXCEPT ![job[s].request] = [config |-> job[s].config, variant |-> v]]
    /\ UNCHANGED <<rows, files, ready, locks, job, answers, bounds>>

\* The image is reopened; then READY, which names it, is linked ...
LinkReady(s) ==
    /\ Goto(s, "written", "ready")
    /\ index[job[s].request] \in Images
    /\ ready' = [ready EXCEPT ![job[s].request] =
                    [image |-> index[job[s].request], links |-> 2]]
    /\ UNCHANGED <<rows, files, index, locks, job, answers, bounds>>

\* ... and counts when it is its only link.
UnlinkReady(s) ==
    /\ Goto(s, "ready", "verify")
    /\ ready' = [ready EXCEPT ![job[s].request].links = 1]
    /\ job' = [job EXCEPT ![s].image = ready[job[s].request].image]
    /\ UNCHANGED <<rows, files, index, locks, answers, bounds>>

VerifyBuilt(s) ==
    /\ Goto(s, "verify", "recordIndex")
    /\ Indexed(job[s].request, job[s].image)
    /\ repository' = None
    /\ UNCHANGED <<rows, disk, writer, job, answers, bounds>>

RecordIndex(s) ==
    /\ Goto(s, "recordIndex", "guard")
    /\ writer = None
    /\ LET r == job[s].request
       IN  /\ Effects(r, events[r], job[s].image)
           /\ readiness[r] \in {None, job[s].image}
           /\ readiness' = [readiness EXCEPT ![r] = job[s].image]
    /\ UNCHANGED <<active, intents, events, activations, disk, locks, job, answers, bounds>>

\* Everything is reopened once more before the authority moves.
Guard(s) ==
    /\ Goto(s, "guard", "activate")
    /\ writer = None
    /\ LET r == job[s].request
       IN  readiness[r] # None /\ Effects(r, events[r], readiness[r])
    /\ UNCHANGED <<rows, disk, locks, job, answers, bounds>>

-----------------------------------------------------------------------------
(* The authority transaction.                                              *)

\* The rows an activation needs.
Activatable(r, command) ==
    intents[r] = command /\ events[r] = Ordinals(r) /\ readiness[r] # None

\* Mutant of Verified: the transaction trusts the verification before it.
VerifiedBefore(r) == TRUE

\* The files are reopened inside the transaction, again and again.
Verified(r) == Effects(r, events[r], readiness[r])

UpdateAuthority(s) ==
    /\ Goto(s, "activate", "updated")
    /\ writer = None
    /\ LET r == job[s].request
       IN  Activatable(r, Command(job[s])) /\ Verified(r) /\ r \notin activations
    /\ active = Zero
    /\ writer' = s
    /\ UNCHANGED <<rows, disk, repository, job, answers, bounds>>

RecheckEffects(s) ==
    /\ Goto(s, "updated", "checked")
    /\ Verified(job[s].request)
    /\ UNCHANGED <<rows, disk, locks, job, answers, bounds>>

CommitAuthority(s) ==
    /\ Goto(s, "checked", "committed")
    /\ active' = job[s].request
    /\ activations' = activations \cup {job[s].request}
    /\ writer' = None
    /\ UNCHANGED <<intents, events, readiness, disk, repository, job, answers, bounds>>

\* The receipt of an earlier call answers, if it is still the active authority.
ReplayActivation(s) ==
    /\ Goto(s, "activate", "committed")
    /\ writer = None
    /\ LET r == job[s].request
       IN  Activatable(r, Command(job[s])) /\ Verified(r) /\ r \in activations /\ active = r
    /\ UNCHANGED <<rows, disk, locks, job, answers, bounds>>

StaleActivation(s) ==
    /\ pc[s] = "activate"
    /\ writer = None
    /\ LET r == job[s].request
       IN  Activatable(r, Command(job[s])) /\ Verified(r) /\ r \notin activations
    /\ active # Zero
    /\ Answer(s, "stale")
    /\ Leave(s)
    /\ UNCHANGED <<rows, disk, bounds>>

\* The files are reopened a last time before success is reported.
Acknowledge(s) ==
    /\ pc[s] = "committed"
    /\ Verified(job[s].request)
    /\ Answer(s, "activated")
    /\ Leave(s)
    /\ UNCHANGED <<rows, disk, bounds>>

-----------------------------------------------------------------------------
(* Failures.                                                               *)

\* Error paths undo a half made link; a transaction that is open is rolled back.
Unwind(s) ==
    /\ files' = IF pc[s] = "linked"
                THEN [files EXCEPT ![job[s].request][job[s].ordinal] = "exact"] ELSE files
    /\ ready' = IF pc[s] = "ready"
                THEN [ready EXCEPT ![job[s].request] = Sealed(@)] ELSE ready
    /\ Leave(s)
    /\ UNCHANGED <<rows, index, answers>>

\* A verification finds that a file of the generation is not what it was.
Raise(s) ==
    /\ pc[s] \notin {"idle", "preflight", "claim"}
    /\ LET r == job[s].request
       IN  \/ \E n \in Ordinals(r) : files[r][n] \in {"changed", "changing"}
           \/ index[r] \in {Changed, Changing}
    /\ Unwind(s)
    /\ UNCHANGED bounds

\* Any step may also fail by itself: a full disk, a busy database.
Fail(s) ==
    /\ pc[s] # "idle"
    /\ <<faults + 1, tampering>> \in Mishaps
    /\ faults' = faults + 1
    /\ Unwind(s)
    /\ UNCHANGED tampering

Crash(s) ==
    /\ pc[s] # "idle"
    /\ <<faults + 1, tampering>> \in Mishaps
    /\ faults' = faults + 1
    /\ Leave(s)
    /\ UNCHANGED <<rows, disk, answers, tampering>>

\* A finished file changes behind the repository's back; "changing" if that is
\* while the authority transaction is open.
Tamper(r) ==
    /\ <<faults, tampering + 1>> \in Mishaps
    /\ tampering' = tampering + 1
    /\ \/ /\ \E n \in Ordinals(r) :
              /\ files[r][n] = "exact"
              /\ files' = [files EXCEPT ![r][n] = IF writer = None THEN "changed" ELSE "changing"]
          /\ UNCHANGED index
       \/ /\ index[r] \in Images
          /\ index' = [index EXCEPT ![r] = IF writer = None THEN Changed ELSE Changing]
          /\ UNCHANGED files
    /\ UNCHANGED <<rows, ready, locks, pc, job, answers, faults>>

Step(s) ==
    \/ Preflight(s) \/ Claim(s) \/ StaleClaim(s) \/ Refuse(s) \/ Refresh(s)
    \/ Reopen(s) \/ LockForFile(s) \/ LinkFile(s) \/ UnlinkTemporary(s) \/ RecordPublication(s)
    \/ VerifyIndex(s) \/ LockForIndex(s) \/ AdoptIndex(s) \/ ResetIndex(s) \/ WriteIndex(s)
    \/ LinkReady(s) \/ UnlinkReady(s) \/ VerifyBuilt(s) \/ RecordIndex(s) \/ Guard(s)
    \/ UpdateAuthority(s) \/ RecheckEffects(s) \/ CommitAuthority(s) \/ ReplayActivation(s)
    \/ StaleActivation(s) \/ Acknowledge(s) \/ Raise(s)

Next ==
    \/ \E s \in Services :
        \/ \E c \in Calls : Begin(s, c)
        \/ Step(s) \/ Fail(s) \/ Crash(s)
    \/ \E r \in Requests : Tamper(r)

\* A call that runs goes on, and every call is made again and again.
Fairness ==
    \A s \in Services :
        WF_vars(Step(s)) /\ \A c \in Calls : SF_vars(Begin(s, c))

Spec == Init /\ [][Next]_vars /\ Fairness

-----------------------------------------------------------------------------
(* Properties.                                                             *)

InRepository == {"create", "linked", "build", "write", "written", "ready", "verify"}

InTransaction == {"updated", "checked"}

Places == InRepository \cup InTransaction \cup {"idle", "preflight", "claim", "refresh",
            "publish", "record", "recordIndex", "guard", "activate", "committed"}

\* The values of the variables, and that the two locks are held by the services
\* whose place in the call says so.
TypeOK ==
    /\ active \in Requests \cup {Zero}
    /\ intents \in [Requests -> Commands \cup {None}]
    /\ \A r \in Requests : events[r] \subseteq Ordinals(r)
    /\ readiness \in [Requests -> Images \cup {None}]
    /\ activations \subseteq Requests
    /\ \A r \in Requests :
        files[r] \in [Ordinals(r) -> {"absent", "linked", "exact", "changed", "changing"}]
    /\ index \in [Requests -> Images \cup {None, Torn, Changed, Changing}]
    /\ ready \in [Requests -> Receipts \cup {None}]
    /\ pc \in [Services -> Places]
    /\ \A s \in Services : pc[s] \in InRepository <=> repository = s
    /\ \A s \in Services : pc[s] \in InTransaction <=> writer = s

\* The active generation is complete and of one piece: its files are recorded and
\* published, its index is the sealed one, built with the configuration of the
\* command that activated it, and nothing rebuilds or unseals it afterwards,
\* whatever crashed and whoever worked on it at the same time.
ActiveIsComplete ==
    active # Zero =>
        /\ active \in activations
        /\ intents[active] # None
        /\ events[active] = Ordinals(active)
        /\ \A n \in Ordinals(active) : files[active][n] \notin {"absent", "linked"}
        /\ readiness[active] # None
        /\ readiness[active].config = intents[active].config
        /\ ready[active] = [image |-> readiness[active], links |-> 1]
        /\ index[active] \in {readiness[active], Changed, Changing}

\* A recorded receipt keeps its evidence: later calls neither reset the index nor
\* remove the READY file that the receipt names, nor leave a gap in the files.
ReceiptsKeepTheirEvidence ==
    \A r \in Requests :
        /\ readiness[r] # None =>
            /\ ready[r] = [image |-> readiness[r], links |-> 1]
            /\ index[r] \in {readiness[r], Changed, Changing}
            /\ events[r] = Ordinals(r)
        /\ events[r] = 0 .. Cardinality(events[r]) - 1
        /\ \A n \in events[r] : files[r][n] \notin {"absent", "linked"}

\* A file that changed before the authority transaction was opened, at whatever
\* moment after it was verified, is never activated.
TamperedIsNeverActivated ==
    [][active' # active =>
        /\ \A n \in Ordinals(active') : files[active'][n] # "changed"
        /\ index[active'] # Changed]_vars

\* What callers were told stays true: an acknowledged activation is that of the
\* active generation, by that operation, and a stale call never takes effect.
AnswersStayTrue ==
    \A a \in answers :
        LET effective == active = a.request /\ intents[a.request].op = a.op
        IN  IF a.result = "activated" THEN effective ELSE ~effective

\* Whatever crashes leave behind, and however calls repeat each other, a claimed
\* decision leads to an activation, unless finished files are tampered with.
ActivationConverges ==
    \A r \in Requests : intents[r] # None ~> active # Zero \/ tampering > 0

=============================================================================
