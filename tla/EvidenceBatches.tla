--------------------------- MODULE EvidenceBatches ---------------------------
(* The inference evidence repository, change_control/inference_repository.py: *)
(* a batch is a set of recorded outcomes, each of them several create-only    *)
(* files, and a batch manifest linked last, which is the commit marker.       *)
(* Writers hold the repository's exclusive lock; a crash drops the lock and   *)
(* leaves the files as they are, between any two system calls of a write.     *)
EXTENDS Integers, Sequences, FiniteSets

CONSTANTS
    Writers,      \* processes that persist batches
    Batches,      \* the batches they persist
    Members,      \* Members[b]: the outcomes of b, in the order of their ids
    Source,       \* Source[o]: the LIVE outcome a REPLAY outcome o repeats
    None,         \* no writer, no batch, no source
    MaxCrashes    \* bound: crashes of writers in one behaviour

Outcomes == DOMAIN Source

BatchesAssumption ==
    /\ None \notin Writers
    /\ Members \in [Batches -> Seq(Outcomes)]
    /\ \A o \in Outcomes :
         Source[o] # None => Source[o] \in Outcomes /\ Source[Source[o]] = None
    /\ MaxCrashes \in Nat

Evidence(kind, o) == [kind |-> kind, of |-> o]
Marker(b) == [kind |-> "batch", of |-> b]
OutcomeFiles(o) ==
    <<Evidence("artifact", o), Evidence("outcome", o), Evidence("binding", o)>>
Files == {Marker(b) : b \in Batches}
            \cup {Evidence(k, o) : k \in {"artifact", "outcome", "binding"}, o \in Outcomes}

\* Every receipt has a directory of its own, the other kinds share one each.
Directory(f) == IF f.kind = "binding" THEN f ELSE [kind |-> f.kind, of |-> None]
Directories == {Directory(f) : f \in Files}

VARIABLES
    file,      \* "absent", "linked" (a pending name still shares the inode), "exact"
    residue,   \* directories that hold a pending file linked nowhere
    lock,      \* the writer that holds the exclusive repository lock
    job,       \* what each writer is doing: its batch, the files left, its place
    minted,    \* batches for which some writer got its capability
    crashes

vars == <<file, residue, lock, job, minted, crashes>>
Idle == [batch |-> None, todo |-> <<>>, at |-> "idle"]

MemberSet(b) == {Members[b][i] : i \in DOMAIN Members[b]}
FilesOf(os) == UNION {{OutcomeFiles(o)[i] : i \in 1..3} : o \in os}
Replays(b) == {o \in MemberSet(b) : Source[o] # None}
Sources(b) == {Source[o] : o \in Replays(b)}

-----------------------------------------------------------------------------
(* Reading.  A file that still has its pending name is not one exact regular *)
(* inode, and reading it raises; an absent one reads as missing.             *)

Readable(fs, F) == \A f \in F : fs[f] # "linked"
Exact(fs, F) == \A f \in F : fs[f] = "exact"
Markers == {Marker(b) : b \in Batches}
Pending(fs, res, d) ==
    d \in res \/ \E f \in Files : Directory(f) = d /\ fs[f] = "linked"

\* The pending names of the directories in D are unlinked.
Cleaned(fs, D) ==
    [f \in Files |-> IF Directory(f) \in D /\ fs[f] = "linked" THEN "exact" ELSE fs[f]]
ReceiptDirectories(os) == {Evidence("binding", o) : o \in os}

\* Replay authority: the source is complete and in a committed batch.
SourceCommitted(fs, o) ==
    \E b \in Batches : fs[Marker(b)] = "exact" /\ Source[o] \in MemberSet(b)

ReplaysResolve(fs, b) ==
    Replays(b) # {} =>
        /\ Readable(fs, Markers)
        /\ \A o \in Replays(b) : Exact(fs, FilesOf({Source[o]})) /\ SourceCommitted(fs, o)

\* A batch reopens whole: marker, members, one unambiguous binding directory per
\* receipt, and the sources of its replays.
Resolvable(b) ==
    /\ file[Marker(b)] = "exact"
    /\ Exact(file, FilesOf(MemberSet(b)))
    /\ \A d \in ReceiptDirectories(MemberSet(b) \cup Sources(b)) : ~Pending(file, residue, d)
    /\ ReplaysResolve(file, b)

-----------------------------------------------------------------------------
(* persist_batch up to its first write, under the lock: the receipts'         *)
(* directories are cleaned, every file that will be written is read, the      *)
(* replay sources are resolved, and every committed marker is read.           *)

PreflightCleaningNothing(b) == {}
PreflightCleaning(b) == ReceiptDirectories(MemberSet(b))

Preflight(b) ==
    LET members == Cleaned(file, PreflightCleaning(b))
        reached == Readable(members, FilesOf(MemberSet(b))) /\ Readable(members, Markers)
        D == PreflightCleaning(b)
                \cup IF reached THEN ReceiptDirectories(Sources(b)) ELSE {}
    IN  [dirs |-> D,
         admitted |-> /\ reached
                      /\ ReplaysResolve(Cleaned(file, D), b)]

\* The files of b in the order in which they are created, three of each member:
\* the marker is last.
MemberFiles(b) ==
    [i \in 1..3 * Len(Members[b]) |->
        OutcomeFiles(Members[b][1 + (i - 1) \div 3])[1 + ((i - 1) % 3)]]
WriteOrderMarkerFirst(b) == <<Marker(b)>> \o MemberFiles(b)
WriteOrder(b) == Append(MemberFiles(b), Marker(b))

PersistBatch(w, b) ==
    /\ lock = None
    /\ job[w] = Idle
    /\ b \notin minted
    /\ file' = Cleaned(file, Preflight(b).dirs)
    /\ residue' = residue \ Preflight(b).dirs
    /\ \/ /\ Preflight(b).admitted
          /\ lock' = w
          /\ job' = [job EXCEPT ![w] = [batch |-> b, todo |-> WriteOrder(b), at |-> "next"]]
       \/ /\ ~Preflight(b).admitted
          /\ UNCHANGED <<lock, job>>
    /\ UNCHANGED <<minted, crashes>>

(* _create_only: the directory is cleaned, then an existing file is only     *)
(* synchronised; otherwise a pending file is written, linked and unlinked.   *)

ExistsNever(f) == FALSE
Exists(f) == file[f] # "absent"

WritePending(w) ==
    /\ job[w].at = "next" /\ job[w].todo # <<>>
    /\ LET f == Head(job[w].todo) IN
         /\ file' = Cleaned(file, {Directory(f)})
         /\ \/ /\ Exists(f)
               /\ residue' = residue \ {Directory(f)}
               /\ job' = [job EXCEPT ![w].todo = Tail(@)]
            \/ /\ ~Exists(f)
               /\ residue' = residue \cup {Directory(f)}
               /\ job' = [job EXCEPT ![w].at = "link"]
    /\ UNCHANGED <<lock, minted, crashes>>

LinkName(w) ==
    /\ job[w].at = "link"
    /\ LET f == Head(job[w].todo) IN
         /\ file' = [file EXCEPT ![f] = "linked"]
         /\ residue' = residue \ {Directory(f)}
    /\ job' = [job EXCEPT ![w].at = "unlink"]
    /\ UNCHANGED <<lock, minted, crashes>>

UnlinkPending(w) ==
    /\ job[w].at = "unlink"
    /\ file' = [file EXCEPT ![Head(job[w].todo)] = "exact"]
    /\ job' = [job EXCEPT ![w].at = "next", ![w].todo = Tail(@)]
    /\ UNCHANGED <<residue, lock, minted, crashes>>

\* The batch is reopened before its capability is minted.
Release == None

MintCapability(w) ==
    /\ job[w].at = "next" /\ job[w].todo = <<>>
    /\ minted' = IF Resolvable(job[w].batch) THEN minted \cup {job[w].batch} ELSE minted
    /\ job' = [job EXCEPT ![w] = Idle]
    /\ lock' = Release
    /\ UNCHANGED <<file, residue, crashes>>

\* A process dies: its lock is gone, its files stay.
Crash(w) ==
    /\ job[w] # Idle
    /\ crashes < MaxCrashes
    /\ crashes' = crashes + 1
    /\ job' = [job EXCEPT ![w] = Idle]
    /\ lock' = Release
    /\ UNCHANGED <<file, residue, minted>>

\* resolve_verified_batch of a committed batch: its commit marker is synchronised
\* again, which cleans the marker's directory, before a capability is minted.
ResolveVerifiedBatch(w, b) ==
    /\ lock = None
    /\ job[w] = Idle
    /\ b \notin minted
    /\ Resolvable(b)
    /\ file' = Cleaned(file, {Directory(Marker(b))})
    /\ residue' = residue \ {Directory(Marker(b))}
    /\ minted' = minted \cup {b}
    /\ UNCHANGED <<lock, job, crashes>>

Init ==
    /\ file = [f \in Files |-> "absent"]
    /\ residue = {}
    /\ lock = None
    /\ job = [w \in Writers |-> Idle]
    /\ minted = {}
    /\ crashes = 0

Step(w) ==
    \/ \E b \in Batches : PersistBatch(w, b) \/ ResolveVerifiedBatch(w, b)
    \/ WritePending(w) \/ LinkName(w) \/ UnlinkPending(w) \/ MintCapability(w)
Next == \E w \in Writers : Step(w) \/ Crash(w)
Spec == Init /\ [][Next]_vars

\* A writer that is alive goes on, and every caller retries what is not yet its.
Fairness ==
    /\ \A w \in Writers :
         WF_vars(WritePending(w) \/ LinkName(w) \/ UnlinkPending(w) \/ MintCapability(w))
    /\ \A b \in Batches : SF_vars(\E w \in Writers : PersistBatch(w, b))
LiveSpec == Spec /\ Fairness

-----------------------------------------------------------------------------
TypeOK ==
    /\ file \in [Files -> {"absent", "linked", "exact"}]
    /\ residue \subseteq Directories
    /\ lock \in Writers \cup {None}
    /\ \A w \in Writers : lock = w <=> job[w] # Idle
    /\ job \in [Writers -> [batch : Batches \cup {None}, todo : Seq(Files),
                            at : {"idle", "next", "link", "unlink"}]]
    /\ minted \subseteq Batches
    /\ crashes \in 0..MaxCrashes

\* The marker is the commit marker: from the moment its name exists, in whatever
\* state, every file of every member is there and exact, through any crash; and
\* evidence of a REPLAY is only ever written once its LIVE source is in a committed
\* batch (a source of the same uncommitted batch does not authorise it).  A batch
\* of LIVE outcomes whose capability was given out can be reopened ever after,
\* whatever a later writer of overlapping batches does or leaves behind.
CommittedIsComplete ==
    /\ \A b \in Batches : file[Marker(b)] # "absent" => Exact(file, FilesOf(MemberSet(b)))
    /\ \A o \in Outcomes :
        Source[o] # None /\ (\E f \in FilesOf({o}) : file[f] # "absent")
            => \E b \in Batches : /\ file[Marker(b)] = "exact"
                                 /\ Source[o] \in MemberSet(b)
    /\ \A b \in minted : Replays(b) = {} => Resolvable(b)

\* When the last crash left no doubly linked file outside the receipts'
\* directories, retries complete every batch.
Recoverable ==
    crashes = MaxCrashes
        /\ \A f \in Files : file[f] = "linked" => f.kind = "binding"
InterruptedBatchesComplete == Recoverable ~> (minted = Batches)

\* docs/decisions/0010: crash-left temporary files are removed under the lock, so
\* an exact retry of an interrupted batch completes.
RetriesComplete == <>(minted = Batches)
=============================================================================
