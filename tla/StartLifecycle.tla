---------------------------- MODULE StartLifecycle ----------------------------
(* start_change, application.py, and run_start_change_lifecycle,              *)
(* application_start_lifecycle.py, in LIVE mode: one bootstrapped run is       *)
(* carried from its source to a temporal review or to a mechanical no-change.  *)
(* Every step leaves a row, a file or a link; there is no transaction over     *)
(* them.  Callers repeat their calls, die anywhere, and use several operation  *)
(* ids.  Provider calls and evidence batches are those of ProviderCalls and    *)
(* EvidenceBatches, here one step each.                                        *)
EXTENDS Integers, FiniteSets

CONSTANTS
    Callers,      \* processes that call start_change
    Operations,   \* operation ids
    Calls,        \* the calls they make: [op, input], input standing for the request
    Times,        \* what _now() may say to each caller
    Refusals,     \* the steps of Judged after which a run may be refused
    None,
    MaxCrashes    \* bound: deaths and raised errors in one behaviour


VARIABLES
    claims,       \* SQLite: operation id -> the request and time that claimed it
    byOperation,  \* start-commands/by-operation/: the command of an operation id
    byRun,        \* start-commands/by-run/: the command that owns the run
    done,         \* durable steps of the run -> the operation id they are derived from
    half,         \* create-only files that have two names
    journal,      \* provider calls, by operation and stage
    verdict,      \* what the classification said, once it is recorded
    unfit,        \* the step after which the lifecycle refuses this run, if any
    call,         \* what each caller does: [at, midway, command]
    result,       \* what the last call of each caller came to
    crashes

vars == <<claims, byOperation, byRun, done, half, journal, verdict, unfit, call, result,
    crashes>>
files == <<claims, byOperation, byRun, done, half, journal, verdict>>

Verdicts == {"supersedes", "unchanged"}
Asking == {"extract", "baseline", "classify", "assess"}
Indexes == {"INCOMING", "BASELINE", "CLASSIFICATION", "DEPENDENCY", "TEMPORAL"}

\* The order of run_start_change_lifecycle; a name is the file, row or link that
\* the step leaves.  The branch is chosen by the recorded classification.
Straight ==
    <<"extract", "bundle", "INCOMING", "incomingRow", "suiteRow", "incomingLink",
      "suiteLink", "baseline", "complete", "BASELINE", "baselineRow", "baselineLink",
      "seed", "classify", "classificationBatch", "CLASSIFICATION">>
PublicationIndexLast ==
    <<"assess", "dependencyBatch", "DEPENDENCY", "manifest", "commit", "TEMPORAL",
      "proposalLink", "review", "reviewLink">>
Publication == <<"assess", "dependencyBatch", "DEPENDENCY", "manifest", "TEMPORAL",
    "commit", "proposalLink", "review", "reviewLink">>
NoChange == <<"noChange", "noChangeLink">>

\* Steps after which the lifecycle judges what it has so far, and raises if it is
\* not what it can go on with.  Source, workspace, settings and recorded answers are
\* the same at every retry, and so is the judgement:
\*   suiteLink       the embedding runtime is not that of generation zero;
\*   baselineLink    the claims of the workspace are no inventory to analyse;
\*   seed            the limits of discovery and of the classification workload;
\*   classify, assess    the answer, recorded as it came, breaks its contract;
\*   CLASSIFICATION  no single predecessor, or the limits of the dependency workload;
\*   DEPENDENCY      no support by the predecessor, a rationale that is too long,
\*                   dependencies that contradict, evidence that is too large.
Judged == {"suiteLink", "baselineLink", "seed", "classify", "CLASSIFICATION", "assess",
           "DEPENDENCY"}

Elements(s) == {s[i] : i \in DOMAIN s}
Steps == Elements(Straight) \cup Elements(Publication) \cup Elements(NoChange)
Durable == Steps \ Asking
Files == Indexes \cup {"noChange"}

Commands ==
    [op : Operations, input : {c.input : c \in Calls}, time : UNION {Times[p] : p \in Callers}]

\* An operation id is no name of a file that is not its own.
StartAssumption ==
    /\ MaxCrashes \in Nat
    /\ Calls # {} /\ \A c \in Calls : c.op \in Operations
    /\ Refusals \subseteq Judged
    /\ None \notin Operations \cup Commands \cup Verdicts \cup Judged
    /\ Operations \cap (Files \cup {"byRun"}) = {}

Successor(s, step) ==
    IF step = s[Cardinality(DOMAIN s)] THEN "returned"
    ELSE s[1 + CHOOSE i \in DOMAIN s : s[i] = step]
Following(step) ==
    CASE step = "CLASSIFICATION" -> IF verdict = "unchanged" THEN "noChange" ELSE "assess"
      [] step \in Elements(Publication) -> Successor(Publication, step)
      [] step \in Elements(NoChange) -> Successor(NoChange, step)
      [] OTHER -> Successor(Straight, step)

\* A refused run goes no further than the step that its refusal follows.
After(step) == IF step = unfit THEN "raised" ELSE Following(step)

\* What the callee reopens and refuses to do without.
Requires(step) ==
    CASE step \in {"INCOMING", "seed"} -> {"bundle"}
      [] step = "incomingRow" -> {"bundle", "INCOMING"}
      [] step = "incomingLink" -> {"incomingRow", "INCOMING"}
      [] step = "suiteLink" -> {"suiteRow"}
      [] step = "BASELINE" -> {"complete"}
      [] step = "baselineRow" -> {"incomingRow", "suiteRow", "complete", "BASELINE"}
      [] step = "baselineLink" -> {"baselineRow", "BASELINE"}
      [] step = "CLASSIFICATION" -> {"classificationBatch"}
      [] step = "noChange" -> {"seed", "classificationBatch", "incomingRow", "suiteRow"}
      [] step = "noChangeLink" -> {"noChange", "CLASSIFICATION"}
      [] step = "DEPENDENCY" -> {"dependencyBatch"}
      [] step = "TEMPORAL" -> {"manifest"}
      [] step = "commit" -> {"seed", "classificationBatch", "dependencyBatch", "manifest"}
      [] step = "proposalLink" -> {"commit", "TEMPORAL"}
      [] step = "review" -> {"commit"}
      [] step = "reviewLink" -> {"review", "proposalLink"}
      [] OTHER -> {}

Has(steps) == \A s \in steps : done[s] # None /\ s \notin half
Revision == 1 + Cardinality({s \in {"seed", "commit"} : done[s] # None})

Idle == [at |-> "idle", midway |-> FALSE, command |-> None]
Goto(p, place) == call' = [call EXCEPT ![p].at = place, ![p].midway = FALSE]
End(p, what) ==
    /\ call' = [call EXCEPT ![p] = Idle]
    /\ result' = [result EXCEPT ![p] = what]
Op(p) == call[p].command.op
SameRequest(c, d) == c.op = d.op /\ c.input = d.input

Outside == {"idle", "begun", "claimed"}

\* run_lifecycle_lock: an exclusive flock on the run's own inode.
LockFree == \A p \in Callers : call[p].at \in Outside

-----------------------------------------------------------------------------
(* start_change *)

\* The command repository is asked for the operation before anything is written.
Begin(p, c, time) ==
    /\ call[p].at = "idle"
    /\ LET command == [op |-> c.op, input |-> c.input, time |-> time]
           owner == byOperation[c.op]
       IN  IF c.op \in half \/ (owner # None /\ ~SameRequest(owner, command))
           THEN End(p, "refused")
           ELSE /\ call' = [call EXCEPT ![p] = [Idle EXCEPT !.at = "begun", !.command = command]]
                /\ UNCHANGED result
    /\ UNCHANGED <<claims, byOperation, byRun, done, half, journal, verdict, unfit, crashes>>

\* claim_application_operation; a claim made earlier lends the command its time.
ClaimTimeOwn(command) == command.time
ClaimTime(command) ==
    IF claims[command.op] = None THEN command.time ELSE claims[command.op].time
ClaimOperation(p) ==
    LET command == call[p].command
    IN  /\ call[p].at = "begun"
        /\ IF claims[Op(p)] # None /\ ~SameRequest(claims[Op(p)], command)
           THEN End(p, "refused") /\ UNCHANGED claims
           ELSE /\ claims' = [claims EXCEPT ![Op(p)] = IF @ = None THEN command ELSE @]
                /\ call' = [call EXCEPT ![p].at = "claimed",
                                        ![p].command.time = ClaimTime(command)]
                /\ UNCHANGED result
        /\ UNCHANGED <<byOperation, byRun, done, half, journal, verdict, unfit, crashes>>

\* Inside the run's lock, ApplicationStartCommandRepository.claim compares the
\* command with the owners of its operation and of the run.
Lock(p) ==
    LET owners == {byOperation[Op(p)], byRun} \ {None}
    IN  /\ call[p].at = "claimed" /\ LockFree
        /\ IF \/ half \cap {Op(p), "byRun"} # {}
              \/ \E o \in owners : ~SameRequest(o, call[p].command)
           THEN End(p, "refused")
           ELSE Goto(p, "operationFile") /\ UNCHANGED result
        /\ UNCHANGED <<files, unfit, crashes>>

\* Creating a file in by-operation/ first cleans up what others left there.
LinkOperationFile(p) ==
    /\ call[p].at = "operationFile" /\ ~call[p].midway
    /\ IF byOperation[Op(p)] # None
       THEN Goto(p, "runFile") /\ UNCHANGED <<byOperation, half>>
       ELSE /\ byOperation' = [byOperation EXCEPT ![Op(p)] = call[p].command]
            /\ half' = (half \ Operations) \cup {Op(p)}
            /\ call' = [call EXCEPT ![p].midway = TRUE]
    /\ UNCHANGED <<claims, byRun, done, journal, verdict, result, unfit, crashes>>

UnlinkOperationFile(p) ==
    /\ call[p].at = "operationFile" /\ call[p].midway
    /\ half' = half \ {Op(p)}
    /\ Goto(p, "runFile")
    /\ UNCHANGED <<claims, byOperation, byRun, done, journal, verdict, result, unfit, crashes>>

LinkRunFile(p) ==
    /\ call[p].at = "runFile" /\ ~call[p].midway
    /\ IF byRun # None
       THEN Goto(p, "owned") /\ UNCHANGED <<byRun, half>>
       ELSE /\ byRun' = call[p].command
            /\ half' = half \cup {"byRun"}
            /\ call' = [call EXCEPT ![p].midway = TRUE]
    /\ UNCHANGED <<claims, byOperation, done, journal, verdict, result, unfit, crashes>>

UnlinkRunFile(p) ==
    /\ call[p].at = "runFile" /\ call[p].midway
    /\ half' = half \ {"byRun"}
    /\ Goto(p, "owned")
    /\ UNCHANGED <<claims, byOperation, byRun, done, journal, verdict, result, unfit, crashes>>

-----------------------------------------------------------------------------
(* run_start_change_lifecycle *)

\* What an earlier call finished is picked up without asking any provider: the
\* receipt of a mechanical no-change, and a temporal proposal that is committed.
\* Evidence without its commit is reproduced by the ordinary path.
Resume(p) ==
    /\ call[p].at = "owned"
    /\ IF \/ byOperation[Op(p)] # byRun
          \/ half \cap {"noChange", "TEMPORAL"} # {}
       THEN End(p, "refused")
       ELSE /\ Goto(p, IF done["noChange"] # None THEN "noChangeLink"
                       ELSE IF Has({"TEMPORAL", "commit"}) THEN "proposalLink"
                       ELSE "extract")
            /\ UNCHANGED result
    /\ UNCHANGED <<files, unfit, crashes>>

\* A stage that is indexed, or a published baseline, is reopened and asks nobody.
Reopens(step) ==
    CASE step = "baseline" -> done["complete"] # None
      [] step = "classify" -> done["CLASSIFICATION"] # None
      [] step = "assess" -> done["DEPENDENCY"] # None
      [] OTHER -> FALSE
Reopened(step) ==
    CASE step = "baseline" -> "complete" [] step = "classify" -> "CLASSIFICATION"
      [] OTHER -> "DEPENDENCY"

Ask(p) ==
    LET step == call[p].at
    IN  /\ step \in Asking /\ ~call[p].midway
        /\ IF Reopens(step)
           THEN /\ IF Has({Reopened(step)})
                   THEN Goto(p, After(Reopened(step))) /\ UNCHANGED result
                   ELSE End(p, "refused")
                /\ UNCHANGED journal
           ELSE \/ /\ journal[Op(p)][step] = "none"
                   /\ journal' = [journal EXCEPT ![Op(p)][step] = "claimed"]
                   /\ call' = [call EXCEPT ![p].midway = TRUE]
                   /\ UNCHANGED result
                \/ /\ journal[Op(p)][step] = "recorded"
                   /\ Goto(p, After(step))
                   /\ UNCHANGED <<journal, result>>
                \/ /\ journal[Op(p)][step] = "claimed"
                   /\ End(p, "indeterminate")
                   /\ UNCHANGED journal
        /\ UNCHANGED <<claims, byOperation, byRun, done, half, verdict, unfit, crashes>>

Answer(p, v) ==
    LET step == call[p].at
    IN  /\ step \in Asking /\ call[p].midway
        /\ journal' = [journal EXCEPT ![Op(p)][step] = "recorded"]
        /\ verdict' = IF step = "classify" THEN v ELSE verdict
        /\ Goto(p, After(step))
        /\ UNCHANGED <<claims, byOperation, byRun, done, half, result, unfit, crashes>>

\* The aggregate moves from revision 1 to 2 to 3 by compare and swap; an
\* analysis is not even replayed on a later revision.
HeadAllows(step) ==
    CASE step = "seed" -> Revision = IF done[step] = None THEN 1 ELSE 2
      [] step = "commit" -> Revision = IF done[step] = None THEN 2 ELSE 3
      [] OTHER -> TRUE

\* One durable step: a new row, link or file, or the exact replay of it.
Perform(p) ==
    LET step == call[p].at
    IN  /\ step \in Durable /\ ~call[p].midway
        /\ IF \/ ~Has(Requires(step)) \/ step \in half \/ ~HeadAllows(step)
              \/ done[step] \notin {None, Op(p)}
           THEN End(p, "refused") /\ UNCHANGED <<done, half>>
           ELSE /\ done' = [done EXCEPT ![step] = Op(p)]
                /\ IF step \in Files /\ done[step] = None
                   THEN /\ half' = half \cup {step}
                        /\ call' = [call EXCEPT ![p].midway = TRUE]
                   ELSE Goto(p, After(step)) /\ UNCHANGED half
                /\ UNCHANGED result
        /\ UNCHANGED <<claims, byOperation, byRun, journal, verdict, unfit, crashes>>

Unlink(p) ==
    /\ call[p].at \in Files /\ call[p].midway
    /\ half' = half \ {call[p].at}
    /\ Goto(p, After(call[p].at))
    /\ UNCHANGED <<claims, byOperation, byRun, done, journal, verdict, result, unfit, crashes>>

\* The status that is returned must show the phase that the lifecycle reached.
Return(p) ==
    /\ call[p].at \in {"returned", "raised"}
    /\ End(p, IF call[p].at = "raised" THEN "raised"
              ELSE IF done["noChangeLink"] # None THEN "completed" ELSE "awaiting")
    /\ UNCHANGED <<files, unfit, crashes>>

\* The process dies, or any of the calls it makes raises: a provider's answer to
\* "extract" or "baseline" that breaks its contract is not recorded at all.
Crash(p) ==
    /\ call[p].at # "idle" /\ crashes < MaxCrashes
    /\ crashes' = crashes + 1
    /\ End(p, "died")
    /\ UNCHANGED <<files, unfit>>

-----------------------------------------------------------------------------
Init ==
    /\ claims = [o \in Operations |-> None]
    /\ byOperation = [o \in Operations |-> None]
    /\ byRun = None
    /\ done = [s \in Durable |-> None]
    /\ half = {}
    /\ journal = [o \in Operations |-> [s \in Asking |-> "none"]]
    /\ verdict = None
    /\ unfit \in Refusals \cup {None}
    /\ call = [p \in Callers |-> Idle]
    /\ result = [p \in Callers |-> "none"]
    /\ crashes = 0

Proceed(p) ==
    \/ ClaimOperation(p) \/ Lock(p)
    \/ LinkOperationFile(p) \/ UnlinkOperationFile(p) \/ LinkRunFile(p) \/ UnlinkRunFile(p)
    \/ Resume(p) \/ Ask(p) \/ (\E v \in Verdicts : Answer(p, v))
    \/ Perform(p) \/ Unlink(p) \/ Return(p)

Next ==
    \E p \in Callers :
        \/ \E c \in Calls, time \in Times[p] : Begin(p, c, time)
        \/ Proceed(p) \/ Crash(p)

Spec == Init /\ [][Next]_vars

\* A call that runs goes on, and each caller repeats each of its calls for ever.
Fairness ==
    \A p \in Callers :
        /\ WF_vars(Proceed(p))
        /\ \A c \in Calls : SF_vars(\E time \in Times[p] : Begin(p, c, time))

LiveSpec == Spec /\ Fairness

-----------------------------------------------------------------------------
(* Properties.                                                             *)

Places == Outside \cup Steps \cup {"operationFile", "runFile", "owned", "returned", "raised"}

\* The values of the variables, and that one caller at most is inside the lock.
TypeOK ==
    /\ claims \in [Operations -> Commands \cup {None}]
    /\ byOperation \in [Operations -> Commands \cup {None}]
    /\ byRun \in Commands \cup {None}
    /\ done \in [Durable -> Operations \cup {None}]
    /\ half \subseteq Files \cup Operations \cup {"byRun"}
    /\ journal \in [Operations -> [Asking -> {"none", "claimed", "recorded"}]]
    /\ verdict \in Verdicts \cup {None}
    /\ unfit \in Refusals \cup {None}
    /\ \A p \in Callers : call[p].at \in Places /\ call[p].midway \in BOOLEAN
    /\ Cardinality({p \in Callers : call[p].at \notin Outside}) <= 1

Claimed(o, s) == journal[o][s] = "claimed"
Pending(o, s) == \E p \in Callers : call[p].at = s /\ call[p].midway /\ Op(p) = o
LostCall == \E o \in Operations, s \in Asking : Claimed(o, s) /\ ~Pending(o, s)

\* A caller is told that a provider call is indeterminate only if one really is:
\* the process that made it is gone, and nobody is waiting for its answer.
IndeterminateMeansLost ==
    \A p \in Callers : result[p] = "indeterminate" => LostCall

\* One operation id owns the run, and the run has one outcome: whoever races with
\* whom, and wherever they die, no row, file, link or paid call of the run is another
\* operation's; and the aggregate is at revision 3 only when a retry can find out, by
\* the temporal index from which it picks up the commit; and what callers are told of
\* lost calls is so.
OneOutcomePerRun ==
    /\ \A s \in Durable : done[s] # None => byRun # None /\ done[s] = byRun.op
    /\ \A o \in Operations, s \in Asking :
        journal[o][s] # "none" => byRun # None /\ byRun.op = o
    /\ done["commit"] # None => done["TEMPORAL"] # None /\ "TEMPORAL" \notin half
    /\ done["noChange"] # None => done["manifest"] = None
    /\ IndeterminateMeansLost

Linking(p) == IF call[p].at = "operationFile" THEN Op(p)
              ELSE IF call[p].at = "runFile" THEN "byRun" ELSE call[p].at
LostLink == \E f \in half : \A p \in Callers : ~(call[p].midway /\ Linking(p) = f)
Settled == done["noChangeLink"] # None \/ done["reviewLink"] # None

\* The lifecycle itself has refused the run, and a caller was told so.
Refused == unfit # None /\ \E p \in Callers : result[p] = "raised"

\* A run that has an owner gets its outcome by exact retries alone, wherever they
\* die, unless a provider call or the second name of a file was lost with a
\* process, or the run is one that the lifecycle refuses: then a caller is told.
StartsSettle == byRun # None ~> Settled \/ LostCall \/ LostLink \/ Refused

=============================================================================
