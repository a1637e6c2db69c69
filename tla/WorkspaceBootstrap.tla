-------------------------- MODULE WorkspaceBootstrap --------------------------
(* ChangeControlApplication.bootstrap, application.py: an existing vault and   *)
(* its index are adopted as managed generation zero.  The call is a saga over  *)
(* the workspace's files, which anybody may save at any time, and the tables   *)
(* of the authority store: intent, aggregate, inventory receipt, readiness     *)
(* receipt, authority, operator run, links.  Processes repeat their calls, die *)
(* anywhere and race each other; each table changes in transactions of one     *)
(* step, except the handoff, which asks the files while its own is open.       *)
EXTENDS Naturals, Sequences, SequencesExt

CONSTANTS
    Processes,    \* processes that call bootstrap
    Operations,   \* operation ids
    Contents,     \* contents of a file; an index of content c is exact for vault c
    Times,        \* what _now() may say
    MaxSaves,     \* bound: how often other programs write a file
    None

\* Rows of the tables: what a receipt, the head, or the authority row holds.
Receipts == [inventory : Contents, revision : {1}, time : Times]
Readinesses == [binds : Receipts, time : Times]
Aggregates == [op : Operations, content : Contents, revision : {1, 2}]
Authorities ==
    [op : Operations, receipt : Receipts, readiness : Readinesses, generation : {0, 1}]

BootstrapAssumption ==
    /\ MaxSaves \in Nat
    /\ None \notin Operations \cup Processes \cup Contents
    /\ None \notin Receipts \cup Readinesses \cup Aggregates \cup Authorities

VARIABLES
    file,         \* [bytes, stamp]; the stamp stands for inode, mtime and ctime
    intents,      \* claimed: [op, inventory]; the manifest's digest is in the inventory
    aggregate,    \* the aggregate's head and the operation that created it
    inventoried,  \* operation id -> its inventory receipt
    ready,        \* operation id -> its index readiness receipt
    authority,    \* the active-generation row
    run,          \* the operation id of the operator run
    links,        \* the kinds of its links, in order
    writer,       \* the process whose handoff has its transaction open
    call,         \* what each process does
    result,       \* what the last call of each process came to
    quiet,        \* processes during whose call nobody has saved a file
    seen          \* contents in force since a process staged the authority row

storeVars == <<intents, aggregate, inventoried, ready, authority, run, links>>
historyVars == <<quiet, seen>>
vars == <<file, storeVars, writer, call, result, historyVars>>

Evidence == <<"vault", "index">>
LinkKinds ==
    <<"bootstrap-intent", "workspace-inventory", "legacy-index-readiness",
      "generation-zero-authority">>
InForce == [f \in ToSet(Evidence) |-> file[f].bytes]
Exactly(c) == [f \in ToSet(Evidence) |-> c]

\* at: the next step; checks: guarded files still to be verified before it;
\* own...: the receipts that the call holds; pin: what its guards pinned.
Idle == [at |-> "idle", checks |-> <<>>, op |-> None, inventory |-> None,
         ownReceipt |-> None, ownReadiness |-> None,
         pin |-> [f \in ToSet(Evidence) |-> None]]

Init ==
    /\ file \in [ToSet(Evidence) -> [bytes : Contents, stamp : {0}]]
    /\ intents = {} /\ aggregate = None
    /\ inventoried = [op \in Operations |-> None]
    /\ ready = [op \in Operations |-> None]
    /\ authority = None /\ run = None /\ links = <<>> /\ writer = None
    /\ call = [p \in Processes |-> Idle]
    /\ result = [p \in Processes |-> "none"]
    /\ quiet = {} /\ seen = [p \in Processes |-> {}]

Goto(p, place) == call' = [call EXCEPT ![p].at = place]
Proceed == UNCHANGED <<result, historyVars, writer>>

\* The call ends, normally or not; an open transaction is rolled back.
End(p, what) ==
    /\ call' = [call EXCEPT ![p] = Idle]
    /\ result' = [result EXCEPT ![p] = what]
    /\ quiet' = quiet \ {p}
    /\ seen' = [seen EXCEPT ![p] = {}]
    /\ writer' = IF writer = p THEN None ELSE writer
Refuse(p) == End(p, "refused") /\ UNCHANGED storeVars

Ready(p, place) == call[p].at = place /\ call[p].checks = <<>>
\* A transaction of one step, under the directory's lock.
Transaction(p, place) == Ready(p, place) /\ writer = None

-----------------------------------------------------------------------------
(* The evidence: resolve, attest, pin, verify.                               *)

\* resolve_workspace_bootstrap walks the vault; nothing is held afterwards.
Resolve(p, op) ==
    /\ call[p] = Idle
    /\ call' = [call EXCEPT ![p] =
        [Idle EXCEPT !.at = "attest", !.op = op, !.inventory = file["vault"].bytes]]
    /\ result' = [result EXCEPT ![p] = "none"]
    /\ quiet' = quiet \cup {p}
    /\ UNCHANGED <<file, storeVars, writer, seen>>

\* attest_legacy_sqlite_index: the index is the one the manifest declares and has
\* exactly the rows of the notes that were read.
Attested(c) == file["index"].bytes = c
Attest(p) ==
    /\ Ready(p, "attest")
    /\ IF Attested(call[p].inventory)
       THEN Goto(p, "claim") /\ Proceed /\ UNCHANGED storeVars
       ELSE Refuse(p)
    /\ UNCHANGED <<file>>

\* open_workspace_bootstrap_evidence_guard resolves afresh and keeps descriptors.
PinWorkspace(p) ==
    /\ Ready(p, "pinWorkspace")
    /\ call' = [call EXCEPT ![p].pin["vault"] = file["vault"], ![p].at = "pinIndex"]
    /\ Proceed
    /\ UNCHANGED <<file, storeVars>>

\* open_legacy_sqlite_index_attestation_guard, for what was just resolved.
PinIndex(p) ==
    /\ Ready(p, "pinIndex")
    /\ IF Attested(call[p].pin["vault"].bytes)
       THEN /\ call' = [call EXCEPT ![p].pin["index"] = file["index"], ![p].at = "reopen"]
            /\ Proceed /\ UNCHANGED storeVars
       ELSE Refuse(p)
    /\ UNCHANGED <<file>>

\* One guard: every pinned descriptor and path is still the pinned inode, unwritten.
Unchanged(f, pin) == file[f] = pin
Verify(p) ==
    /\ call[p].checks # <<>>
    /\ LET f == Head(call[p].checks)
       IN  IF Unchanged(f, call[p].pin[f])
           THEN call' = [call EXCEPT ![p].checks = Tail(@)] /\ Proceed /\ UNCHANGED storeVars
           ELSE Refuse(p)
    /\ UNCHANGED <<file>>

\* Mutant of GuardedGoto: nothing is asked again once the row is staged.
GuardedOutside(p, place) ==
    call' = [call EXCEPT ![p].at = place,
        ![p].checks = IF place = "commit" THEN <<>> ELSE Evidence]
\* guard_evidence and the capability's own verifier, before the step place.
GuardedGoto(p, place) ==
    call' = [call EXCEPT ![p].at = place, ![p].checks = Evidence]

-----------------------------------------------------------------------------
(* The stages before the handoff, a transaction each.                        *)

\* claim_workspace_bootstrap: an operation owns one intent, an inventory one owner.
Claim(p) ==
    LET intent == [op |-> call[p].op, inventory |-> call[p].inventory]
        \* The state that comes back holds what earlier attempts have recorded.
        Go == call' = [call EXCEPT ![p].at = "create",
                  ![p].ownReceipt = inventoried[intent.op], ![p].ownReadiness = ready[intent.op]]
    IN  /\ Transaction(p, "claim")
        /\ \/ /\ intent \in intents
              /\ Go /\ Proceed /\ UNCHANGED storeVars
           \/ /\ \A i \in intents : i.op # intent.op /\ i.inventory # intent.inventory
              /\ intents' = intents \cup {intent}
              /\ Go /\ Proceed
              /\ UNCHANGED <<aggregate, inventoried, ready, authority, run, links>>
           \/ /\ intent \notin intents
              /\ \E i \in intents : i.op = intent.op \/ i.inventory = intent.inventory
              /\ Refuse(p)
        /\ UNCHANGED <<file>>

\* store.create under the derived operation id: a replay returns the first commit.
Create(p) ==
    /\ Transaction(p, "create")
    /\ \/ /\ aggregate = None
          /\ aggregate' = [op |-> call[p].op, content |-> call[p].inventory, revision |-> 1]
          /\ Goto(p, "inventory") /\ Proceed
          /\ UNCHANGED <<intents, inventoried, ready, authority, run, links>>
       \/ /\ aggregate # None /\ aggregate.op = call[p].op
          /\ Goto(p, "inventory") /\ Proceed /\ UNCHANGED storeVars
       \/ /\ aggregate # None /\ aggregate.op # call[p].op
          /\ Refuse(p)
    /\ UNCHANGED <<file>>

\* Mutant of SameInputs: the time is compared too.
SameReceipt(a, b) == a = b
\* Two receipts under one operation id are one if they differ in their time alone.
SameInputs(a, b) == [a EXCEPT !.time = b.time] = b

\* record_workspace_inventory: what is kept is the first receipt, and its binding to
\* a create-only commit that is still the head is checked when it is inserted.
RecordInventory(p, time) ==
    LET op == call[p].op
        receipt == IF call[p].ownReceipt # None THEN call[p].ownReceipt
                   ELSE [inventory |-> call[p].inventory, revision |-> 1, time |-> time]
    IN  /\ Transaction(p, "inventory")
        /\ call[p].ownReceipt # None => time = call[p].ownReceipt.time
        /\ \/ /\ inventoried[op] = None
              /\ aggregate.op = op /\ aggregate.revision = 1
              /\ inventoried' = [inventoried EXCEPT ![op] = receipt]
              /\ call' = [call EXCEPT ![p].ownReceipt = receipt, ![p].at = "readiness"]
              /\ Proceed
              /\ UNCHANGED <<intents, aggregate, ready, authority, run, links>>
           \/ /\ inventoried[op] # None /\ SameInputs(receipt, inventoried[op])
              /\ call' = [call EXCEPT ![p].ownReceipt = inventoried[op],
                             ![p].ownReadiness = ready[op], ![p].at = "readiness"]
              /\ Proceed /\ UNCHANGED storeVars
           \/ /\ IF inventoried[op] = None
                 THEN ~(aggregate.op = op /\ aggregate.revision = 1)
                 ELSE ~SameInputs(receipt, inventoried[op])
              /\ Refuse(p)
        /\ UNCHANGED <<file>>

\* record_legacy_index_readiness binds the inventory receipt that was kept.
RecordReadiness(p, time) ==
    LET op == call[p].op
        receipt == IF call[p].ownReadiness # None THEN call[p].ownReadiness
                   ELSE [binds |-> call[p].ownReceipt, time |-> time]
    IN  /\ Transaction(p, "readiness")
        /\ call[p].ownReadiness # None => time = call[p].ownReadiness.time
        /\ \/ /\ ready[op] = None /\ receipt.binds = inventoried[op]
              /\ ready' = [ready EXCEPT ![op] = receipt]
              /\ Goto(p, "pinWorkspace") /\ Proceed
              /\ UNCHANGED <<intents, aggregate, inventoried, authority, run, links>>
           \/ /\ ready[op] # None /\ SameInputs(receipt, ready[op])
              /\ Goto(p, "pinWorkspace") /\ Proceed /\ UNCHANGED storeVars
           \/ /\ IF ready[op] = None THEN receipt.binds # inventoried[op]
                 ELSE ~SameInputs(receipt, ready[op])
              /\ Refuse(p)
        /\ UNCHANGED <<file>>

-----------------------------------------------------------------------------
(* The handoff, with the files pinned.                                       *)

Candidate(p) ==
    [op |-> call[p].op, receipt |-> call[p].ownReceipt, readiness |-> call[p].ownReadiness,
     generation |-> 0]

\* get_workspace_bootstrap, load and verify_workspace_bootstrap_evidence: the state
\* is complete, and what was resolved again is what the rows were made for.
Reopen(p) ==
    LET op == call[p].op
        complete == inventoried[op] # None /\ ready[op] # None
    IN  /\ Transaction(p, "reopen")
        /\ IF /\ complete
              /\ call[p].pin["vault"].bytes = call[p].inventory
              /\ aggregate.content = call[p].inventory /\ aggregate.revision = 1
           THEN /\ call' = [call EXCEPT ![p].at = "handoff", ![p].checks = Evidence,
                       ![p].ownReceipt = inventoried[op], ![p].ownReadiness = ready[op]]
                /\ Proceed /\ UNCHANGED storeVars
           ELSE Refuse(p)
        /\ UNCHANGED <<file>>

\* initialize_workspace_generation_zero takes the lock and asks the guards first.
BeginHandoff(p) ==
    /\ Transaction(p, "handoff")
    /\ IF inventoried[call[p].op] = call[p].ownReceipt /\ ready[call[p].op] = call[p].ownReadiness
       THEN writer' = p /\ GuardedGoto(p, "stage") /\ UNCHANGED <<storeVars, result, historyVars>>
       ELSE Refuse(p)
    /\ UNCHANGED <<file>>

\* The row is written into the open transaction, or is there from an earlier call.
Stage(p) ==
    /\ Ready(p, "stage")
    /\ \/ /\ authority \in {None, Candidate(p)}
          /\ GuardedGoto(p, "commit")
          /\ seen' = [seen EXCEPT ![p] = {InForce}]
          /\ UNCHANGED <<storeVars, result, quiet, writer>>
       \/ /\ authority \notin {None, Candidate(p)}
          /\ Refuse(p)
    /\ UNCHANGED <<file>>

\* The guards are asked once more when the commit is acknowledged.
Commit(p) ==
    /\ Ready(p, "commit")
    /\ authority' = Candidate(p) /\ writer' = None
    /\ GuardedGoto(p, "run")
    /\ seen' = [seen EXCEPT ![p] = {}]
    /\ UNCHANGED <<file, intents, aggregate, inventoried, ready, run, links, result, quiet>>

\* What was pinned stays open, and is not asked any more.
Released(p) ==
    call' = [call EXCEPT ![p].at = LinkKinds[1], ![p].pin = Idle.pin]

\* create_operator_run replays, or needs generation zero to be the active one still.
CreateRun(p) ==
    /\ Transaction(p, "run")
    /\ \/ /\ run = call[p].op
          /\ Released(p) /\ Proceed /\ UNCHANGED storeVars
       \/ /\ run = None /\ authority = Candidate(p)
          /\ run' = call[p].op
          /\ Released(p) /\ Proceed
          /\ UNCHANGED <<intents, aggregate, inventoried, ready, authority, links>>
       \/ /\ run # call[p].op
          /\ ~(run = None /\ authority = Candidate(p))
          /\ Refuse(p)
    /\ UNCHANGED <<file>>

\* record_operator_run_link replays or appends; after the last one the links of the
\* run must be these four.
Link(p) ==
    \E n \in DOMAIN LinkKinds :
        LET recorded == IF Contains(links, LinkKinds[n]) THEN links
                        ELSE Append(links, LinkKinds[n])
        IN  /\ Transaction(p, LinkKinds[n])
            /\ links' = recorded
            /\ IF n < Len(LinkKinds)
               THEN Goto(p, LinkKinds[n + 1]) /\ Proceed
               ELSE End(p, IF recorded = LinkKinds THEN "answered" ELSE "refused")
            /\ UNCHANGED <<file, intents, aggregate, inventoried, ready, authority, run>>

-----------------------------------------------------------------------------
(* What else happens.                                                        *)

\* The process dies or is interrupted, or another handle keeps the directory's lock
\* for longer than the call waits.
Fail(p) ==
    /\ call[p] # Idle
    /\ End(p, "none")
    /\ UNCHANGED <<file, storeVars>>

\* An editor saves a note, or a sync the index, in place.
Save(f, c) ==
    /\ file["vault"].stamp + file["index"].stamp < MaxSaves
    /\ file' = [file EXCEPT ![f] = [bytes |-> c, stamp |-> @.stamp + 1]]
    /\ quiet' = {}
    /\ seen' = [p \in Processes |->
                  IF seen[p] = {} THEN {} ELSE seen[p] \cup {[InForce EXCEPT ![f] = c]}]
    /\ UNCHANGED <<storeVars, writer, call, result>>

\* The run goes on: its start links the source it took in, commits a proposal on the
\* aggregate, and an accepted revision becomes generation one.
StartChange ==
    /\ writer = None /\ links = LinkKinds
    /\ links' = Append(links, "incoming-source")
    /\ UNCHANGED <<file, intents, aggregate, inventoried, ready, authority, run, writer, call,
                   result, historyVars>>
Propose ==
    /\ writer = None /\ Contains(links, "incoming-source") /\ aggregate.revision = 1
    /\ aggregate' = [aggregate EXCEPT !.revision = 2]
    /\ UNCHANGED <<file, intents, inventoried, ready, authority, run, links, writer, call, result,
                   historyVars>>
Activate ==
    /\ writer = None /\ aggregate # None /\ aggregate.revision = 2 /\ authority.generation = 0
    /\ authority' = [authority EXCEPT !.generation = 1]
    /\ UNCHANGED <<file, intents, aggregate, inventoried, ready, run, links, writer, call,
                   result, historyVars>>

Next ==
    \/ \E p \in Processes :
          \/ \E op \in Operations : Resolve(p, op)
          \/ \E time \in Times : RecordInventory(p, time) \/ RecordReadiness(p, time)
          \/ Attest(p) \/ Claim(p) \/ Create(p) \/ PinWorkspace(p) \/ PinIndex(p) \/ Verify(p)
          \/ Reopen(p) \/ BeginHandoff(p) \/ Stage(p) \/ Commit(p) \/ CreateRun(p) \/ Link(p)
          \/ Fail(p)
    \/ \E f \in ToSet(Evidence), c \in Contents : Save(f, c)
    \/ StartChange \/ Propose \/ Activate

Spec == Init /\ [][Next]_vars

-----------------------------------------------------------------------------
(* Properties.                                                               *)

\* The rows of the bootstrap have the shape of their tables.
TypeOK ==
    /\ intents \subseteq [op : Operations, inventory : Contents]
    /\ aggregate \in Aggregates \cup {None}
    /\ inventoried \in [Operations -> Receipts \cup {None}]
    /\ ready \in [Operations -> Readinesses \cup {None}]
    /\ authority \in Authorities \cup {None}
    /\ run \in Operations \cup {None}
    /\ writer \in Processes \cup {None}
    /\ result \in [Processes -> {"none", "refused", "answered"}]

Became(p, what) == call[p] # Idle /\ call'[p] = Idle /\ result'[p] = what

\* Decision 0016, "Initialize generic generation zero only after exact evidence": the
\* vault and the index were the adopted ones together, at one moment between the
\* staging of the authority row and its commit, although they are asked one after the
\* other while anybody may save either.
AuthorityHadItsEvidence ==
    [][\A p \in Processes : authority = None /\ authority' # None /\ writer = p =>
          Exactly(call[p].inventory) \in seen[p]]_vars

\* What the rows say is the call's own and can be adopted again.
ExactRetry(p) ==
    /\ p \in quiet /\ InForce = Exactly(call[p].inventory)
    /\ [op |-> call[p].op, inventory |-> call[p].inventory] \in intents
    /\ aggregate = None \/ (aggregate.op = call[p].op /\ aggregate.revision = 1)
    /\ authority = None \/ authority.generation = 0

\* Decision 0016, "Recover by replaying evidence": whatever earlier calls, in this
\* process or a racing one, left behind, a repeated call over unchanged evidence is not
\* refused before the run has further links, its answer holds the receipts that are
\* durable, and these never change.
ExactRetriesConverge ==
    [][/\ \A p \in Processes :
             /\ Became(p, "answered") =>
                  /\ call[p].ownReceipt = inventoried[call[p].op]
                  /\ call[p].ownReadiness = ready[call[p].op]
             /\ Became(p, "refused") => ~(ExactRetry(p) /\ IsPrefix(links, LinkKinds))
       /\ \A op \in Operations :
             /\ inventoried[op] # None => inventoried'[op] = inventoried[op]
             /\ ready[op] # None => ready'[op] = ready[op]]_vars

=============================================================================
