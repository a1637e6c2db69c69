---------------------------- MODULE QuerySessions ----------------------------
(* A query over an adopted workspace: resolve_query_generation of              *)
(* application.py and the session it returns, query_generation.py.  The files  *)
(* are pinned, the authority store is opened for reading, and a generation is  *)
(* selected: zero is served from the workspace's own index, one from the       *)
(* managed index.  Search then reads, as often as it likes, while anybody may  *)
(* save any of the files; what it found is shown only if everything that was   *)
(* pinned is verified once more when the session closes.                       *)
EXTENDS Naturals, Sequences, SequencesExt

CONSTANTS
    Queries,    \* processes that query
    Contents,   \* contents of a file; an index of content c is exact for vault c
    Adopted,    \* the content that was adopted, and that generation one is built on
    MaxSaves,   \* bound: how often other programs write a file
    None

QueryAssumption == Adopted \in Contents /\ None \notin Contents /\ MaxSaves \in Nat

VARIABLES
    file,       \* [bytes, stamp]; the stamp stands for inode, mtime and ctime
    receipts,   \* whether the bootstrap's rows are complete
    active,     \* the active generation's number
    session,    \* what each query does
    result,     \* what its last session came to
    saves

vars == <<file, receipts, active, session, result, saves>>

Files == {"vault", "index", "managed"}
Selectors == {"auto", "active", "legacy"}

\* at: the next step; checks: pinned files still to be verified before it; serve: the
\* file that is searched; base: the generation that was active; exact: all that the
\* search has read was what the receipts say.
Closed == [at |-> "closed", checks |-> <<>>, pin |-> [f \in Files |-> None],
           selector |-> "auto", serve |-> "index", base |-> 0, exact |-> TRUE]

Init ==
    /\ file \in [Files -> [bytes : Contents, stamp : {0}]]
    /\ receipts \in BOOLEAN
    /\ active = 0
    /\ session = [q \in Queries |-> Closed]
    /\ result = [q \in Queries |-> "none"]
    /\ saves = 0

Ready(q, place) == session[q].at = place /\ session[q].checks = <<>>
Goto(q, place, checks) ==
    session' = [session EXCEPT ![q].at = place, ![q].checks = checks]
Finish(q, what) ==
    /\ session' = [session EXCEPT ![q] = Closed]
    /\ result' = [result EXCEPT ![q] = what]
environment == <<file, receipts, active, saves>>

\* A read-only store keeps the directory's lock shared until it is closed.
Holders == {q \in Queries : session[q].at \in {"lookup", "select", "query", "answer"}}

-----------------------------------------------------------------------------
(* Opening.                                                                  *)

\* open_workspace_bootstrap_evidence_guard resolves the vault and keeps descriptors.
Open(q, selector) ==
    /\ session[q] = Closed
    /\ session' = [session EXCEPT ![q].at = "index", ![q].selector = selector,
                       ![q].pin["vault"] = file["vault"]]
    /\ result' = [result EXCEPT ![q] = "none"]
    /\ UNCHANGED environment

\* open_legacy_sqlite_index_attestation_guard, for the notes that were resolved.
PinIndex(q) ==
    /\ Ready(q, "index")
    /\ IF file["index"].bytes = session[q].pin["vault"].bytes
       THEN /\ session' = [session EXCEPT ![q].at = "store", ![q].pin["index"] = file["index"]]
            /\ UNCHANGED result
       ELSE Finish(q, "refused")
    /\ UNCHANGED environment

\* Mutant of Unwritten: what counts is that the content is the pinned one.
SameBytes(f, pin) == file[f].bytes = pin.bytes
\* The pinned descriptor and the path are still one inode, and nobody wrote it.
Unwritten(f, pin) == file[f] = pin

Verify(q) ==
    /\ session[q].checks # <<>>
    /\ LET f == Head(session[q].checks)
       IN  IF Unwritten(f, session[q].pin[f])
           THEN session' = [session EXCEPT ![q].checks = Tail(@)] /\ UNCHANGED result
           ELSE Finish(q, "refused")
    /\ UNCHANGED environment

OpenStore(q) ==
    /\ Ready(q, "store")
    /\ Goto(q, "lookup", <<>>)
    /\ UNCHANGED <<result, environment>>

\* get_workspace_bootstrap_by_inventory_id, its receipts, and the capability that
\* get_active_generation asks.
LookUp(q) ==
    /\ Ready(q, "lookup")
    /\ IF receipts /\ session[q].pin["vault"].bytes = Adopted
       THEN Goto(q, "select", <<"vault", "index">>) /\ UNCHANGED result
       ELSE Finish(q, "refused")
    /\ UNCHANGED environment

\* _select_generation_authority: the generation before the active one is "legacy".
Served(selector) ==
    IF active = 0 \/ selector = "legacy" THEN "index" ELSE "managed"

\* The managed index is opened under its receipt; entering the session then asks the
\* authority, and with it the capability, afresh.
Select(q) ==
    LET serve == Served(session[q].selector)
    IN  /\ Ready(q, "select")
        /\ IF file[serve].bytes = Adopted
           THEN /\ session' = [session EXCEPT ![q] = [session[q] EXCEPT !.at = "query",
                       !.serve = serve, !.base = active, !.checks = <<"vault", "index">>,
                       !.pin[serve] = IF serve = "managed" THEN file[serve] ELSE @]]
                /\ UNCHANGED result
           ELSE Finish(q, "refused")
        /\ UNCHANGED environment

-----------------------------------------------------------------------------
(* The search and the end of the session.                                    *)

\* A page of the index that is served, or a note whose path is in evidence_workspaces.
Read(q, f) ==
    /\ Ready(q, "query") /\ f \in {session[q].serve, "vault"}
    /\ session' = [session EXCEPT ![q].exact = @ /\ file[f].bytes = Adopted]
    /\ UNCHANGED <<result, environment>>

\* _release: the backend, then the live authority with its capability; the managed
\* backend verifies itself once more when it closes.
Closing(q) ==
    IF session[q].serve = "index" THEN <<"index", "vault", "index">>
    ELSE <<"managed", "vault", "index", "managed">>
Close(q) ==
    /\ Ready(q, "query")
    /\ Goto(q, "answer", Closing(q))
    /\ UNCHANGED <<result, environment>>

\* The command shows the result after the session was closed without an error.
Deliver(q) ==
    /\ Ready(q, "answer")
    /\ Finish(q, IF active = session[q].base THEN "delivered" ELSE "refused")
    /\ UNCHANGED environment

\* The query fails or its process dies; its locks and descriptors go with it.
Fail(q) ==
    /\ session[q] # Closed
    /\ Finish(q, "none")
    /\ UNCHANGED environment

-----------------------------------------------------------------------------
(* What else happens.                                                        *)

\* An editor saves a note, or another program writes an index, in place.
Save(f, c) ==
    /\ saves < MaxSaves
    /\ saves' = saves + 1
    /\ file' = [file EXCEPT ![f] = [bytes |-> c, stamp |-> @.stamp + 1]]
    /\ UNCHANGED <<receipts, active, session, result>>

\* Writers of the store wait for the readers: a bootstrap ends, a successor is activated.
Bootstrapped ==
    /\ ~receipts /\ Holders = {}
    /\ receipts' = TRUE
    /\ UNCHANGED <<file, active, session, result, saves>>
Activate ==
    /\ receipts /\ active = 0 /\ Holders = {} /\ file["managed"].bytes = Adopted
    /\ active' = 1
    /\ UNCHANGED <<file, receipts, session, result, saves>>

Next ==
    \/ \E q \in Queries :
          \/ \E selector \in Selectors : Open(q, selector)
          \/ \E f \in Files : Read(q, f)
          \/ PinIndex(q) \/ Verify(q) \/ OpenStore(q) \/ LookUp(q) \/ Select(q)
          \/ Close(q) \/ Deliver(q) \/ Fail(q)
    \/ \E f \in Files, c \in Contents : Save(f, c)
    \/ Bootstrapped \/ Activate

Spec == Init /\ [][Next]_vars

-----------------------------------------------------------------------------
(* Properties.                                                               *)

\* A session is what the code's object is, and only an open one has anything pinned.
TypeOK ==
    /\ active \in {0, 1} /\ receipts \in BOOLEAN
    /\ \A q \in Queries :
          /\ session[q].selector \in Selectors /\ session[q].serve \in Files
          /\ session[q].base \in {0, 1} /\ session[q].exact \in BOOLEAN
          /\ result[q] \in {"none", "refused", "delivered"}

\* "Verification runs before output can be rendered" (ResolvedQueryGeneration): nothing
\* is shown that rests on a byte other than the receipts', although the reads of a
\* session are spread over its whole length, a file may be changed and changed back
\* between two of them, and nobody locks the files; and unless the legacy generation
\* was asked for, what was searched is the generation that is active when it is shown.
DeliveredIsExact ==
    [][\A q \in Queries :
         session[q] # Closed /\ session'[q] = Closed /\ result'[q] = "delivered" =>
            /\ session[q].exact
            /\ session[q].selector # "legacy" =>
                  session[q].serve = (IF active = 0 THEN "index" ELSE "managed")]_vars

=============================================================================
