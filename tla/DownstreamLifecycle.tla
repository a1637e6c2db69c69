------------------------- MODULE DownstreamLifecycle -------------------------
(* A generic run from its open temporal review to its end: the decisions a    *)
(* reviewer records, the recorded provider work after an accepted temporal    *)
(* decision, and activation, application_downstream.py.  A run has no phase of *)
(* its own: the phase is derived from authority rows and from navigation links *)
(* to them (managed_store.py, application_read_models.py), every write of      *)
(* which is a transaction of its own.  Clients call and retry at will, and die *)
(* between any two writes.  There is no lock around a call.                    *)
EXTENDS Integers, Sequences, FiniteSets

CONSTANTS
    Clients,      \* processes that call record_change_review and activate_change
    Documents,    \* what they submit: [stage, op, accept]
    Works,        \* what the reviewed snapshot may call for
    None,
    MaxCrashes    \* bound: crashes in one behaviour

DownstreamAssumption ==
    /\ \A d \in Documents : d.stage \in {"temporal", "managed", "activate"} /\ d.accept \in BOOLEAN
    /\ \A d, e \in Documents : d.op = e.op => d = e
    /\ Works \subseteq [questions : BOOLEAN, subjects : BOOLEAN, governing : BOOLEAN]
    /\ None \notin Documents /\ None \notin {d.op : d \in Documents}
    /\ MaxCrashes \in Nat

VARIABLES
    work,       \* of the run: impact questions, revision subjects, a governing source
    decided,    \* the decision row of the temporal and of the managed request
    opened,     \* the managed request row exists
    receipt,    \* the operation whose authority CAS activated the run
    links,      \* kinds of navigation links recorded for the run
    files,      \* stage evidence and lifecycle index files
    call,       \* provider-call journal, per stage
    noops,      \* operations claimed for activating a run that ended as a no-op
    client,     \* what each client has in hand, and the writes it has left
    crashes

vars == <<work, decided, opened, receipt, links, files, call, noops, client, crashes>>

Kinds == {"temporal-decision", "impact", "planning", "managed-request",
          "managed-decision", "activation"}
Stages == {"impact", "planning"}
Evidence == Stages \X {"evidence", "index"}
Idle == [document |-> None, todo |-> <<>>]
Accepted(stage) == decided[stage] # None /\ decided[stage].accept

\* Planning without subjects and without a governing source to adopt is no work.
NoWork == ~work.subjects /\ ~work.governing

-----------------------------------------------------------------------------
(* The phase: rows first, then what the links navigate to.                   *)

\* Does the managed decision carry an activation plan?  Every bundle of a generic
\* run that is accepted needs one (accepted_v2), so that a decision without a plan
\* is a rejection, and the third case of Derive is there but never met.
Planned == Accepted("managed")

Derive ==
    IF opened
    THEN IF decided["managed"] = None THEN "awaiting-managed-review"
         ELSE IF receipt # None THEN "activated"
         ELSE IF ~Accepted("managed") THEN "rejected-no-op"
         ELSE IF ~Planned THEN "completed-no-op" ELSE "ready-to-activate"
    ELSE IF "temporal-decision" \notin links THEN "awaiting-temporal-review"
    ELSE IF ~Accepted("temporal") THEN "rejected-no-op"
    ELSE IF "planning" \in links /\ NoWork THEN "completed-no-op"
    ELSE "awaiting-managed-review"

\* The links a run of the phase may have; any other makes every read of it raise.
AllowedWithoutWork(phase) ==
    IF phase = "awaiting-temporal-review" THEN {}
    ELSE IF phase = "completed-no-op" THEN {"temporal-decision"}
    ELSE IF phase = "activated" THEN Kinds ELSE Kinds \ {"activation"}
Allowed(phase) ==
    IF phase = "awaiting-temporal-review" THEN {}
    ELSE IF phase = "awaiting-managed-review"
         THEN {"temporal-decision", "impact", "planning", "managed-request"}
    ELSE IF phase = "completed-no-op" THEN {"temporal-decision", "impact", "planning"}
    ELSE IF phase = "activated" THEN Kinds ELSE Kinds \ {"activation"}

\* What callers are shown: a run stays resumable until its activation is linked.
Phase == IF Derive = "activated" /\ "activation" \notin links
         THEN "ready-to-activate" ELSE Derive
Status == IF links \subseteq Allowed(Phase) THEN Phase ELSE "raises"

\* list_changes: its page holds the phases as derived, and it raises, for all runs
\* of the page, when one is not what get_change_status shows next.  This is the
\* listing of a run that nothing moves in between.
Listed == IF Status = Derive THEN Status ELSE "raises"

\* get_change_review: the managed request is found by its link.
Packet ==
    IF Status = "awaiting-temporal-review" THEN "temporal"
    ELSE IF Status = "awaiting-managed-review" /\ "managed-request" \in links THEN "managed"
    ELSE IF Status \in {"awaiting-managed-review", "raises"} THEN "raises"
    ELSE "unavailable"

-----------------------------------------------------------------------------
(* The writes a call makes, in order, each of them one step below.            *)

Recorded(stage) == <<<<"ask", stage>>, <<stage, "evidence">>, <<stage, "index">>, <<"link", stage>>>>
ManagedRequest == <<<<"open", "managed">>, <<"link", "managed-request">>>>
Advance(d) ==
    IF ~d.accept THEN <<>>
    ELSE (IF work.questions THEN Recorded("impact") ELSE <<>>)
           \o (IF work.subjects THEN Recorded("planning") ELSE Tail(Recorded("planning")))
           \o (IF NoWork THEN <<>> ELSE ManagedRequest)

Decision(stage, link) == <<<<"decide", stage>>, <<"link", link>>>>
Activation == <<<<"activate", "run">>, <<"link", "activation">>>>
Plan(d) ==
    IF d.stage = "temporal" THEN Decision("temporal", "temporal-decision") \o Advance(d)
    ELSE IF d.stage = "managed" THEN Decision("managed", "managed-decision")
    ELSE Activation

\* Is d the recorded decision of its stage, and is there nothing left to do for it?
Replay(d) == d.stage \in {"temporal", "managed"} /\ decided[d.stage] = d
ReplayedWithoutLink(d) == Replay(d)
Replayed(d) ==
    \/ d.stage = "temporal" /\ Status \in {"rejected-no-op", "completed-no-op"}
    \/ d.stage = "managed" /\ "managed-decision" \in links

\* record_change_review up to its first write.  Where the packet is of another
\* stage, cannot be had or raises, nothing is written, unless the stage is over
\* and the document is the one recorded: then its writes are repeated.
Review(c, d) ==
    /\ client[c] = Idle
    /\ d.stage \in {"temporal", "managed"}
    /\ \/ Packet = d.stage
       \/ Packet = "unavailable" /\ Replay(d) /\ ~Replayed(d)
    /\ client' = [client EXCEPT ![c] = [document |-> d, todo |-> Plan(d)]]
    /\ UNCHANGED <<work, decided, opened, receipt, links, files, call, noops, crashes>>

\* activate_change: a run that ended as a no-op only claims the operation id, and
\* an activated one is only read; a ready one needs the link to its request.
Activate(c, d) ==
    /\ client[c] = Idle
    /\ d.stage = "activate"
    /\ Status = "ready-to-activate" /\ "managed-request" \in links
    /\ client' = [client EXCEPT ![c] = [document |-> d, todo |-> Plan(d)]]
    /\ UNCHANGED <<work, decided, opened, receipt, links, files, call, noops, crashes>>

ActivateNoOp(c, d) ==
    /\ client[c] = Idle
    /\ d.stage = "activate"
    /\ Status \in {"rejected-no-op", "completed-no-op"}
    /\ noops' = noops \cup {d.op}
    /\ UNCHANGED <<work, decided, opened, receipt, links, files, call, client, crashes>>

-----------------------------------------------------------------------------
(* The writes.                                                                *)

Doing(c) == IF client[c].todo = <<>> THEN <<"nothing", "left">> ELSE Head(client[c].todo)
Done(c) ==
    client' = [client EXCEPT ![c] =
        IF Len(@.todo) = 1 THEN Idle
        ELSE [document |-> @.document, todo |-> Tail(@.todo)]]
Raise(c) == client' = [client EXCEPT ![c] = Idle]

\* A decision is recorded once; the same one again is answered by its receipt.
MayDecideAlways(row, d) == TRUE
MayDecide(row, d) == row \in {None, d}

Decide(c) ==
    LET stage == Doing(c)[2]
        d == client[c].document IN
      /\ Doing(c)[1] = "decide"
      /\ \/ /\ MayDecide(decided[stage], d)
            /\ decided' = [decided EXCEPT ![stage] = d]
            /\ Done(c)
         \/ /\ ~MayDecide(decided[stage], d)
            /\ Raise(c)
            /\ UNCHANGED decided
      /\ UNCHANGED <<work, opened, receipt, links, files, call, noops, crashes>>

\* The bridge: a claimed call without a result is indeterminate, and fails closed.
AskProvider(c) ==
    LET stage == Doing(c)[2] IN
      /\ Doing(c)[1] = "ask"
      /\ \/ /\ call[stage] = "free"
            /\ call' = [call EXCEPT ![stage] = "claimed"]
            /\ client' = [client EXCEPT ![c].todo = <<<<"record", stage>>>> \o Tail(@)]
         \/ /\ call[stage] = "recorded" /\ Done(c) /\ UNCHANGED call
         \/ /\ call[stage] = "claimed" /\ Raise(c) /\ UNCHANGED call
      /\ UNCHANGED <<work, decided, opened, receipt, links, files, noops, crashes>>

RecordResult(c) ==
    /\ Doing(c)[1] = "record"
    /\ \/ /\ call' = [call EXCEPT ![Doing(c)[2]] = "recorded"]
          /\ Done(c)
       \/ /\ Raise(c)
          /\ UNCHANGED call
    /\ UNCHANGED <<work, decided, opened, receipt, links, files, noops, crashes>>

PersistStage(c) ==
    /\ Doing(c) \in Evidence
    /\ files' = files \cup {Doing(c)}
    /\ Done(c)
    /\ UNCHANGED <<work, decided, opened, receipt, links, call, noops, crashes>>

OpenManagedReview(c) ==
    /\ Doing(c)[1] = "open"
    /\ opened' = TRUE
    /\ Done(c)
    /\ UNCHANGED <<work, decided, receipt, links, files, call, noops, crashes>>

\* The authority transaction, which ManagedActivation opens up.
ActivateGeneration(c) ==
    LET op == client[c].document.op IN
      /\ Doing(c)[1] = "activate"
      /\ \/ /\ receipt \in {None, op}
            /\ receipt' = op
            /\ Done(c)
         \/ /\ receipt \notin {None, op}
            /\ Raise(c)
            /\ UNCHANGED receipt
      /\ UNCHANGED <<work, decided, opened, links, files, call, noops, crashes>>

\* A link is recorded only when the authority it leads to can be opened.
TargetExists(kind) ==
    \/ kind = "temporal-decision" /\ decided["temporal"] # None
    \/ kind \in Stages /\ {kind} \X {"evidence", "index"} \subseteq files
    \/ kind = "managed-request" /\ opened
    \/ kind = "managed-decision" /\ decided["managed"] # None
    \/ kind = "activation" /\ receipt # None

Link(c) ==
    LET kind == Doing(c)[2] IN
      /\ Doing(c)[1] = "link"
      /\ \/ /\ TargetExists(kind)
            /\ links' = links \cup {kind}
            /\ Done(c)
         \/ /\ ~TargetExists(kind)
            /\ Raise(c)
            /\ UNCHANGED links
      /\ UNCHANGED <<work, decided, opened, receipt, files, call, noops, crashes>>

Crash(c) ==
    /\ client[c] # Idle
    /\ crashes < MaxCrashes
    /\ crashes' = crashes + 1
    /\ client' = [client EXCEPT ![c] = Idle]
    /\ UNCHANGED <<work, decided, opened, receipt, links, files, call, noops>>

Init ==
    /\ work \in Works
    /\ decided = [stage \in {"temporal", "managed"} |-> None]
    /\ opened = FALSE
    /\ receipt = None
    /\ links = {}
    /\ files = {}
    /\ call = [stage \in Stages |-> "free"]
    /\ noops = {}
    /\ client = [c \in Clients |-> Idle]
    /\ crashes = 0

Goes(c) ==
    \/ Decide(c) \/ AskProvider(c) \/ RecordResult(c) \/ PersistStage(c)
    \/ OpenManagedReview(c) \/ ActivateGeneration(c) \/ Link(c)
Submits(d) == \E c \in Clients : Review(c, d) \/ Activate(c, d)
Next ==
    \/ \E d \in Documents : Submits(d) \/ \E c \in Clients : ActivateNoOp(c, d)
    \/ \E c \in Clients : Goes(c) \/ Crash(c)
Spec == Init /\ [][Next]_vars

\* A call goes on while its process lives, and callers retry what they submitted.
Fairness ==
    /\ \A c \in Clients : WF_vars(Goes(c))
    /\ \A d \in Documents : SF_vars(Submits(d))
LiveSpec == Spec /\ Fairness

-----------------------------------------------------------------------------
Rank(phase) ==
    IF phase = "awaiting-temporal-review" THEN 1
    ELSE IF phase = "awaiting-managed-review" THEN 2
    ELSE IF phase = "ready-to-activate" THEN 3 ELSE 4

TypeOK ==
    /\ work \in Works
    /\ decided \in [{"temporal", "managed"} -> Documents \cup {None}]
    /\ opened \in BOOLEAN
    /\ receipt \in {d.op : d \in Documents} \cup {None}
    /\ links \subseteq Kinds /\ files \subseteq Evidence
    /\ call \in [Stages -> {"free", "claimed", "recorded"}]
    /\ noops \subseteq {d.op : d \in Documents}
    /\ \A c \in Clients : client[c] = Idle <=> client[c].todo = <<>>
    /\ crashes \in 0..MaxCrashes

\* Whatever order two clients' writes come in, and wherever they stop, the links of
\* the run fit the phase that its rows derive, so that get_change_status never
\* raises; a run that it shows as ready to be activated can be: the request that
\* activation reopens is linked; and a listing raises exactly where an activation
\* has its receipt and not its link.
StatusAlwaysReadable ==
    /\ Status # "raises"
    /\ Status = "ready-to-activate" => "managed-request" \in links
    /\ Listed = "raises" <=> receipt # None /\ "activation" \notin links

\* A rejection, or no work, has no effects: nothing is asked of a provider after a
\* rejected temporal review, and no generation is activated without both approvals.
RejectionHasNoEffects ==
    /\ decided["temporal"] # None /\ ~Accepted("temporal")
         => files = {} /\ ~opened /\ \A s \in Stages : call[s] = "free"
    /\ receipt # None => Accepted("temporal") /\ Accepted("managed") /\ noops = {}

\* Of two clients that submit different decisions for one packet, the first stands,
\* and the phase a caller sees only moves forward: an end is an end, and a rejection
\* has no effects whatever was under way when it came.
FirstDecisionStands ==
    [][/\ \A s \in {"temporal", "managed"} : decided[s] # None => decided'[s] = decided[s]
       /\ receipt # None => receipt' = receipt
       /\ Rank(Status') >= Rank(Status)
       /\ Rank(Status) = 4 => Status' = Status
       /\ RejectionHasNoEffects']_vars

\* A decision or an activation whose call was cut off before its link is linked by
\* the retries.
ReceiptsGetLinked ==
    /\ (decided["temporal"] # None) ~> ("temporal-decision" \in links)
    /\ (decided["managed"] # None) ~> ("managed-decision" \in links)
    /\ (receipt # None) ~> ("activation" \in links)

\* docs/decisions/0017: navigation is repairable from authority, so an accepted
\* temporal review whose work no provider call holds up reaches its managed review.
AcceptedReachesManagedReview ==
    Accepted("temporal") ~> ("managed-request" \in links)
=============================================================================
