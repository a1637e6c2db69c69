------------------------- MODULE ChangeControlStore -------------------------
(***************************************************************************)
(* The durable change-control store: src/mastervault/change_control/       *)
(* store.py with the decision function of review.py.                       *)
(*                                                                         *)
(* One action is one write transaction.  In the code a transaction is      *)
(* BEGIN IMMEDIATE ... COMMIT under an exclusive lock; the module          *)
(* StoreCoordination opens it up into its separate steps.  The arguments   *)
(* of an action are those of a call that anybody may make with any         *)
(* operation id, however old the view it was computed from.  A call that   *)
(* raises an error rolls back and a call that is replayed writes nothing,  *)
(* so neither appears here; StoreCoordination has them, and what the       *)
(* callers are told.                                                       *)
(*                                                                         *)
(* An aggregate is abstracted to its review subjects: the only part of it  *)
(* that the store inspects.  The rest of it (documents, claims, relations) *)
(* moves as a subject does that no request binds.  A digest is the content *)
(* itself.  Revision 0 stands for the absent head row, and for the         *)
(* expected revision None.                                                 *)
(***************************************************************************)
EXTENDS Naturals, FiniteSets

CONSTANTS
    Aggregates,     \* aggregate ids
    Operations,     \* operation ids, chosen by the callers
    Replacements,   \* document-replacement assessments ("rel:" subjects)
    Constraints,    \* temporal constraints ("tempc:" subjects)
    Basis,          \* the replacements a constraint rests on
    Bodies,         \* the rationale and confidence of a subject
    NoBody,         \* the body of a subject that is absent
    MaxRevision     \* bound on the revisions of an aggregate

ASSUME StoreAssumptions ==
    /\ Basis \in [Constraints -> SUBSET Replacements]
    /\ MaxRevision \in Nat

VARIABLES
    head,       \* change_control_aggregates: live revision and content
    receipts,   \* change_control_operations: one row per committed write
    requests,   \* change_control_review_requests with their subjects
    decisions,  \* change_control_review_decisions with their items
    claimed     \* operation ids owned by the extension authorities

vars == <<head, receipts, requests, decisions, claimed>>

-----------------------------------------------------------------------------
(* Aggregates and their review subjects.                                   *)

Subjects == Replacements \cup Constraints

Absent == [status |-> "absent", body |-> NoBody]

SubjectStates ==
    [status : {"proposed", "accepted", "rejected"}, body : Bodies] \cup {Absent}

Reviewed(s) == s.status \in {"accepted", "rejected"}

Contents == [Subjects -> SubjectStates]

Empty == [s \in Subjects |-> Absent]

\* An accepted constraint needs every replacement it rests on accepted.
Valid(content) ==
    \A c \in Constraints : content[c].status = "accepted" =>
        \A r \in Basis[c] : content[r].status = "accepted"

-----------------------------------------------------------------------------
(* The rows of the tables.                                                 *)

Revisions == 1..MaxRevision

Heads == [revision : 0..MaxRevision, content : Contents]

Receipts == [op : Operations, agg : Aggregates, expected : 0..MaxRevision,
             content : Contents, revision : Revisions, changed : BOOLEAN]

\* The base aggregate is stored with the request, so the row names both the
\* revision and the content that were put before the reviewer.
Requests == [op : Operations, agg : Aggregates, revision : Revisions,
             base : Contents, subjects : SUBSET Subjects]

\* What a reviewer says of one subject; an edit carries the new body.
Outcomes == [disposition : {"accepted", "rejected"}, body : {NoBody}]
                \cup [disposition : {"edited"}, body : Bodies]

Decisions == [op : Operations, request : Requests,
              outcome : UNION {[S -> Outcomes] : S \in SUBSET Subjects},
              revision : Revisions, content : Contents]

DecisionsOf(q) == {d \in decisions : d.request = q}

\* Mutant of Owned: looks at the receipts of this store only.
OwnedByReceipt(op) == \E x \in receipts : x.op = op

\* Is the operation id taken, by this store or by an extension authority?
Owned(op) == op \in claimed \/ \E x \in receipts : x.op = op

\* Mutant of Lifecycle: never compares the request with the live head.
LifecycleWithoutHead(q) == IF DecisionsOf(q) # {} THEN "decided" ELSE "open"

\* Mutant of Lifecycle: compares the digest of the head, not its revision.
LifecycleByDigest(q) ==
    IF DecisionsOf(q) # {} THEN "decided"
    ELSE IF head[q.agg].content = q.base THEN "open" ELSE "stale"

Lifecycle(q) ==
    IF DecisionsOf(q) # {} THEN "decided"
    ELSE IF head[q.agg] = [revision |-> q.revision, content |-> q.base]
         THEN "open"
         ELSE "stale"

-----------------------------------------------------------------------------
(* The rules a write must obey.                                            *)

\* Mutant of Bound: takes the decided requests for the undecided ones.
BoundByDecided(a) == UNION {q.subjects : q \in
    {p \in requests : p.agg = a /\ p.revision = head[a].revision /\ DecisionsOf(p) # {}}}

\* Subjects under an undecided request at the live revision.
Bound(a) == UNION {q.subjects : q \in
    {p \in requests : p.agg = a /\ p.revision = head[a].revision /\ DecisionsOf(p) = {}}}

\* Mutant of NonReviewTransition: an unreviewed subject may arrive reviewed.
NonReviewTransitionForward(a, content) ==
    /\ \A s \in Subjects :
        Reviewed(head[a].content[s]) => content[s] = head[a].content[s]
    /\ \A s \in Bound(a) : content[s] = head[a].content[s]

\* Mutant of NonReviewTransition: a reviewed subject may be proposed again.
NonReviewTransitionBackward(a, content) ==
    /\ \A s \in Subjects :
        Reviewed(content[s]) => content[s] = head[a].content[s]
    /\ \A s \in Bound(a) : content[s] = head[a].content[s]

\* An ordinary write creates, edits and removes proposals, but it neither
\* reviews a subject nor touches one that is reviewed or bound.
NonReviewTransition(a, content) ==
    /\ \A s \in Subjects :
        LET before == head[a].content[s]
            after  == content[s]
        IN  (Reviewed(before) \/ Reviewed(after)) => after = before
    /\ \A s \in Bound(a) : content[s] = head[a].content[s]

\* Does the write make a new revision, or only a receipt?
Changes(a, expected, content) == expected = 0 \/ content # head[a].content

\* The status and the body that a reviewer's outcome gives a subject.
Settled(before, outcome) ==
    [status |-> IF outcome.disposition = "rejected" THEN "rejected" ELSE "accepted",
     body   |-> IF outcome.disposition = "edited" THEN outcome.body ELSE before.body]

\* The aggregate that a decision makes of the base its request was bound to.
ApplyDecision(q, outcome) ==
    [s \in Subjects |->
        IF s \in q.subjects THEN Settled(q.base[s], outcome[s]) ELSE q.base[s]]

\* One outcome per requested subject, and an edit must really change it.
CompleteOutcome(q, outcome) ==
    /\ outcome \in [q.subjects -> Outcomes]
    /\ \A s \in q.subjects :
        outcome[s].disposition = "edited" => outcome[s].body # q.base[s].body

Receipt(op, a, expected, content, revision, changed) ==
    [op |-> op, agg |-> a, expected |-> expected,
     content |-> content, revision |-> revision, changed |-> changed]

-----------------------------------------------------------------------------
Init ==
    /\ head = [a \in Aggregates |-> [revision |-> 0, content |-> Empty]]
    /\ receipts = {}
    /\ requests = {}
    /\ decisions = {}
    /\ claimed = {}

\* Writing the content that is already live leaves a receipt and no revision.
CompareAndSwap(op, a, expected, content) ==
    /\ ~Owned(op)
    /\ head[a].revision = expected
    /\ Valid(content)
    /\ NonReviewTransition(a, content)
    /\ LET changed  == Changes(a, expected, content)
           revision == IF changed THEN expected + 1 ELSE expected
       IN  /\ revision <= MaxRevision
           /\ head' = [head EXCEPT ![a] = [revision |-> revision, content |-> content]]
           /\ receipts' = receipts \cup
                {Receipt(op, a, expected, content, revision, changed)}
    /\ UNCHANGED <<requests, decisions, claimed>>

\* No two requests of one revision share a subject (so none repeats a request).
CreateReviewRequest(op, a, expected, base, subjects) ==
    /\ ~Owned(op)
    /\ expected > 0
    /\ head[a] = [revision |-> expected, content |-> base]
    /\ subjects # {}
    /\ \A s \in subjects : base[s].status = "proposed"
    /\ \A q \in requests :
        q.agg = a /\ q.revision = expected => q.subjects \cap subjects = {}
    /\ receipts' = receipts \cup {Receipt(op, a, expected, base, expected, FALSE)}
    /\ requests' = requests \cup
        {[op |-> op, agg |-> a, revision |-> expected, base |-> base, subjects |-> subjects]}
    /\ UNCHANGED <<head, decisions, claimed>>

DecideReview(op, q, outcome) ==
    /\ ~Owned(op)
    /\ q \in requests
    /\ Lifecycle(q) = "open"
    /\ CompleteOutcome(q, outcome)
    /\ LET content  == ApplyDecision(q, outcome)
           revision == q.revision + 1
       IN  /\ Valid(content)
           /\ revision <= MaxRevision
           /\ head' = [head EXCEPT ![q.agg] = [revision |-> revision, content |-> content]]
           /\ receipts' = receipts \cup
                {Receipt(op, q.agg, q.revision, content, revision, TRUE)}
           /\ decisions' = decisions \cup
                {[op |-> op, request |-> q, outcome |-> outcome,
                  revision |-> revision, content |-> content]}
    /\ UNCHANGED <<requests, claimed>>

\* An extension authority (managed review, activation, bootstrap, ...) takes
\* an operation id after the same look at every authority's table.
ClaimByOtherAuthority(op) ==
    /\ ~Owned(op)
    /\ claimed' = claimed \cup {op}
    /\ UNCHANGED <<head, receipts, requests, decisions>>

Next ==
    \E op \in Operations :
        \/ \E a \in Aggregates, expected \in 0..MaxRevision, content \in Contents :
                CompareAndSwap(op, a, expected, content)
        \/ \E a \in Aggregates, expected \in Revisions, subjects \in SUBSET Subjects :
                CreateReviewRequest(op, a, expected, head[a].content, subjects)
        \/ \E q \in requests : \E outcome \in [q.subjects -> Outcomes] :
                DecideReview(op, q, outcome)
        \/ ClaimByOtherAuthority(op)

Spec == Init /\ [][Next]_vars

-----------------------------------------------------------------------------
(* What every read and every write checks before it trusts the tables.     *)

ValidateReceipts ==
    \A x \in receipts :
        /\ x.revision <= head[x.agg].revision
        /\ x.revision = IF x.changed THEN x.expected + 1 ELSE x.expected

ValidateRequest(q) ==
    /\ \A s \in q.subjects : q.base[s].status = "proposed"
    /\ Receipt(q.op, q.agg, q.revision, q.base, q.revision, FALSE) \in receipts

ValidateDecision(d) ==
    /\ CompleteOutcome(d.request, d.outcome)
    /\ d.content = ApplyDecision(d.request, d.outcome)
    /\ Valid(d.content)
    /\ d.revision = d.request.revision + 1
    /\ Receipt(d.op, d.request.agg, d.request.revision, d.content, d.revision, TRUE)
        \in receipts

ValidateReviews ==
    /\ \A q \in requests : ValidateRequest(q)
    /\ \A d \in decisions : d.request \in requests /\ ValidateDecision(d)

\* No operation id has two owners, nor two rows of one owner.
ValidateOperationOwnership ==
    /\ \A x, y \in receipts : x.op = y.op => x = y
    /\ \A x \in receipts : x.op \notin claimed
    /\ \A q \in requests, d \in decisions : q.op # d.op

-----------------------------------------------------------------------------
(* Properties.                                                             *)

ChangedAt(a, r) == {x \in receipts : x.agg = a /\ x.revision = r /\ x.changed}

\* Every table holds rows of its declared shape.
TypeOK ==
    /\ head \in [Aggregates -> Heads]
    /\ receipts \subseteq Receipts
    /\ requests \subseteq Requests
    /\ decisions \subseteq Decisions
    /\ claimed \subseteq Operations

\* The store always accepts what it wrote: the validation that opens every read
\* and write (_validate_receipts, _validate_reviews, the ownership check) never
\* finds a legal sequence of calls corrupt, so no sequence of calls makes the
\* database unreadable.
StoreValidates == ValidateReceipts /\ ValidateReviews /\ ValidateOperationOwnership

\* Revisions never fork and never skip: each of 1..revision was committed by
\* exactly one operation, the last of them wrote the live content, and a receipt
\* that changed nothing names content that some operation committed there.
ReceiptsFormOneHistory ==
    /\ \A a \in Aggregates : \A r \in 1..head[a].revision :
        \E x \in receipts : ChangedAt(a, r) = {x}
    /\ \A a \in Aggregates : \A x \in ChangedAt(a, head[a].revision) :
        x.content = head[a].content
    /\ \A x \in receipts : \A y \in ChangedAt(x.agg, x.revision) : y.content = x.content

\* A new revision is never a copy of the one before it, whichever mixture of
\* ordinary writes and decisions made them: an idempotent write of the live
\* content must not move the revision and so make open reviews stale.
EveryRevisionDiffers ==
    \A x, y \in receipts :
        x.changed /\ y.changed /\ x.agg = y.agg /\ y.revision = x.revision + 1
            => x.content # y.content

\* What a reviewer was shown is what was live at the revision decided on, and the
\* decision made the very next revision out of it.
DecisionsSeeTheirRevision ==
    \A d \in decisions :
        /\ \A x \in ChangedAt(d.request.agg, d.request.revision) :
                x.content = d.request.base
        /\ \E x \in ChangedAt(d.request.agg, d.request.revision + 1) : x.op = d.op

\* A subject is decided at most once, over all requests, revisions and reviewers.
SubjectDecidedOnce ==
    \A d, e \in decisions :
        d # e /\ d.request.agg = e.request.agg
            => d.request.subjects \cap e.request.subjects = {}

\* Reviewed state comes from decisions and from nothing else, and it stays: a
\* live subject is accepted or rejected exactly when a decision covered it, and
\* then it is as that decision left it, however many writes followed.
ReviewedStateIsDecided ==
    \A a \in Aggregates, s \in Subjects :
        LET covering == {d \in decisions : d.request.agg = a /\ s \in d.request.subjects}
        IN  /\ Reviewed(head[a].content[s]) <=> covering # {}
            /\ \A d \in covering : head[a].content[s] = d.content[s]

\* A constraint is accepted only after, or together with, every replacement it
\* rests on, whichever of them went before a reviewer first and however the
\* aggregate was written in between: each of these was itself accepted by a
\* decision of the same aggregate that is no later.  So once a replacement is
\* rejected no later request, edit or ordinary write gets its constraint accepted.
ReplacementsAreDecidedFirst ==
    \A d \in decisions : \A c \in Constraints \cap d.request.subjects :
        d.content[c].status = "accepted" =>
            \A r \in Basis[c] : \E e \in decisions :
                /\ e.request.agg = d.request.agg
                /\ e.revision <= d.revision
                /\ r \in e.request.subjects
                /\ e.content[r].status = "accepted"

\* A request that went stale never opens again, although the content it was made
\* for can come back; one that was decided stays decided.
ReviewsNeverReopen ==
    [][\A q \in requests : Lifecycle(q) # "open" => Lifecycle(q)' = Lifecycle(q)]_vars

\* While a request is open its subjects change by its decision only: the write
\* that takes it out of "open" in any other way leaves its subjects alone.
OpenSubjectsAreFrozen ==
    [][\A q \in requests :
        Lifecycle(q) = "open" /\ Lifecycle(q)' # "decided" =>
            \A s \in q.subjects : head'[q.agg].content[s] = q.base[s]]_vars

=============================================================================
