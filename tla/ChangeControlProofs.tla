------------------------ MODULE ChangeControlProofs ------------------------
(* Theorems about ChangeControl, for every value of its constants: the        *)
(* invariants and action properties of the store and that it implements       *)
(* ReviewedHistory; the review workflow's statuses, in this composition; what *)
(* sessions verify before a query's result is shown; and what a change is     *)
(* analysed and decided to be.                                                *)
EXTENDS ChangeControl, Sequences, FiniteSetTheorems, WellFoundedInduction, TLAPS

\* Everything a request names was a proposal in the base it is bound to.
SnapshotsProposed ==
    \A q \in requests : \A s \in q.subjects : q.base[s].status = "proposed"

TypeInv == TypeOK /\ SnapshotsProposed

-----------------------------------------------------------------------------
\* Settling a proposal with any outcome yields a reviewed subject state.
LEMMA SettledType ==
    ASSUME NEW before \in SubjectStates, before.status = "proposed",
           NEW outcome \in Outcomes
    PROVE  /\ Settled(before, outcome) \in SubjectStates
           /\ Reviewed(Settled(before, outcome))
<1>1. before.body \in Bodies
    BY DEF SubjectStates, Absent
<1>2. CASE outcome.disposition = "edited"
    <2>1. outcome.body \in Bodies
        BY <1>2 DEF Outcomes
    <2>2. QED
        BY <1>2, <2>1 DEF Settled, SubjectStates, Reviewed
<1>3. CASE outcome.disposition # "edited"
    BY <1>1, <1>3 DEF Settled, SubjectStates, Reviewed
<1>4. QED
    BY <1>2, <1>3

\* A complete outcome makes an aggregate of the base of a well-formed request.
LEMMA ApplyDecisionType ==
    ASSUME NEW q \in Requests, \A s \in q.subjects : q.base[s].status = "proposed",
           NEW outcome, CompleteOutcome(q, outcome)
    PROVE  /\ ApplyDecision(q, outcome) \in Contents
           /\ \A s \in q.subjects : Reviewed(ApplyDecision(q, outcome)[s])
           /\ \A s \in Subjects \ q.subjects : ApplyDecision(q, outcome)[s] = q.base[s]
<1>1. q.base \in Contents /\ q.subjects \subseteq Subjects
    BY DEF Requests
<1>2. ASSUME NEW s \in q.subjects
      PROVE  /\ Settled(q.base[s], outcome[s]) \in SubjectStates
             /\ Reviewed(Settled(q.base[s], outcome[s]))
    <2>1. q.base[s] \in SubjectStates /\ q.base[s].status = "proposed"
        BY <1>1 DEF Contents
    <2>2. outcome[s] \in Outcomes
        BY DEF CompleteOutcome
    <2>3. QED
        BY <2>1, <2>2, SettledType
<1>3. QED
    BY <1>1, <1>2 DEF ApplyDecision, Contents

\* A receipt row is well-formed when its columns are.
LEMMA ReceiptType ==
    ASSUME NEW op \in Operations, NEW a \in Aggregates, NEW expected \in 0..MaxRevision,
           NEW content \in Contents, NEW revision \in Revisions, NEW changed \in BOOLEAN
    PROVE  Receipt(op, a, expected, content, revision, changed) \in Receipts
BY DEF Receipt, Receipts

-----------------------------------------------------------------------------
LEMMA InitType == Init => TypeInv
BY StoreAssumptions DEF Init, TypeInv, TypeOK, SnapshotsProposed, Heads, Contents,
  Empty, SubjectStates

LEMMA CompareAndSwapType ==
    ASSUME TypeInv, NEW op \in Operations, NEW a \in Aggregates,
           NEW expected \in 0..MaxRevision, NEW content \in Contents,
           CompareAndSwap(op, a, expected, content)
    PROVE  TypeInv'
<1> DEFINE changed  == Changes(a, expected, content)
           revision == IF changed THEN expected + 1 ELSE expected
<1>1. revision \in Revisions
    BY StoreAssumptions DEF CompareAndSwap, Changes, Revisions
<1>2. head' \in [Aggregates -> Heads]
    BY <1>1, StoreAssumptions DEF CompareAndSwap, TypeInv, TypeOK, Heads, Revisions
<1>3. receipts' \subseteq Receipts
    <2>1. changed \in BOOLEAN
        BY DEF Changes
    <2>2. Receipt(op, a, expected, content, revision, changed) \in Receipts
        BY <1>1, <2>1, ReceiptType
    <2>3. QED
        BY <2>2 DEF CompareAndSwap, TypeInv, TypeOK
<1>4. QED
    BY <1>2, <1>3 DEF CompareAndSwap, TypeInv, TypeOK, SnapshotsProposed

LEMMA CreateReviewRequestType ==
    ASSUME TypeInv, NEW op \in Operations, NEW a \in Aggregates,
           NEW expected \in Revisions, NEW subjects \in SUBSET Subjects,
           CreateReviewRequest(op, a, expected, head[a].content, subjects)
    PROVE  TypeInv'
<1>1. head[a].content \in Contents
    BY DEF TypeInv, TypeOK, Heads
<1>2. receipts' \subseteq Receipts
    <2>1. expected \in 0..MaxRevision
        BY StoreAssumptions DEF Revisions
    <2>2. Receipt(op, a, expected, head[a].content, expected, FALSE) \in Receipts
        BY <1>1, <2>1, ReceiptType
    <2>3. QED
        BY <2>2 DEF CreateReviewRequest, TypeInv, TypeOK
<1>3. requests' \subseteq Requests
    BY <1>1 DEF CreateReviewRequest, TypeInv, TypeOK, Requests
<1>4. SnapshotsProposed'
    BY DEF CreateReviewRequest, TypeInv, SnapshotsProposed
<1>5. QED
    BY <1>2, <1>3, <1>4 DEF CreateReviewRequest, TypeInv, TypeOK

LEMMA DecideReviewType ==
    ASSUME TypeInv, NEW op \in Operations, NEW q \in requests, NEW outcome,
           DecideReview(op, q, outcome)
    PROVE  TypeInv'
<1> DEFINE content == ApplyDecision(q, outcome)
<1>1. q \in Requests
    BY DEF TypeInv, TypeOK
<1>2. content \in Contents
    BY <1>1, ApplyDecisionType DEF DecideReview, TypeInv, SnapshotsProposed
<1>3. q.agg \in Aggregates /\ q.revision \in Revisions /\ q.revision + 1 \in Revisions
    BY <1>1, StoreAssumptions DEF DecideReview, Requests, Revisions
<1>4. head' \in [Aggregates -> Heads]
    BY <1>2, <1>3 DEF DecideReview, TypeInv, TypeOK, Heads, Revisions
<1>5. receipts' \subseteq Receipts
    <2>1. q.revision \in 0..MaxRevision
        BY <1>3, StoreAssumptions DEF Revisions
    <2>2. Receipt(op, q.agg, q.revision, content, q.revision + 1, TRUE) \in Receipts
        BY <1>2, <1>3, <2>1, ReceiptType
    <2>3. QED
        BY <2>2 DEF DecideReview, TypeInv, TypeOK
<1>6. decisions' \subseteq Decisions
    <2>1. outcome \in UNION {[S -> Outcomes] : S \in SUBSET Subjects}
        BY <1>1 DEF DecideReview, CompleteOutcome, Requests
    <2>2. QED
        BY <1>1, <1>2, <1>3, <2>1 DEF DecideReview, TypeInv, TypeOK, Decisions
<1>7. QED
    BY <1>4, <1>5, <1>6 DEF DecideReview, TypeInv, TypeOK, SnapshotsProposed

LEMMA NextType == TypeInv /\ [Next]_vars => TypeInv'
<1> SUFFICES ASSUME TypeInv, [Next]_vars PROVE TypeInv'
    OBVIOUS
<1>1. ASSUME NEW op \in Operations, NEW a \in Aggregates, NEW expected \in 0..MaxRevision,
             NEW content \in Contents, CompareAndSwap(op, a, expected, content)
      PROVE  TypeInv'
    BY <1>1, CompareAndSwapType
<1>2. ASSUME NEW op \in Operations, NEW a \in Aggregates, NEW expected \in Revisions,
             NEW subjects \in SUBSET Subjects,
             CreateReviewRequest(op, a, expected, head[a].content, subjects)
      PROVE  TypeInv'
    BY <1>2, CreateReviewRequestType
<1>3. ASSUME NEW op \in Operations, NEW q \in requests, NEW outcome \in [q.subjects -> Outcomes],
             DecideReview(op, q, outcome)
      PROVE  TypeInv'
    BY <1>3, DecideReviewType
<1>4. ASSUME NEW op \in Operations, ClaimByOtherAuthority(op)
      PROVE  TypeInv'
    BY <1>4 DEF ClaimByOtherAuthority, TypeInv, TypeOK, SnapshotsProposed
<1>5. CASE UNCHANGED vars
    BY <1>5 DEF vars, TypeInv, TypeOK, SnapshotsProposed
<1>6. QED
    BY <1>1, <1>2, <1>3, <1>4, <1>5 DEF Next

\* The tables always hold rows of their declared shape: whatever calls are made,
\* no transaction writes a row that the readers could not decode.
THEOREM TypeCorrect == Spec => []TypeOK
<1>1. Init => TypeInv
    BY InitType
<1>2. TypeInv /\ [Next]_vars => TypeInv'
    BY NextType
<1>3. TypeInv => TypeOK
    BY DEF TypeInv
<1>4. QED
    BY <1>1, <1>2, <1>3, PTL DEF Spec

-----------------------------------------------------------------------------
(* The history kept by the receipts.                                       *)

\* The effect that the three write transactions have on head and receipts.
Writes(x) ==
    /\ x \in Receipts
    /\ ~Owned(x.op)
    /\ x.expected = head[x.agg].revision
    /\ x.changed <=> x.expected = 0 \/ x.content # head[x.agg].content
    /\ x.revision = IF x.changed THEN x.expected + 1 ELSE x.expected
    /\ head' = [head EXCEPT ![x.agg] = [revision |-> x.revision, content |-> x.content]]
    /\ receipts' = receipts \cup {x}

OneReceiptPerRevision ==
    \A a \in Aggregates : \A r \in 1..head[a].revision :
        \E x \in receipts : ChangedAt(a, r) = {x}

LiveContentHasReceipt ==
    \A a \in Aggregates : \A x \in ChangedAt(a, head[a].revision) :
        x.content = head[a].content

ReceiptsAgree ==
    \A x \in receipts : \A y \in ChangedAt(x.agg, x.revision) : y.content = x.content

HistoryInv ==
    /\ ValidateReceipts
    /\ OneReceiptPerRevision
    /\ LiveContentHasReceipt
    /\ ReceiptsAgree
    /\ EveryRevisionDiffers

LEMMA CompareAndSwapWrites ==
    ASSUME TypeInv, NEW op \in Operations, NEW a \in Aggregates,
           NEW expected \in 0..MaxRevision, NEW content \in Contents,
           CompareAndSwap(op, a, expected, content)
    PROVE  \E x \in Receipts : Writes(x) /\ x.op = op /\ x.agg = a /\ x.content = content
<1> DEFINE changed  == Changes(a, expected, content)
           revision == IF changed THEN expected + 1 ELSE expected
           x        == Receipt(op, a, expected, content, revision, changed)
<1>1. revision \in Revisions /\ changed \in BOOLEAN
    BY StoreAssumptions DEF CompareAndSwap, Changes, Revisions
<1>2. x \in Receipts
    BY <1>1, ReceiptType
<1>3. /\ x.op = op /\ x.agg = a /\ x.expected = expected
      /\ x.content = content /\ x.revision = revision /\ x.changed = changed
    BY DEF Receipt
<1>4. Writes(x)
    BY <1>2, <1>3 DEF CompareAndSwap, Changes, Writes
<1>5. QED
    BY <1>2, <1>3, <1>4

LEMMA CreateReviewRequestWrites ==
    ASSUME TypeInv, NEW op \in Operations, NEW a \in Aggregates,
           NEW expected \in Revisions, NEW subjects \in SUBSET Subjects,
           CreateReviewRequest(op, a, expected, head[a].content, subjects)
    PROVE  \E x \in Receipts : /\ Writes(x) /\ x.op = op /\ x.agg = a
                               /\ x.content = head[a].content
<1> DEFINE x == Receipt(op, a, expected, head[a].content, expected, FALSE)
<1>1. head[a] \in Heads /\ head[a].content \in Contents /\ expected \in 0..MaxRevision
    BY StoreAssumptions DEF TypeInv, TypeOK, Heads, Revisions
<1>2. x \in Receipts
    BY <1>1, ReceiptType
<1>3. /\ x.op = op /\ x.agg = a /\ x.expected = expected
      /\ x.content = head[a].content /\ x.revision = expected /\ x.changed = FALSE
    BY DEF Receipt
<1>4. head[a].revision = expected /\ expected # 0
    BY StoreAssumptions DEF CreateReviewRequest, Revisions
<1>5. head' = [head EXCEPT ![a] = [revision |-> expected, content |-> head[a].content]]
    <2>1. head[a] = [revision |-> expected, content |-> head[a].content]
        BY DEF CreateReviewRequest
    <2>2. head = [head EXCEPT ![a] = head[a]]
        BY DEF TypeInv, TypeOK
    <2>3. QED
        BY <2>1, <2>2 DEF CreateReviewRequest
<1>6. Writes(x)
    <2>1. ~Owned(op) /\ receipts' = receipts \cup {x}
        BY DEF CreateReviewRequest
    <2>2. QED
        BY <1>2, <1>3, <1>4, <1>5, <2>1 DEF Writes
<1>7. QED
    BY <1>2, <1>3, <1>6

LEMMA DecideReviewWrites ==
    ASSUME TypeInv, NEW op \in Operations, NEW q \in requests, q.subjects # {},
           NEW outcome, DecideReview(op, q, outcome)
    PROVE  \E x \in Receipts : /\ Writes(x) /\ x.op = op /\ x.agg = q.agg
                               /\ x.content = ApplyDecision(q, outcome)
<1> DEFINE content == ApplyDecision(q, outcome)
           x       == Receipt(op, q.agg, q.revision, content, q.revision + 1, TRUE)
<1>1. q \in Requests /\ \A s \in q.subjects : q.base[s].status = "proposed"
    BY DEF TypeInv, TypeOK, SnapshotsProposed
<1>2. content \in Contents /\ \A s \in q.subjects : Reviewed(content[s])
    BY <1>1, ApplyDecisionType DEF DecideReview
<1>3. /\ q.agg \in Aggregates /\ q.revision \in 0..MaxRevision
      /\ q.revision # 0 /\ q.revision + 1 \in Revisions
    BY <1>1, StoreAssumptions DEF DecideReview, Requests, Revisions
<1>4. x \in Receipts
    BY <1>2, <1>3, ReceiptType
<1>5. /\ x.op = op /\ x.agg = q.agg /\ x.expected = q.revision
      /\ x.content = content /\ x.revision = q.revision + 1 /\ x.changed = TRUE
    BY DEF Receipt
<1>6. head[q.agg] = [revision |-> q.revision, content |-> q.base]
    BY DEF DecideReview, Lifecycle
<1>7. content # q.base
    BY <1>1, <1>2 DEF Reviewed
<1>8. Writes(x)
    <2>1. /\ ~Owned(op) /\ receipts' = receipts \cup {x}
          /\ head' = [head EXCEPT ![q.agg] = [revision |-> q.revision + 1, content |-> content]]
        BY DEF DecideReview
    <2>2. head[q.agg].revision = q.revision /\ head[q.agg].content = q.base
        BY <1>6
    <2>3. QED
        BY <1>4, <1>5, <1>7, <2>1, <2>2 DEF Writes
<1>9. QED
    BY <1>4, <1>5, <1>8

\* The receipts of changed revisions after a write: the new one is the only one
\* of the revision it makes, and every older revision keeps those it had.
LEMMA ChangedAtAfterWrite ==
    ASSUME TypeInv, ValidateReceipts, NEW x \in Receipts, Writes(x)
    PROVE  /\ \A a \in Aggregates : \A r \in 0..head[a].revision :
                ChangedAt(a, r)' = ChangedAt(a, r)
           /\ x.changed => ChangedAt(x.agg, x.revision)' = {x}
           /\ \A a \in Aggregates : a # x.agg => head'[a] = head[a]
           /\ head'[x.agg].revision = x.revision
           /\ head'[x.agg].content = x.content
           /\ x.agg \in Aggregates
           /\ head[x.agg].revision \in Nat /\ x.revision \in Nat
<1>1. x.agg \in Aggregates /\ x.revision \in Nat /\ x.changed \in BOOLEAN
    BY StoreAssumptions DEF Receipts, Revisions
<1>2. \A a \in Aggregates : head[a].revision \in Nat
    BY StoreAssumptions DEF TypeInv, TypeOK, Heads
<1>3. head'[x.agg] = [revision |-> x.revision, content |-> x.content]
    BY <1>1 DEF Writes, TypeInv, TypeOK
<1>4. \A a \in Aggregates : a # x.agg => head'[a] = head[a]
    BY DEF Writes, TypeInv, TypeOK
<1>5. \A y \in receipts : y.agg \in Aggregates /\ y.revision \in Nat
    BY StoreAssumptions DEF TypeInv, TypeOK, Receipts, Revisions
<1>6. ASSUME NEW a \in Aggregates, NEW r \in 0..head[a].revision
      PROVE  ChangedAt(a, r)' = ChangedAt(a, r)
    <2>1. ~(x.agg = a /\ x.revision = r /\ x.changed)
        BY <1>1, <1>2 DEF Writes
    <2>2. QED
        BY <2>1 DEF Writes, ChangedAt
<1>7. ASSUME x.changed PROVE ChangedAt(x.agg, x.revision)' = {x}
    <2>1. x.revision = head[x.agg].revision + 1
        BY <1>7 DEF Writes
    <2>2. \A y \in receipts : y.agg = x.agg => y.revision # x.revision
        BY <1>1, <1>2, <1>5, <2>1 DEF ValidateReceipts
    <2>3. QED
        BY <1>7, <2>2 DEF Writes, ChangedAt
<1>8. QED
    BY <1>1, <1>2, <1>3, <1>4, <1>6, <1>7

LEMMA HistoryStep ==
    ASSUME TypeInv, HistoryInv, NEW x \in Receipts, Writes(x)
    PROVE  HistoryInv'
<1> USE DEF HistoryInv
<1>1. /\ \A a \in Aggregates : \A r \in 0..head[a].revision :
            ChangedAt(a, r)' = ChangedAt(a, r)
      /\ x.changed => ChangedAt(x.agg, x.revision)' = {x}
      /\ \A a \in Aggregates : a # x.agg => head'[a] = head[a]
      /\ head'[x.agg].revision = x.revision
      /\ head'[x.agg].content = x.content
      /\ x.agg \in Aggregates
      /\ head[x.agg].revision \in Nat /\ x.revision \in Nat
    BY ChangedAtAfterWrite
<1>2. /\ receipts' = receipts \cup {x}
      /\ x.changed \in BOOLEAN
      /\ x.changed => x.revision = head[x.agg].revision + 1
      /\ ~x.changed => /\ x.revision = head[x.agg].revision
                       /\ x.content = head[x.agg].content
    BY DEF Writes, Receipts
<1>3. \A a \in Aggregates : head[a].revision \in Nat
    BY StoreAssumptions DEF TypeInv, TypeOK, Heads
<1>4. \A y \in receipts : /\ y.agg \in Aggregates /\ y.revision \in Nat
                          /\ y.revision <= head[y.agg].revision
    BY StoreAssumptions DEF TypeInv, TypeOK, Receipts, Revisions, ValidateReceipts
<1>5. ValidateReceipts'
    <2>1. ASSUME NEW y \in receipts' PROVE y.revision <= head'[y.agg].revision
        <3>1. CASE y = x
            BY <1>1, <3>1
        <3>2. CASE y \in receipts /\ y.agg = x.agg
            BY <1>1, <1>2, <1>4, <3>2
        <3>3. CASE y \in receipts /\ y.agg # x.agg
            BY <1>1, <1>4, <3>3
        <3>4. QED
            BY <1>2, <3>1, <3>2, <3>3
    <2>2. ASSUME NEW y \in receipts'
          PROVE  y.revision = IF y.changed THEN y.expected + 1 ELSE y.expected
        BY <1>2 DEF Writes, ValidateReceipts
    <2>3. QED
        BY <2>1, <2>2 DEF ValidateReceipts
<1>6. OneReceiptPerRevision'
    <2>1. SUFFICES ASSUME NEW a \in Aggregates, NEW r \in 1..head'[a].revision
                   PROVE  \E y \in receipts' : ChangedAt(a, r)' = {y}
        BY DEF OneReceiptPerRevision
    <2>2. CASE r \in 1..head[a].revision
        <3>1. ChangedAt(a, r)' = ChangedAt(a, r)
            BY <1>1, <1>3, <2>2
        <3>2. QED
            BY <1>2, <2>2, <3>1 DEF OneReceiptPerRevision
    <2>3. CASE r \notin 1..head[a].revision
        <3>1. a = x.agg /\ x.changed /\ r = x.revision
            BY <1>1, <1>2, <1>3, <2>3
        <3>2. QED
            BY <1>1, <1>2, <3>1
    <2>4. QED
        BY <2>2, <2>3
<1>7. LiveContentHasReceipt'
    <2>1. SUFFICES ASSUME NEW a \in Aggregates, NEW y \in ChangedAt(a, head[a].revision)'
                   PROVE  y.content = head'[a].content
        BY DEF LiveContentHasReceipt
    <2>2. CASE a = x.agg /\ x.changed
        BY <1>1, <2>2
    <2>3. CASE a = x.agg /\ ~x.changed
        <3>1. ChangedAt(a, head[a].revision)' = ChangedAt(a, head[a].revision)
            <4>1. head'[a].revision = head[a].revision
                BY <1>1, <1>2, <2>3
            <4>2. ChangedAt(a, head[a].revision)' = {z \in receipts' :
                    z.agg = a /\ z.revision = head'[a].revision /\ z.changed}
                BY DEF ChangedAt
            <4>3. ~x.changed /\ receipts' = receipts \cup {x}
                BY <1>2, <2>3
            <4>4. QED
                BY <4>1, <4>2, <4>3 DEF ChangedAt
        <3>2. QED
            BY <1>1, <1>2, <2>3, <3>1 DEF LiveContentHasReceipt
    <2>4. CASE a # x.agg
        <3>1. head'[a] = head[a]
            BY <1>1, <2>4
        <3>2. y \in ChangedAt(a, head[a].revision)
            BY <1>2, <2>4, <3>1 DEF ChangedAt
        <3>3. QED
            BY <3>1, <3>2 DEF LiveContentHasReceipt
    <2>5. QED
        BY <1>2, <2>2, <2>3, <2>4
<1>8. ReceiptsAgree'
    <2>1. SUFFICES ASSUME NEW y \in receipts', NEW z \in receipts', z.changed,
                          z.agg = y.agg, z.revision = y.revision
                   PROVE  z.content = y.content
        BY DEF ReceiptsAgree, ChangedAt
    <2>2. CASE y \in receipts /\ z \in receipts
        BY <2>1, <2>2 DEF ReceiptsAgree, ChangedAt
    <2>3. CASE y = x /\ z \in receipts
        <3>1. x.revision <= head[x.agg].revision
            BY <1>4, <2>1, <2>3
        <3>2. ~x.changed
            BY <1>1, <1>2, <3>1
        <3>3. z \in ChangedAt(x.agg, head[x.agg].revision)
            BY <1>2, <2>1, <2>3, <3>2 DEF ChangedAt
        <3>4. QED
            BY <1>1, <1>2, <2>3, <3>2, <3>3 DEF LiveContentHasReceipt
    <2>4. CASE y \in receipts /\ z = x
        BY <1>1, <1>2, <1>4, <2>1, <2>4
    <2>5. QED
        BY <1>2, <2>2, <2>3, <2>4
<1>9. EveryRevisionDiffers'
    <2>1. SUFFICES ASSUME NEW y \in receipts', NEW z \in receipts', y.changed, z.changed,
                          y.agg = z.agg, z.revision = y.revision + 1
                   PROVE  y.content # z.content
        BY DEF EveryRevisionDiffers
    <2>2. CASE y \in receipts /\ z \in receipts
        BY <2>1, <2>2 DEF EveryRevisionDiffers
    <2>3. CASE y \in receipts /\ z = x
        <3>1. y.revision = head[x.agg].revision
            BY <1>1, <1>2, <1>4, <2>1, <2>3
        <3>2. y.content = head[x.agg].content
            BY <1>1, <2>1, <2>3, <3>1 DEF LiveContentHasReceipt, ChangedAt
        <3>3. x.expected # 0
            <4>1. y.revision >= 1
                BY <2>3, StoreAssumptions DEF TypeInv, TypeOK, Receipts, Revisions
            <4>2. QED
                BY <3>1, <4>1 DEF Writes
        <3>4. QED
            BY <2>1, <2>3, <3>2, <3>3 DEF Writes
    <2>4. CASE y = x
        <3>1. z.revision <= x.revision
            BY <1>1, <1>2, <1>4, <2>1, <2>4
        <3>2. QED
            BY <1>1, <2>1, <2>4, <3>1
    <2>5. QED
        BY <1>2, <2>2, <2>3, <2>4
<1>10. QED
    BY <1>5, <1>6, <1>7, <1>8, <1>9

-----------------------------------------------------------------------------
(* The review records, and the one owner of every operation id.            *)

OwnershipInv ==
    /\ \A x, y \in receipts : x.op = y.op => x = y
    /\ \A x \in receipts : x.op \notin claimed

RequestInv(q) ==
    /\ q.subjects # {}
    /\ ValidateRequest(q)
    /\ \A x \in ChangedAt(q.agg, q.revision) : x.content = q.base

ReviewsInv ==
    /\ \A q \in requests : RequestInv(q)
    /\ \A d \in decisions : d.request \in requests /\ ValidateDecision(d)

DecidedInv == SubjectDecidedOnce /\ ReviewedStateIsDecided

StoreInv ==
    /\ TypeInv
    /\ HistoryInv
    /\ OwnershipInv
    /\ ReviewsInv
    /\ DecidedInv
    /\ ReplacementsAreDecidedFirst

LEMMA OwnershipStep ==
    ASSUME OwnershipInv, NEW x \in Receipts, Writes(x), claimed' = claimed
    PROVE  OwnershipInv'
BY DEF OwnershipInv, Writes, Owned

\* A write leaves the records of the reviews there were before it valid.
LEMMA OldReviewsStep ==
    ASSUME TypeInv, HistoryInv, ReviewsInv, NEW x \in Receipts, Writes(x)
    PROVE  /\ \A q \in requests : RequestInv(q)'
           /\ \A d \in decisions : ValidateDecision(d)'
<1>1. receipts \subseteq receipts'
    BY DEF Writes
<1>2. ASSUME NEW q \in requests PROVE RequestInv(q)'
    <2>1. RequestInv(q)
        BY DEF ReviewsInv
    <2>2. q.agg \in Aggregates /\ q.revision \in 0..head[q.agg].revision
        <3>1. q.agg \in Aggregates /\ q.revision \in Nat /\ head[q.agg].revision \in Nat
            BY StoreAssumptions DEF TypeInv, TypeOK, Requests, Revisions, Heads
        <3>2. q.revision <= head[q.agg].revision
            BY <2>1 DEF RequestInv, ValidateRequest, HistoryInv, ValidateReceipts, Receipt
        <3>3. QED
            BY <3>1, <3>2
    <2>3. ChangedAt(q.agg, q.revision)' = ChangedAt(q.agg, q.revision)
        BY <2>2, ChangedAtAfterWrite DEF HistoryInv
    <2>4. ValidateRequest(q)'
        BY <1>1, <2>1 DEF RequestInv, ValidateRequest
    <2>5. QED
        BY <2>1, <2>3, <2>4 DEF RequestInv
<1>3. ASSUME NEW d \in decisions PROVE ValidateDecision(d)'
    BY <1>1 DEF ReviewsInv, ValidateDecision
<1>4. QED
    BY <1>2, <1>3

LEMMA CompareAndSwapStep ==
    ASSUME StoreInv, NEW op \in Operations, NEW a \in Aggregates,
           NEW expected \in 0..MaxRevision, NEW content \in Contents,
           CompareAndSwap(op, a, expected, content)
    PROVE  StoreInv'
<1> USE DEF StoreInv
<1>1. PICK x \in Receipts : Writes(x) /\ x.op = op /\ x.agg = a /\ x.content = content
    BY CompareAndSwapWrites
<1>2. UNCHANGED <<requests, decisions, claimed>>
    BY DEF CompareAndSwap
<1>3. \A b \in Aggregates : head'[b].content = IF b = a THEN content ELSE head[b].content
    BY <1>1, ChangedAtAfterWrite DEF HistoryInv
<1>4. TypeInv' /\ HistoryInv' /\ OwnershipInv'
    BY <1>1, <1>2, CompareAndSwapType, HistoryStep, OwnershipStep
<1>5. ReviewsInv'
    BY <1>1, <1>2, OldReviewsStep DEF ReviewsInv
<1>6. \A b \in Aggregates, s \in Subjects :
        /\ Reviewed(head'[b].content[s]) <=> Reviewed(head[b].content[s])
        /\ Reviewed(head[b].content[s]) => head'[b].content[s] = head[b].content[s]
    BY <1>3 DEF CompareAndSwap, NonReviewTransition
<1>7. DecidedInv'
    <2>1. SubjectDecidedOnce'
        BY <1>2 DEF DecidedInv, SubjectDecidedOnce
    <2>2. ASSUME NEW b \in Aggregates, NEW s \in Subjects
          PROVE  LET covering == {d \in decisions : d.request.agg = b /\ s \in d.request.subjects}
                 IN  /\ Reviewed(head'[b].content[s]) <=> covering # {}
                     /\ \A d \in covering : head'[b].content[s] = d.content[s]
        <3> DEFINE covering == {d \in decisions : d.request.agg = b /\ s \in d.request.subjects}
        <3>1. /\ Reviewed(head[b].content[s]) <=> covering # {}
              /\ \A d \in covering : head[b].content[s] = d.content[s]
            BY DEF DecidedInv, ReviewedStateIsDecided
        <3>2. QED
            BY <1>6, <3>1
    <2>3. QED
        BY <1>2, <2>1, <2>2 DEF DecidedInv, ReviewedStateIsDecided
<1>8. ReplacementsAreDecidedFirst'
    BY <1>2 DEF ReplacementsAreDecidedFirst
<1>9. QED
    BY <1>4, <1>5, <1>7, <1>8

LEMMA CreateReviewRequestStep ==
    ASSUME StoreInv, NEW op \in Operations, NEW a \in Aggregates,
           NEW expected \in Revisions, NEW subjects \in SUBSET Subjects,
           CreateReviewRequest(op, a, expected, head[a].content, subjects)
    PROVE  StoreInv'
<1> USE DEF StoreInv
<1> DEFINE q == [op |-> op, agg |-> a, revision |-> expected,
                 base |-> head[a].content, subjects |-> subjects]
<1>1. PICK x \in Receipts : Writes(x) /\ x.op = op /\ x.agg = a /\ x.content = head[a].content
    BY CreateReviewRequestWrites
<1>2. /\ UNCHANGED <<head, decisions, claimed>>
      /\ requests' = requests \cup {q}
      /\ head[a] = [revision |-> expected, content |-> head[a].content]
      /\ subjects # {}
      /\ \A s \in subjects : head[a].content[s].status = "proposed"
      /\ receipts' = receipts \cup
            {Receipt(op, a, expected, head[a].content, expected, FALSE)}
    BY DEF CreateReviewRequest
<1>3. TypeInv' /\ HistoryInv' /\ OwnershipInv'
    BY <1>1, <1>2, CreateReviewRequestType, HistoryStep, OwnershipStep
<1>4. RequestInv(q)'
    <2>1. ValidateRequest(q)'
        BY <1>2 DEF ValidateRequest
    <2>2. \A y \in ChangedAt(a, expected)' : y.content = head[a].content
        <3>1. head'[a] = head[a] /\ head[a].revision = expected
            BY <1>2
        <3>2. \A y \in receipts' : y.agg = a /\ y.revision = head'[a].revision /\ y.changed
                => y.content = head'[a].content
            BY <1>3 DEF HistoryInv, LiveContentHasReceipt, ChangedAt
        <3>3. QED
            BY <3>1, <3>2 DEF ChangedAt
    <2>3. QED
        BY <1>2, <2>1, <2>2 DEF RequestInv
<1>5. ReviewsInv'
    BY <1>1, <1>2, <1>4, OldReviewsStep DEF ReviewsInv
<1>6. DecidedInv'
    BY <1>2 DEF DecidedInv, SubjectDecidedOnce, ReviewedStateIsDecided
<1>7. ReplacementsAreDecidedFirst'
    BY <1>2 DEF ReplacementsAreDecidedFirst
<1>8. QED
    BY <1>3, <1>5, <1>6, <1>7

\* The decision d that reviews q finds the replacements that its accepted
\* constraints rest on accepted by itself or by an earlier decision.
LEMMA DecisionFollowsReplacements ==
    ASSUME StoreInv, NEW q \in requests, NEW outcome, NEW d,
           Lifecycle(q) = "open", CompleteOutcome(q, outcome),
           Valid(ApplyDecision(q, outcome)),
           decisions' = decisions \cup {d},
           d.request = q, d.revision = q.revision + 1,
           d.content = ApplyDecision(q, outcome)
    PROVE  ReplacementsAreDecidedFirst'
<1> USE DEF StoreInv
<1>1. /\ q \in Requests /\ q.agg \in Aggregates
      /\ q.revision \in Nat /\ head[q.agg].revision = q.revision
      /\ head[q.agg].content = q.base
      /\ \A s \in q.subjects : q.base[s].status = "proposed"
    BY DEF TypeInv, TypeOK, SnapshotsProposed, Requests, Revisions, Lifecycle
<1>2. \A s \in Subjects \ q.subjects : d.content[s] = q.base[s]
    BY <1>1, ApplyDecisionType
<1>3. ASSUME NEW e \in decisions, e.request.agg = q.agg
      PROVE  e.revision <= d.revision
    <2>1. PICK x \in receipts : x.agg = q.agg /\ x.revision = e.revision
        <3>1. ValidateDecision(e)
            BY DEF ReviewsInv
        <3>2. Receipt(e.op, q.agg, e.request.revision, e.content, e.revision, TRUE)
                \in receipts
            BY <1>3, <3>1 DEF ValidateDecision
        <3>3. QED
            BY <3>2 DEF Receipt
    <2>2. x.revision <= head[q.agg].revision
        BY <2>1 DEF HistoryInv, ValidateReceipts
    <2>3. e.revision \in Nat
        BY DEF TypeInv, TypeOK, Decisions, Revisions
    <2>4. QED
        BY <1>1, <2>1, <2>2, <2>3
<1>4. ASSUME NEW c \in Constraints, c \in q.subjects, d.content[c].status = "accepted",
             NEW r \in Basis[c]
      PROVE  \E e \in decisions' : /\ e.request.agg = q.agg /\ e.revision <= d.revision
                                    /\ r \in e.request.subjects
                                    /\ e.content[r].status = "accepted"
    <2>1. r \in Subjects /\ d.content[r].status = "accepted"
        BY <1>4, StoreAssumptions DEF Valid, Subjects
    <2>2. CASE r \in q.subjects
        <3>1. d.revision <= d.revision
            BY <1>1
        <3>2. QED
            BY <2>1, <2>2, <3>1
    <2>3. CASE r \notin q.subjects
        <3>1. head[q.agg].content[r] = d.content[r] /\ Reviewed(head[q.agg].content[r])
            BY <1>1, <1>2, <2>1, <2>3 DEF Reviewed
        <3>2. PICK e \in decisions : e.request.agg = q.agg /\ r \in e.request.subjects
            BY <1>1, <2>1, <3>1 DEF DecidedInv, ReviewedStateIsDecided
        <3>3. e.content[r] = d.content[r]
            BY <1>1, <2>1, <3>1, <3>2 DEF DecidedInv, ReviewedStateIsDecided
        <3>4. e.revision <= d.revision
            BY <1>3, <3>2
        <3>5. QED
            BY <2>1, <3>2, <3>3, <3>4
    <2>4. QED
        BY <2>2, <2>3
<1>5. ASSUME NEW f \in decisions', NEW c \in Constraints \cap f.request.subjects,
             f.content[c].status = "accepted", NEW r \in Basis[c]
      PROVE  \E e \in decisions' : /\ e.request.agg = f.request.agg
                                    /\ e.revision <= f.revision
                                    /\ r \in e.request.subjects
                                    /\ e.content[r].status = "accepted"
    <2>1. CASE f = d
        BY <1>4, <1>5, <2>1
    <2>2. CASE f \in decisions
        BY <1>5, <2>2 DEF ReplacementsAreDecidedFirst
    <2>3. QED
        BY <2>1, <2>2
<1>6. QED
    BY <1>5 DEF ReplacementsAreDecidedFirst

LEMMA DecideReviewStep ==
    ASSUME StoreInv, NEW op \in Operations, NEW q \in requests, NEW outcome,
           DecideReview(op, q, outcome)
    PROVE  StoreInv'
<1> USE DEF StoreInv
<1> DEFINE content == ApplyDecision(q, outcome)
           d == [op |-> op, request |-> q, outcome |-> outcome,
                 revision |-> q.revision + 1, content |-> content]
<1>1. /\ q \in Requests
      /\ q.subjects # {} /\ q.subjects \subseteq Subjects /\ q.agg \in Aggregates
      /\ \A s \in q.subjects : q.base[s].status = "proposed"
    BY DEF TypeInv, TypeOK, SnapshotsProposed, ReviewsInv, RequestInv, Requests
<1>2. PICK x \in Receipts : Writes(x) /\ x.op = op /\ x.agg = q.agg /\ x.content = content
    BY <1>1, DecideReviewWrites
<1>3. /\ UNCHANGED <<requests, claimed>>
      /\ decisions' = decisions \cup {d}
      /\ head[q.agg].content = q.base
      /\ CompleteOutcome(q, outcome)
      /\ Valid(content)
      /\ Receipt(op, q.agg, q.revision, content, q.revision + 1, TRUE) \in receipts'
    BY DEF DecideReview, Lifecycle
<1>4. \A b \in Aggregates :
        head'[b].content = IF b = q.agg THEN content ELSE head[b].content
    BY <1>2, ChangedAtAfterWrite DEF HistoryInv
<1>5. /\ \A s \in q.subjects : Reviewed(content[s])
      /\ \A s \in Subjects \ q.subjects : content[s] = q.base[s]
    BY <1>1, <1>3, ApplyDecisionType
<1>6. TypeInv' /\ HistoryInv' /\ OwnershipInv'
    BY <1>2, <1>3, DecideReviewType, HistoryStep, OwnershipStep
<1>7. ReviewsInv'
    <2>1. ValidateDecision(d)'
        BY <1>3 DEF ValidateDecision
    <2>2. \A e \in decisions' : e.request \in requests' /\ ValidateDecision(e)'
        BY <1>2, <1>3, <2>1, OldReviewsStep DEF ReviewsInv
    <2>3. \A p \in requests' : RequestInv(p)'
        BY <1>2, <1>3, OldReviewsStep DEF ReviewsInv
    <2>4. QED
        BY <2>2, <2>3 DEF ReviewsInv
<1>8. \A e \in decisions : e.request.agg = q.agg => e.request.subjects \cap q.subjects = {}
    <2>1. SUFFICES ASSUME NEW e \in decisions, e.request.agg = q.agg,
                          NEW s \in e.request.subjects \cap q.subjects
                   PROVE  FALSE
        OBVIOUS
    <2>2. Reviewed(head[q.agg].content[s])
        BY <1>1, <2>1 DEF DecidedInv, ReviewedStateIsDecided
    <2>3. QED
        BY <1>1, <1>3, <2>1, <2>2 DEF Reviewed
<1>9. SubjectDecidedOnce'
    BY <1>3, <1>8 DEF DecidedInv, SubjectDecidedOnce
<1>10. ReviewedStateIsDecided'
    <2>1. SUFFICES ASSUME NEW b \in Aggregates, NEW s \in Subjects
                   PROVE  LET covering == {e \in decisions' :
                                e.request.agg = b /\ s \in e.request.subjects}
                          IN  /\ Reviewed(head'[b].content[s]) <=> covering # {}
                              /\ \A e \in covering : head'[b].content[s] = e.content[s]
        BY DEF ReviewedStateIsDecided
    <2> DEFINE old == {e \in decisions : e.request.agg = b /\ s \in e.request.subjects}
               new == {e \in decisions' : e.request.agg = b /\ s \in e.request.subjects}
    <2>2. /\ Reviewed(head[b].content[s]) <=> old # {}
          /\ \A e \in old : head[b].content[s] = e.content[s]
        BY DEF DecidedInv, ReviewedStateIsDecided
    <2>3. CASE b = q.agg /\ s \in q.subjects
        <3>1. old = {}
            BY <1>8, <2>3
        <3>2. new = {d}
            BY <1>3, <2>3, <3>1
        <3>3. head'[b].content[s] = content[s] /\ Reviewed(content[s])
            BY <1>4, <1>5, <2>3
        <3>4. d.content = content
            OBVIOUS
        <3>5. QED
            BY <3>2, <3>3, <3>4
    <2>4. CASE ~(b = q.agg /\ s \in q.subjects)
        <3>1. new = old
            BY <1>3, <2>4
        <3>2. head'[b].content[s] = head[b].content[s]
            BY <1>3, <1>4, <1>5, <2>4
        <3>3. QED
            BY <2>2, <3>1, <3>2
    <2>5. QED
        BY <2>3, <2>4
<1>11. ReplacementsAreDecidedFirst'
    <2>1. Lifecycle(q) = "open"
        BY DEF DecideReview
    <2>2. d.request = q /\ d.revision = q.revision + 1 /\ d.content = content
        OBVIOUS
    <2>3. QED
        BY <1>3, <2>1, <2>2, DecisionFollowsReplacements
<1>12. QED
    BY <1>6, <1>7, <1>9, <1>10, <1>11 DEF DecidedInv

LEMMA ClaimByOtherAuthorityStep ==
    ASSUME StoreInv, NEW op \in Operations, ClaimByOtherAuthority(op)
    PROVE  StoreInv'
<1>1. UNCHANGED <<head, receipts, requests, decisions>> /\ claimed' = claimed \cup {op}
    BY DEF ClaimByOtherAuthority
<1>2. OwnershipInv'
    BY <1>1 DEF ClaimByOtherAuthority, Owned, OwnershipInv, StoreInv
<1>3. TypeInv'
    BY <1>1 DEF TypeInv, TypeOK, SnapshotsProposed, StoreInv
<1>4. HistoryInv'
    BY <1>1 DEF HistoryInv, ValidateReceipts, OneReceiptPerRevision,
      LiveContentHasReceipt, ReceiptsAgree, EveryRevisionDiffers, ChangedAt, StoreInv
<1>5. ReviewsInv'
    BY <1>1 DEF ReviewsInv, RequestInv, ValidateRequest, ValidateDecision, ChangedAt,
      StoreInv
<1>6. DecidedInv'
    BY <1>1 DEF DecidedInv, SubjectDecidedOnce, ReviewedStateIsDecided, StoreInv
<1>7. ReplacementsAreDecidedFirst'
    BY <1>1 DEF ReplacementsAreDecidedFirst, StoreInv
<1>8. QED
    BY <1>2, <1>3, <1>4, <1>5, <1>6, <1>7 DEF StoreInv

LEMMA StutterStep ==
    ASSUME StoreInv, UNCHANGED vars
    PROVE  StoreInv'
<1> USE DEF StoreInv
<1>1. UNCHANGED <<head, receipts, requests, decisions, claimed>>
    BY DEF vars
<1>2. TypeInv'
    BY <1>1 DEF TypeInv, TypeOK, SnapshotsProposed
<1>3. HistoryInv'
    BY <1>1 DEF HistoryInv, ValidateReceipts, OneReceiptPerRevision,
      LiveContentHasReceipt, ReceiptsAgree, EveryRevisionDiffers, ChangedAt
<1>4. OwnershipInv'
    BY <1>1 DEF OwnershipInv
<1>5. ReviewsInv'
    BY <1>1 DEF ReviewsInv, RequestInv, ValidateRequest, ValidateDecision, ChangedAt
<1>6. DecidedInv'
    BY <1>1 DEF DecidedInv, SubjectDecidedOnce, ReviewedStateIsDecided
<1>7. ReplacementsAreDecidedFirst'
    BY <1>1 DEF ReplacementsAreDecidedFirst
<1>8. QED
    BY <1>2, <1>3, <1>4, <1>5, <1>6, <1>7

LEMMA InitStoreInv == Init => StoreInv
<1> SUFFICES ASSUME Init PROVE StoreInv
    OBVIOUS
<1>1. TypeInv
    BY InitType
<1>2. /\ \A a \in Aggregates : head[a].revision = 0 /\ head[a].content = Empty
      /\ receipts = {} /\ requests = {} /\ decisions = {}
    BY DEF Init
<1>3. HistoryInv
    BY <1>2 DEF HistoryInv, ValidateReceipts, OneReceiptPerRevision,
      LiveContentHasReceipt, ReceiptsAgree, EveryRevisionDiffers, ChangedAt
<1>4. OwnershipInv /\ ReviewsInv
    BY <1>2 DEF OwnershipInv, ReviewsInv
<1>5. \A a \in Aggregates, s \in Subjects : head[a].content[s].status = "absent"
    BY <1>2 DEF Empty, Absent
<1>6. DecidedInv
    BY <1>2, <1>5 DEF DecidedInv, SubjectDecidedOnce, ReviewedStateIsDecided, Reviewed
<1>7. ReplacementsAreDecidedFirst
    BY <1>2 DEF ReplacementsAreDecidedFirst
<1>8. QED
    BY <1>1, <1>3, <1>4, <1>6, <1>7 DEF StoreInv

LEMMA NextStoreInv == StoreInv /\ [Next]_vars => StoreInv'
<1> SUFFICES ASSUME StoreInv, [Next]_vars PROVE StoreInv'
    OBVIOUS
<1>1. ASSUME NEW op \in Operations, NEW a \in Aggregates, NEW expected \in 0..MaxRevision,
             NEW content \in Contents, CompareAndSwap(op, a, expected, content)
      PROVE  StoreInv'
    BY <1>1, CompareAndSwapStep
<1>2. ASSUME NEW op \in Operations, NEW a \in Aggregates, NEW expected \in Revisions,
             NEW subjects \in SUBSET Subjects,
             CreateReviewRequest(op, a, expected, head[a].content, subjects)
      PROVE  StoreInv'
    BY <1>2, CreateReviewRequestStep
<1>3. ASSUME NEW op \in Operations, NEW q \in requests, NEW outcome \in [q.subjects -> Outcomes],
             DecideReview(op, q, outcome)
      PROVE  StoreInv'
    BY <1>3, DecideReviewStep
<1>4. ASSUME NEW op \in Operations, ClaimByOtherAuthority(op)
      PROVE  StoreInv'
    BY <1>4, ClaimByOtherAuthorityStep
<1>5. CASE UNCHANGED vars
    BY <1>5, StutterStep
<1>6. QED
    BY <1>1, <1>2, <1>3, <1>4, <1>5 DEF Next

THEOREM StoreInvariant == Spec => []StoreInv
BY InitStoreInv, NextStoreInv, PTL DEF Spec

-----------------------------------------------------------------------------
\* No calls, in any order and with any operation ids, lead to tables that the
\* validation at the start of every later transaction would reject.
THEOREM StoreAlwaysValidates == Spec => []StoreValidates
<1>1. StoreInv => StoreValidates
    <2> SUFFICES ASSUME StoreInv PROVE StoreValidates
        OBVIOUS
    <2>1. ValidateReceipts /\ ValidateReviews
        BY DEF StoreInv, HistoryInv, ReviewsInv, RequestInv, ValidateReviews
    <2>2. ASSUME NEW q \in requests, NEW d \in decisions PROVE q.op # d.op
        <3> DEFINE x == Receipt(q.op, q.agg, q.revision, q.base, q.revision, FALSE)
                   y == Receipt(d.op, d.request.agg, d.request.revision, d.content,
                                d.revision, TRUE)
        <3>1. x \in receipts /\ y \in receipts
            BY DEF StoreInv, ReviewsInv, RequestInv, ValidateRequest, ValidateDecision
        <3>2. x.op = q.op /\ y.op = d.op /\ x.changed # y.changed
            BY DEF Receipt
        <3>3. QED
            BY <3>1, <3>2 DEF StoreInv, OwnershipInv
    <2>3. ValidateOperationOwnership
        BY <2>2 DEF StoreInv, OwnershipInv, ValidateOperationOwnership
    <2>4. QED
        BY <2>1, <2>3 DEF StoreValidates
<1>2. QED
    BY <1>1, StoreInvariant, PTL

\* The receipts form one gapless history per aggregate that ends in the live head.
THEOREM HistoryNeverForks == Spec => []ReceiptsFormOneHistory
<1>1. StoreInv => ReceiptsFormOneHistory
    BY DEF StoreInv, HistoryInv, OneReceiptPerRevision, LiveContentHasReceipt,
      ReceiptsAgree, ReceiptsFormOneHistory
<1>2. QED
    BY <1>1, StoreInvariant, PTL

\* A revision always changes the content of the one before it.
THEOREM RevisionsDiffer == Spec => []EveryRevisionDiffers
<1>1. StoreInv => EveryRevisionDiffers
    BY DEF StoreInv, HistoryInv
<1>2. QED
    BY <1>1, StoreInvariant, PTL

\* Every decision was made on the content that was live at the revision it
\* names, and its result is the next revision.
THEOREM DecisionsBindTheirBase == Spec => []DecisionsSeeTheirRevision
<1>1. StoreInv => DecisionsSeeTheirRevision
    <2> SUFFICES ASSUME StoreInv, NEW d \in decisions
                 PROVE  /\ \A x \in ChangedAt(d.request.agg, d.request.revision) :
                                x.content = d.request.base
                        /\ \E x \in ChangedAt(d.request.agg, d.request.revision + 1) :
                                x.op = d.op
        BY DEF DecisionsSeeTheirRevision
    <2>1. d.request \in requests /\ RequestInv(d.request) /\ ValidateDecision(d)
        BY DEF StoreInv, ReviewsInv
    <2>2. Receipt(d.op, d.request.agg, d.request.revision, d.content,
                  d.request.revision + 1, TRUE)
            \in ChangedAt(d.request.agg, d.request.revision + 1)
        BY <2>1 DEF ValidateDecision, ChangedAt, Receipt
    <2>3. QED
        BY <2>1, <2>2 DEF RequestInv, Receipt
<1>2. QED
    BY <1>1, StoreInvariant, PTL

\* No subject is ever decided twice.
THEOREM DecidedAtMostOnce == Spec => []SubjectDecidedOnce
<1>1. StoreInv => SubjectDecidedOnce
    BY DEF StoreInv, DecidedInv
<1>2. QED
    BY <1>1, StoreInvariant, PTL

\* A live subject is reviewed exactly when a decision covered it, and is then
\* as that decision left it.
THEOREM ReviewsAreFinal == Spec => []ReviewedStateIsDecided
<1>1. StoreInv => ReviewedStateIsDecided
    BY DEF StoreInv, DecidedInv
<1>2. QED
    BY <1>1, StoreInvariant, PTL

\* No constraint is accepted before the replacements it rests on.
THEOREM ReplacementsFirst == Spec => []ReplacementsAreDecidedFirst
<1>1. StoreInv => ReplacementsAreDecidedFirst
    BY DEF StoreInv
<1>2. QED
    BY <1>1, StoreInvariant, PTL

-----------------------------------------------------------------------------
(* What a step may do to a review.                                         *)

\* A request that is not decided is stale exactly when the head has moved on.
LEMMA StaleIsBehind ==
    ASSUME StoreInv, NEW q \in requests
    PROVE  /\ q.agg \in Aggregates
           /\ q.revision \in Nat /\ head[q.agg].revision \in Nat
           /\ q.revision <= head[q.agg].revision
           /\ Lifecycle(q) = "open" <=>
                DecisionsOf(q) = {} /\ head[q.agg].revision = q.revision
<1>1. /\ q.agg \in Aggregates /\ q.revision \in Revisions
      /\ head[q.agg] \in Heads
    BY DEF StoreInv, TypeInv, TypeOK, Requests
<1>2. q.revision \in Nat /\ head[q.agg].revision \in Nat /\ q.revision >= 1
    BY <1>1, StoreAssumptions DEF Revisions, Heads
<1>3. RequestInv(q)
    BY DEF StoreInv, ReviewsInv
<1>4. q.revision <= head[q.agg].revision
    BY <1>3 DEF RequestInv, ValidateRequest, StoreInv, HistoryInv, ValidateReceipts, Receipt
<1>5. ASSUME head[q.agg].revision = q.revision PROVE head[q.agg].content = q.base
    <2>1. PICK x \in receipts : ChangedAt(q.agg, q.revision) = {x}
        BY <1>1, <1>2, <1>5 DEF StoreInv, HistoryInv, OneReceiptPerRevision
    <2>2. x.content = q.base
        BY <1>3, <2>1 DEF RequestInv
    <2>3. x.content = head[q.agg].content
        BY <1>1, <1>5, <2>1 DEF StoreInv, HistoryInv, LiveContentHasReceipt
    <2>4. QED
        BY <2>2, <2>3
<1>6. head[q.agg] = [revision |-> q.revision, content |-> q.base]
        <=> head[q.agg].revision = q.revision
    BY <1>1, <1>5 DEF Heads
<1>7. QED
    BY <1>1, <1>2, <1>4, <1>6 DEF Lifecycle

\* Revisions never go back, rows never go away, and only an open request is decided.
LEMMA StepMonotone ==
    ASSUME StoreInv, [Next]_vars, NEW q \in requests
    PROVE  /\ head[q.agg].revision <= head'[q.agg].revision
           /\ q \in requests'
           /\ DecisionsOf(q) \subseteq DecisionsOf(q)'
           /\ Lifecycle(q) # "open" => DecisionsOf(q)' = DecisionsOf(q)
<1>1. q.agg \in Aggregates /\ head[q.agg].revision \in Nat
    BY StaleIsBehind
<1>2. ASSUME NEW x \in Receipts, Writes(x)
      PROVE  head[q.agg].revision <= head'[q.agg].revision
    <2>1. TypeInv /\ ValidateReceipts
        BY DEF StoreInv, HistoryInv
    <2>2. CASE q.agg = x.agg
        <3>1. head'[q.agg].revision = x.revision /\ head[x.agg].revision \in Nat
            BY <1>2, <2>1, <2>2, ChangedAtAfterWrite
        <3>2. QED
            BY <1>2, <2>2, <3>1 DEF Writes
    <2>3. CASE q.agg # x.agg
        BY <1>1, <1>2, <2>1, <2>3, ChangedAtAfterWrite
    <2>4. QED
        BY <2>2, <2>3
<1> DEFINE Monotone ==
        /\ head[q.agg].revision <= head'[q.agg].revision
        /\ q \in requests'
        /\ DecisionsOf(q) \subseteq DecisionsOf(q)'
        /\ Lifecycle(q) # "open" => DecisionsOf(q)' = DecisionsOf(q)
<1>3. ASSUME NEW op \in Operations, NEW a \in Aggregates, NEW expected \in 0..MaxRevision,
             NEW content \in Contents, CompareAndSwap(op, a, expected, content)
      PROVE  Monotone
    <2>1. head[q.agg].revision <= head'[q.agg].revision
        BY <1>2, <1>3, CompareAndSwapWrites DEF StoreInv
    <2>2. QED
        BY <1>3, <2>1 DEF CompareAndSwap, DecisionsOf
<1>4. ASSUME NEW op \in Operations, NEW a \in Aggregates, NEW expected \in Revisions,
             NEW subjects \in SUBSET Subjects,
             CreateReviewRequest(op, a, expected, head[a].content, subjects)
      PROVE  Monotone
    BY <1>1, <1>4 DEF CreateReviewRequest, DecisionsOf
<1>5. ASSUME NEW op \in Operations, NEW p \in requests,
             NEW outcome \in [p.subjects -> Outcomes], DecideReview(op, p, outcome)
      PROVE  Monotone
    <2>1. p.subjects # {}
        BY DEF StoreInv, ReviewsInv, RequestInv
    <2>2. head[q.agg].revision <= head'[q.agg].revision
        BY <1>2, <1>5, <2>1, DecideReviewWrites DEF StoreInv
    <2>3. PICK d : d.request = p /\ decisions' = decisions \cup {d}
        BY <1>5 DEF DecideReview
    <2>4. requests' = requests /\ Lifecycle(p) = "open"
        BY <1>5 DEF DecideReview
    <2>5. QED
        BY <2>2, <2>3, <2>4 DEF DecisionsOf
<1>6. ASSUME NEW op \in Operations, ClaimByOtherAuthority(op) PROVE Monotone
    BY <1>1, <1>6 DEF ClaimByOtherAuthority, DecisionsOf
<1>7. ASSUME UNCHANGED vars PROVE Monotone
    BY <1>1, <1>7 DEF vars, DecisionsOf
<1> HIDE DEF Monotone
<1>8. Monotone
    BY <1>3, <1>4, <1>5, <1>6, <1>7 DEF Next
<1>9. QED
    BY <1>8 DEF Monotone

\* A stale request stays stale and a decided one decided, whatever is written
\* later, the very content it was made for included.
THEOREM ReviewsStayClosed == Spec => ReviewsNeverReopen
<1>1. ASSUME StoreInv, StoreInv', [Next]_vars, NEW q \in requests, Lifecycle(q) # "open"
      PROVE  Lifecycle(q)' = Lifecycle(q)
    <2>1. /\ head[q.agg].revision <= head'[q.agg].revision
          /\ q \in requests'
          /\ DecisionsOf(q)' = DecisionsOf(q)
        BY <1>1, StepMonotone
    <2>2. CASE DecisionsOf(q) # {}
        BY <2>1, <2>2 DEF Lifecycle
    <2>3. CASE DecisionsOf(q) = {}
        <3>1. head[q.agg].revision # q.revision /\ q.revision <= head[q.agg].revision
              /\ q.revision \in Nat /\ head[q.agg].revision \in Nat
            BY <1>1, <2>3, StaleIsBehind
        <3>2. head'[q.agg].revision \in Nat
            BY <1>1, <3>1, StoreAssumptions DEF StoreInv, TypeInv, TypeOK, Requests, Heads
        <3>3. head'[q.agg].revision # q.revision
            BY <2>1, <3>1, <3>2
        <3>4. head'[q.agg] # [revision |-> q.revision, content |-> q.base]
            BY <3>3
        <3>5. Lifecycle(q) = "stale"
            BY <1>1, <2>3 DEF Lifecycle
        <3>6. QED
            BY <2>1, <2>3, <3>4, <3>5 DEF Lifecycle
    <2>4. QED
        BY <2>2, <2>3
<1>2. StoreInv /\ StoreInv' /\ [Next]_vars =>
        [\A q \in requests : Lifecycle(q) # "open" => Lifecycle(q)' = Lifecycle(q)]_vars
    BY <1>1
<1>3. QED
    BY <1>2, StoreInvariant, PTL DEF Spec, ReviewsNeverReopen

\* No two requests of one aggregate revision share a subject.
RequestsDisjoint ==
    \A p, q \in requests :
        p # q /\ p.agg = q.agg /\ p.revision = q.revision => p.subjects \cap q.subjects = {}

LEMMA RequestsDisjointInvariant == Spec => []RequestsDisjoint
<1>1. Init => RequestsDisjoint
    BY DEF Init, RequestsDisjoint
<1>2. RequestsDisjoint /\ [Next]_vars => RequestsDisjoint'
    <2> SUFFICES ASSUME RequestsDisjoint, [Next]_vars PROVE RequestsDisjoint'
        OBVIOUS
    <2>1. ASSUME NEW op \in Operations, NEW a \in Aggregates, NEW expected \in Revisions,
                 NEW subjects \in SUBSET Subjects,
                 CreateReviewRequest(op, a, expected, head[a].content, subjects)
          PROVE  RequestsDisjoint'
        <3> DEFINE new == [op |-> op, agg |-> a, revision |-> expected,
                           base |-> head[a].content, subjects |-> subjects]
        <3>1. /\ requests' = requests \cup {new}
              /\ \A q \in requests :
                    q.agg = a /\ q.revision = expected => q.subjects \cap subjects = {}
            BY <2>1 DEF CreateReviewRequest
        <3>2. new.agg = a /\ new.revision = expected /\ new.subjects = subjects
            OBVIOUS
        <3> HIDE DEF new
        <3>3. QED
            BY <3>1, <3>2 DEF RequestsDisjoint
    <2>2. ASSUME UNCHANGED requests PROVE RequestsDisjoint'
        BY <2>2 DEF RequestsDisjoint
    <2>3. QED
        BY <2>1, <2>2 DEF Next, vars, CompareAndSwap, DecideReview, ClaimByOtherAuthority
<1>3. QED
    BY <1>1, <1>2, PTL DEF Spec

\* No write but its own decision changes a subject while its request is open.
THEOREM OpenSubjectsStay == Spec => OpenSubjectsAreFrozen
<1> DEFINE Frozen(q) == \A s \in q.subjects : head'[q.agg].content[s] = q.base[s]
<1>1. ASSUME StoreInv, RequestsDisjoint, [Next]_vars, NEW q \in requests,
             Lifecycle(q) = "open", Lifecycle(q)' # "decided"
      PROVE  Frozen(q)
    <2>1. /\ DecisionsOf(q) = {} /\ DecisionsOf(q)' = {}
          /\ head[q.agg].revision = q.revision /\ head[q.agg].content = q.base
          /\ q.agg \in Aggregates /\ q.subjects \subseteq Subjects
        BY <1>1 DEF Lifecycle, StoreInv, TypeInv, TypeOK, Requests
    <2>2. ASSUME NEW op \in Operations, NEW a \in Aggregates, NEW expected \in 0..MaxRevision,
                 NEW content \in Contents, CompareAndSwap(op, a, expected, content)
          PROVE  Frozen(q)
        <3>1. \A b \in Aggregates :
                head'[b].content = IF b = a THEN content ELSE head[b].content
            BY <1>1, <2>2, CompareAndSwapWrites, ChangedAtAfterWrite DEF StoreInv,
              HistoryInv
        <3>2. CASE q.agg = a
            <4>1. q.subjects \subseteq Bound(a)
                BY <1>1, <2>1, <3>2 DEF Bound
            <4>2. \A s \in q.subjects : content[s] = head[a].content[s]
                BY <2>2, <4>1 DEF CompareAndSwap, NonReviewTransition
            <4>3. QED
                BY <2>1, <3>1, <3>2, <4>2
        <3>3. CASE q.agg # a
            BY <2>1, <3>1, <3>3
        <3>4. QED
            BY <3>2, <3>3
    <2>3. ASSUME NEW op \in Operations, NEW p \in requests,
                 NEW outcome \in [p.subjects -> Outcomes], DecideReview(op, p, outcome)
          PROVE  Frozen(q)
        <3>1. /\ p # q
              /\ Lifecycle(p) = "open"
              /\ \A s \in p.subjects : p.base[s].status = "proposed"
              /\ p \in Requests /\ p.subjects # {}
              /\ CompleteOutcome(p, outcome)
            <4>1. \E d : d.request = p /\ d \in decisions'
                BY <2>3 DEF DecideReview
            <4>2. p # q
                BY <2>1, <4>1 DEF DecisionsOf
            <4>3. QED
                BY <1>1, <2>3, <4>2 DEF DecideReview, StoreInv, TypeInv, TypeOK,
                  SnapshotsProposed, ReviewsInv, RequestInv
        <3>2. \A b \in Aggregates :
                head'[b].content = IF b = p.agg THEN ApplyDecision(p, outcome)
                                                ELSE head[b].content
            BY <1>1, <2>3, <3>1, DecideReviewWrites, ChangedAtAfterWrite DEF StoreInv,
              HistoryInv
        <3>3. CASE q.agg = p.agg
            <4>1. p.revision = q.revision /\ p.base = q.base
                BY <2>1, <3>1, <3>3 DEF Lifecycle
            <4>2. q.subjects \subseteq Subjects \ p.subjects
                BY <1>1, <2>1, <3>1, <3>3, <4>1 DEF RequestsDisjoint
            <4>3. \A s \in Subjects \ p.subjects : ApplyDecision(p, outcome)[s] = p.base[s]
                BY <3>1, ApplyDecisionType
            <4>4. QED
                BY <2>1, <3>2, <3>3, <4>1, <4>2, <4>3
        <3>4. CASE q.agg # p.agg
            BY <2>1, <3>2, <3>4
        <3>5. QED
            BY <3>3, <3>4
    <2>4. ASSUME UNCHANGED head PROVE Frozen(q)
        BY <2>1, <2>4
    <2> HIDE DEF Frozen
    <2>5. QED
        BY <1>1, <2>2, <2>3, <2>4 DEF Next, vars, CreateReviewRequest, ClaimByOtherAuthority
<1>2. StoreInv /\ RequestsDisjoint /\ [Next]_vars =>
        [\A q \in requests : Lifecycle(q) = "open" /\ Lifecycle(q)' # "decided" =>
            \A s \in q.subjects : head'[q.agg].content[s] = q.base[s]]_vars
    BY <1>1
<1>3. QED
    BY <1>2, StoreInvariant, RequestsDisjointInvariant, PTL DEF Spec, OpenSubjectsAreFrozen

-----------------------------------------------------------------------------
(* The store implements the reviewed history.                               *)

\* An aggregate that was never written is empty.
UnwrittenIsEmpty ==
    \A a \in Aggregates : head[a].revision = 0 => head[a].content = Empty

LEMMA WritesMove ==
    ASSUME StoreInv, NEW x \in Receipts, Writes(x)
    PROVE  /\ x.agg \in Aggregates
           /\ head'[x.agg].revision = x.revision
           /\ head'[x.agg].content = x.content
           /\ \A a \in Aggregates : a # x.agg => head'[a] = head[a]
           /\ x.revision \in Nat /\ x.revision # 0
<1>1. TypeInv
    BY DEF StoreInv
<1>2. /\ x.agg \in Aggregates
      /\ head'[x.agg] = [revision |-> x.revision, content |-> x.content]
      /\ \A a \in Aggregates : a # x.agg => head'[a] = head[a]
    BY <1>1 DEF Writes, TypeInv, TypeOK, Receipts
<1>3. x.revision \in Nat /\ x.revision # 0
    BY StoreAssumptions DEF Receipts, Revisions
<1>4. QED
    BY <1>2, <1>3

\* Every step that changes head or receipts is one of the three writes.
LEMMA StepKinds ==
    ASSUME StoreInv, [Next]_vars
    PROVE  \/ \E x \in Receipts :
                /\ Writes(x) /\ claimed' = claimed /\ x.op \in Operations
                /\ \/ \A s \in Subjects :
                        (Reviewed(x.content[s]) \/ Reviewed(head[x.agg].content[s])) =>
                            x.content[s] = head[x.agg].content[s]
                   \/ /\ x.content # head[x.agg].content
                      /\ \A s \in Subjects :
                            \/ x.content[s] = head[x.agg].content[s]
                            \/ head[x.agg].content[s].status = "proposed" /\ Reviewed(x.content[s])
           \/ \E op \in Operations :
                ~Owned(op) /\ claimed' = claimed \cup {op} /\ UNCHANGED <<head, receipts>>
           \/ UNCHANGED vars
<1> DEFINE Ordinary(x) ==
            \A s \in Subjects :
                (Reviewed(x.content[s]) \/ Reviewed(head[x.agg].content[s])) =>
                    x.content[s] = head[x.agg].content[s]
           Judged(x) ==
            /\ x.content # head[x.agg].content
            /\ \A s \in Subjects :
                \/ x.content[s] = head[x.agg].content[s]
                \/ head[x.agg].content[s].status = "proposed" /\ Reviewed(x.content[s])
           WriteStep == \E x \in Receipts :
                /\ Writes(x) /\ claimed' = claimed /\ x.op \in Operations
                /\ Ordinary(x) \/ Judged(x)
           ClaimStep == \E op \in Operations :
                ~Owned(op) /\ claimed' = claimed \cup {op} /\ UNCHANGED <<head, receipts>>
<1>1. ASSUME NEW op \in Operations, NEW a \in Aggregates, NEW expected \in 0..MaxRevision,
             NEW content \in Contents, CompareAndSwap(op, a, expected, content)
      PROVE  WriteStep
    <2>1. PICK x \in Receipts : Writes(x) /\ x.op = op /\ x.agg = a /\ x.content = content
        BY <1>1, CompareAndSwapWrites DEF StoreInv
    <2>2. Ordinary(x) /\ claimed' = claimed
        BY <1>1, <2>1 DEF CompareAndSwap, NonReviewTransition
    <2>3. QED
        BY <2>1, <2>2
<1>2. ASSUME NEW op \in Operations, NEW a \in Aggregates, NEW expected \in Revisions,
             NEW subjects \in SUBSET Subjects,
             CreateReviewRequest(op, a, expected, head[a].content, subjects)
      PROVE  WriteStep
    <2>1. PICK x \in Receipts :
            Writes(x) /\ x.op = op /\ x.agg = a /\ x.content = head[a].content
        BY <1>2, CreateReviewRequestWrites DEF StoreInv
    <2>2. Ordinary(x) /\ claimed' = claimed
        BY <1>2, <2>1 DEF CreateReviewRequest
    <2>3. QED
        BY <2>1, <2>2
<1>3. ASSUME NEW op \in Operations, NEW q \in requests,
             NEW outcome \in [q.subjects -> Outcomes], DecideReview(op, q, outcome)
      PROVE  WriteStep
    <2>1. /\ q \in Requests /\ q.subjects # {} /\ q.subjects \subseteq Subjects
          /\ \A s \in q.subjects : q.base[s].status = "proposed"
        BY DEF StoreInv, TypeInv, TypeOK, SnapshotsProposed, ReviewsInv, RequestInv,
          Requests
    <2>2. PICK x \in Receipts :
            Writes(x) /\ x.op = op /\ x.agg = q.agg /\ x.content = ApplyDecision(q, outcome)
        BY <1>3, <2>1, DecideReviewWrites DEF StoreInv
    <2>3. head[q.agg].content = q.base /\ claimed' = claimed /\ CompleteOutcome(q, outcome)
        BY <1>3 DEF DecideReview, Lifecycle
    <2>4. /\ \A s \in q.subjects : Reviewed(x.content[s])
          /\ \A s \in Subjects \ q.subjects : x.content[s] = q.base[s]
        BY <2>1, <2>2, <2>3, ApplyDecisionType
    <2>5. x.content # head[q.agg].content
        BY <2>1, <2>3, <2>4 DEF Reviewed
    <2>6. Judged(x)
        BY <2>1, <2>2, <2>3, <2>4, <2>5
    <2>7. QED
        BY <2>2, <2>3, <2>6
<1>4. ASSUME NEW op \in Operations, ClaimByOtherAuthority(op) PROVE ClaimStep
    BY <1>4 DEF ClaimByOtherAuthority
<1> HIDE DEF WriteStep, ClaimStep
<1>5. WriteStep \/ ClaimStep \/ UNCHANGED vars
    BY <1>1, <1>2, <1>3, <1>4 DEF Next
<1>6. QED
    BY <1>5 DEF WriteStep, ClaimStep

LEMMA UnwrittenInvariant == Spec => []UnwrittenIsEmpty
<1>1. Init => UnwrittenIsEmpty
    BY DEF Init, UnwrittenIsEmpty
<1>2. StoreInv /\ UnwrittenIsEmpty /\ [Next]_vars => UnwrittenIsEmpty'
    <2> SUFFICES ASSUME StoreInv, UnwrittenIsEmpty, [Next]_vars PROVE UnwrittenIsEmpty'
        OBVIOUS
    <2>1. ASSUME NEW x \in Receipts, Writes(x) PROVE UnwrittenIsEmpty'
        <3>1. /\ x.agg \in Aggregates /\ head'[x.agg].revision # 0
              /\ \A a \in Aggregates : a # x.agg => head'[a] = head[a]
            BY <2>1, WritesMove
        <3>2. QED
            BY <3>1 DEF UnwrittenIsEmpty, Empty
    <2>2. ASSUME UNCHANGED head PROVE UnwrittenIsEmpty'
        BY <2>2 DEF UnwrittenIsEmpty, Empty
    <2>3. (\E x \in Receipts : Writes(x)) \/ UNCHANGED head
        BY StepKinds DEF vars
    <2>4. QED
        BY <2>1, <2>2, <2>3
<1>3. QED
    BY <1>1, <1>2, StoreInvariant, PTL DEF Spec

-----------------------------------------------------------------------------
(* The receipts as a history.                                              *)

LEMMA ContentAtWrite ==
    ASSUME StoreInv, NEW x \in Receipts, Writes(x)
    PROVE  /\ \A a \in Aggregates : \A r \in 0..head[a].revision :
                ContentAt(a, r)' = ContentAt(a, r)
           /\ x.changed => \A r : r = x.revision => ContentAt(x.agg, r)' = x.content
<1>1. /\ \A a \in Aggregates : \A r \in 0..head[a].revision :
            ChangedAt(a, r)' = ChangedAt(a, r)
      /\ x.changed => ChangedAt(x.agg, x.revision)' = {x}
    BY ChangedAtAfterWrite DEF StoreInv, HistoryInv
<1>2. ASSUME NEW a \in Aggregates, NEW r \in 0..head[a].revision
      PROVE  ContentAt(a, r)' = ContentAt(a, r)
    BY <1>1 DEF ContentAt
<1>3. ASSUME x.changed, NEW r, r = x.revision PROVE ContentAt(x.agg, r)' = x.content
    <2>1. ChangedAt(x.agg, r)' = {x}
        BY <1>1, <1>3 DEF ChangedAt
    <2>2. QED
        BY <2>1 DEF ContentAt
<1>4. QED
    BY <1>2, <1>3

\* A write appends its content to the history when it makes a revision, and
\* leaves the history as it was when it does not.
LEMMA HistoryAfterWrite ==
    ASSUME StoreInv, StoreInv', NEW x \in Receipts, Writes(x)
    PROVE  ReceiptHistory' =
            IF x.changed
            THEN [ReceiptHistory EXCEPT ![x.agg] = Append(ReceiptHistory[x.agg], x.content)]
            ELSE ReceiptHistory
<1>1. \A a \in Aggregates : head[a].revision \in Nat /\ head'[a].revision \in Nat
    BY StoreAssumptions DEF StoreInv, TypeInv, TypeOK, Heads
<1>2. /\ x.agg \in Aggregates
      /\ head'[x.agg].revision = x.revision
      /\ \A a \in Aggregates : a # x.agg => head'[a] = head[a]
    BY WritesMove
<1>3. /\ \A a \in Aggregates : \A r \in 0..head[a].revision :
            ContentAt(a, r)' = ContentAt(a, r)
      /\ x.changed => \A r : r = x.revision => ContentAt(x.agg, r)' = x.content
    BY ContentAtWrite
<1>4. /\ x.changed => x.revision = head[x.agg].revision + 1
      /\ ~x.changed => x.revision = head[x.agg].revision
    BY DEF Writes
<1> DEFINE H(a)  == [r \in 1..head[a].revision |-> ContentAt(a, r)]
           HN(a) == [r \in 1..head'[a].revision |-> ContentAt(a, r)']
<1>5. ASSUME NEW a \in Aggregates, head'[a].revision = head[a].revision
      PROVE  HN(a) = H(a)
    BY <1>1, <1>3, <1>5
<1>6. ASSUME x.changed PROVE HN(x.agg) = Append(H(x.agg), x.content)
    <2> DEFINE n == head[x.agg].revision
    <2>1. n \in Nat /\ head'[x.agg].revision = n + 1 /\ x.revision = n + 1
        BY <1>1, <1>2, <1>4, <1>6
    <2>2. \A r \in 1..n : ContentAt(x.agg, r)' = ContentAt(x.agg, r)
        BY <1>2, <1>3, <2>1
    <2>3. \A r : r = n + 1 => ContentAt(x.agg, r)' = x.content
        BY <1>3, <1>6, <2>1
    <2>4. Len(H(x.agg)) = n
        BY <2>1
    <2>5. Append(H(x.agg), x.content) =
            [r \in 1..(n + 1) |-> IF r \in 1..n THEN H(x.agg)[r] ELSE x.content]
        BY <2>1, <2>4
    <2>6. HN(x.agg) = [r \in 1..(n + 1) |-> ContentAt(x.agg, r)']
        BY <2>1
    <2>7. ASSUME NEW r \in 1..(n + 1)
          PROVE  ContentAt(x.agg, r)' = IF r \in 1..n THEN H(x.agg)[r] ELSE x.content
        <3>1. CASE r \in 1..n
            BY <2>2, <3>1
        <3>2. CASE r \notin 1..n
            BY <2>1, <2>3, <3>2
        <3>3. QED
            BY <3>1, <3>2
    <2>8. QED
        BY <2>5, <2>6, <2>7
<1>7. ReceiptHistory = [a \in Aggregates |-> H(a)] /\ ReceiptHistory' = [a \in Aggregates |-> HN(a)]
    BY DEF ReceiptHistory
<1> HIDE DEF H, HN
<1>8. CASE x.changed
    BY <1>2, <1>5, <1>6, <1>7, <1>8
<1>9. CASE ~x.changed
    <2>1. \A a \in Aggregates : head'[a].revision = head[a].revision
        BY <1>2, <1>4, <1>9
    <2>2. QED
        BY <1>5, <1>7, <1>9, <2>1
<1>10. QED
    BY <1>8, <1>9

\* The last content of the history is the live one.
LEMMA LatestIsLive ==
    ASSUME StoreInv, UnwrittenIsEmpty, NEW a \in Aggregates
    PROVE  History!Latest(a) = head[a].content
<1> DEFINE n == head[a].revision
<1>1. n \in Nat
    BY StoreAssumptions DEF StoreInv, TypeInv, TypeOK, Heads
<1>2. ReceiptHistory[a] = [r \in 1..n |-> ContentAt(a, r)]
    BY DEF ReceiptHistory
<1>3. CASE n = 0
    <2>1. ReceiptHistory[a] = <<>>
        BY <1>2, <1>3
    <2>2. QED
        BY <1>3, <2>1 DEF History!Latest, UnwrittenIsEmpty, Empty
<1>4. CASE n # 0
    <2>1. Len(ReceiptHistory[a]) = n /\ ReceiptHistory[a] # <<>>
        BY <1>1, <1>2, <1>4
    <2>2. ReceiptHistory[a][n] = ContentAt(a, n)
        BY <1>1, <1>2, <1>4
    <2>3. PICK x \in receipts : ChangedAt(a, n) = {x}
        BY <1>1, <1>4 DEF StoreInv, HistoryInv, OneReceiptPerRevision
    <2>4. ContentAt(a, n) = x.content
        BY <2>3 DEF ContentAt
    <2>5. x.content = head[a].content
        BY <2>3 DEF StoreInv, HistoryInv, LiveContentHasReceipt
    <2>6. QED
        BY <2>1, <2>2, <2>4, <2>5 DEF History!Latest
<1>5. QED
    BY <1>3, <1>4

-----------------------------------------------------------------------------
\* An operation is used when some authority owns it.
LEMMA UsedIsOwned == ASSUME NEW op PROVE op \in UsedOperations <=> Owned(op)
BY DEF UsedOperations, Owned

\* A write that makes a revision is a step of the history; one that only leaves
\* a receipt is an observation.
LEMMA WriteMapsToHistory ==
    ASSUME StoreInv, StoreInv', UnwrittenIsEmpty, NEW x \in Receipts, Writes(x),
           claimed' = claimed,
           \/ \A s \in Subjects :
                (Reviewed(x.content[s]) \/ Reviewed(head[x.agg].content[s])) =>
                    x.content[s] = head[x.agg].content[s]
           \/ /\ x.content # head[x.agg].content
              /\ \A s \in Subjects :
                    \/ x.content[s] = head[x.agg].content[s]
                    \/ head[x.agg].content[s].status = "proposed" /\ Reviewed(x.content[s])
    PROVE  History!Next
<1>1. x.agg \in Aggregates /\ x.op \in Operations /\ x.content \in History!Contents
    BY DEF Receipts, Contents, History!Contents
<1>2. x.op \notin UsedOperations /\ UsedOperations' = UsedOperations \cup {x.op}
    <2>1. x.op \notin UsedOperations
        BY UsedIsOwned DEF Writes
    <2>2. receipts' = receipts \cup {x}
        BY DEF Writes
    <2>3. QED
        BY <2>1, <2>2 DEF UsedOperations
<1>3. CASE x.changed
    <2>1. History!Extend(x.op, x.agg, x.content)
        BY <1>2, <1>3, HistoryAfterWrite DEF History!Extend
    <2>2. History!Latest(x.agg) = head[x.agg].content
        BY <1>1, LatestIsLive
    <2>3. History!Propose(x.op, x.agg, x.content) \/ History!Review(x.op, x.agg, x.content)
        BY <2>1, <2>2 DEF History!Propose, History!Review, History!Reviewed, Reviewed
    <2>4. QED
        BY <1>1, <1>2, <2>3 DEF History!Next
<1>4. CASE ~x.changed
    <2>1. History!Observe(x.op)
        BY <1>2, <1>4, HistoryAfterWrite DEF History!Observe
    <2>2. QED
        BY <1>1, <1>2, <2>1 DEF History!Next
<1>5. QED
    BY <1>3, <1>4

\* The store keeps the promise of ReviewedHistory: whatever calls are made, its
\* receipts tell one growing history per aggregate, in which every operation id
\* takes effect at most once and only decisions review.
THEOREM StoreImplementsHistory == Spec => ImplementsReviewedHistory
<1>1. Init => History!Init
    <2> SUFFICES ASSUME Init PROVE History!Init
        OBVIOUS
    <2>1. \A a \in Aggregates : head[a].revision = 0
        BY DEF Init
    <2>2. ASSUME NEW a \in Aggregates
          PROVE  [r \in 1..head[a].revision |-> ContentAt(a, r)] = <<>>
        BY <2>1
    <2>3. ReceiptHistory = [a \in Aggregates |-> <<>>]
        BY <2>2 DEF ReceiptHistory
    <2>4. UsedOperations = {}
        BY DEF Init, UsedOperations
    <2>5. QED
        BY <2>3, <2>4 DEF History!Init
<1>2. ASSUME StoreInv, StoreInv', UnwrittenIsEmpty, [Next]_vars
      PROVE  [History!Next]_(History!vars)
    <2>1. ASSUME NEW op \in Operations, ~Owned(op), claimed' = claimed \cup {op},
                 UNCHANGED <<head, receipts>>
          PROVE  History!Next
        <3>1. op \notin UsedOperations /\ UsedOperations' = UsedOperations \cup {op}
            BY <2>1, UsedIsOwned DEF UsedOperations
        <3>2. ReceiptHistory' = ReceiptHistory
            BY <2>1 DEF ReceiptHistory, ContentAt, ChangedAt
        <3>3. QED
            BY <3>1, <3>2 DEF History!Next, History!Observe
    <2>2. ASSUME UNCHANGED vars PROVE UNCHANGED History!vars
        BY <2>2 DEF vars, History!vars, ReceiptHistory, ContentAt, ChangedAt, UsedOperations
    <2>3. QED
        BY <1>2, <2>1, <2>2, StepKinds, WriteMapsToHistory
<1>3. QED
    BY <1>1, <1>2, StoreInvariant, UnwrittenInvariant, PTL DEF Spec,
      ImplementsReviewedHistory, History!Spec

-----------------------------------------------------------------------------
(* The statuses of the review workflow.                                      *)

\* The theorems of TemporalReviewWorkflow are about the very model that is composed.
WorkflowProofs == INSTANCE TemporalReviewWorkflowProofs WITH
    Decisions <- Verdicts, pc <- place, call <- invocation

LEMMA SameWorkflow ==
    /\ Workflow!WorkflowAssumption => WorkflowProofs!WorkflowAssumption
    /\ Workflow!Init => WorkflowProofs!Init
    /\ Workflow!Next => WorkflowProofs!Next
    /\ Workflow!vars = WorkflowProofs!vars
    /\ WorkflowProofs!CompleteIsFinal => Workflow!CompleteIsFinal
<1>1. ASSUME NEW view, NEW t
      PROVE  Workflow!Phase(view, t) = WorkflowProofs!Phase(view, t)
  BY DEF Workflow!Phase, WorkflowProofs!Phase
<1>2. ASSUME NEW c, NEW ph, NEW t
      PROVE  /\ Workflow!Invocation(c, ph, t) = WorkflowProofs!Invocation(c, ph, t)
             /\ Workflow!Raises(c, ph) = WorkflowProofs!Raises(c, ph)
  BY DEF Workflow!Invocation, WorkflowProofs!Invocation, Workflow!Raises,
    WorkflowProofs!Raises, Workflow!Initial, WorkflowProofs!Initial, Workflow!Woken,
    WorkflowProofs!Woken, Workflow!Continued, WorkflowProofs!Continued
<1>3. ASSUME NEW s \in Services, Workflow!Step(s)
      PROVE  WorkflowProofs!Step(s)
  <2>1. Workflow!Idle(s) = WorkflowProofs!Idle(s)
    BY DEF Workflow!Idle, WorkflowProofs!Idle
  <2>2. ASSUME NEW t PROVE Workflow!Settled(t) = WorkflowProofs!Settled(t)
    BY DEF Workflow!Settled, WorkflowProofs!Settled
  <2>3. Workflow!Runs(s) = WorkflowProofs!Runs(s)
    BY <2>2 DEF Workflow!Runs, WorkflowProofs!Runs
  <2>4. CASE Workflow!Invoke(s)
    BY <1>1, <1>2, <2>4 DEF Workflow!Invoke, WorkflowProofs!Invoke, WorkflowProofs!Step
  <2>5. CASE Workflow!Raise(s)
    BY <1>1, <1>2, <2>1, <2>5 DEF Workflow!Raise, WorkflowProofs!Raise, WorkflowProofs!Step
  <2>6. CASE Workflow!Report(s)
    BY <1>1, <1>2, <2>1, <2>6 DEF Workflow!Report, WorkflowProofs!Report,
      WorkflowProofs!Step
  <2>7. CASE Workflow!Reconcile(s)
    BY <2>3, <2>7 DEF Workflow!Reconcile, WorkflowProofs!Reconcile, Workflow!Observed,
      WorkflowProofs!Observed, WorkflowProofs!Step
  <2>8. CASE Workflow!AwaitWakeSignal(s)
    BY <2>3, <2>8 DEF Workflow!AwaitWakeSignal, WorkflowProofs!AwaitWakeSignal,
      WorkflowProofs!Step
  <2>9. CASE Workflow!Save(s)
    BY <2>1, <2>2, <2>9 DEF Workflow!Save, WorkflowProofs!Save, WorkflowProofs!Step
  <2>10. CASE Workflow!ReadAgain(s)
    BY <2>10 DEF Workflow!ReadAgain, WorkflowProofs!ReadAgain, WorkflowProofs!Step
  <2> QED
    BY <1>3, <2>4, <2>5, <2>6, <2>7, <2>8, <2>9, <2>10 DEF Workflow!Step
<1>4. ASSUME NEW s \in Services
      PROVE  /\ Workflow!ReconcileFails(s) => WorkflowProofs!ReconcileFails(s)
             /\ Workflow!Crash(s) => WorkflowProofs!Crash(s)
             /\ \A c : Workflow!Begin(s, c) => WorkflowProofs!Begin(s, c)
  BY DEF Workflow!ReconcileFails, WorkflowProofs!ReconcileFails, Workflow!Runs,
    WorkflowProofs!Runs, Workflow!Settled, WorkflowProofs!Settled, Workflow!Crash,
    WorkflowProofs!Crash, Workflow!Idle, WorkflowProofs!Idle, Workflow!Begin,
    WorkflowProofs!Begin
<1>5. /\ Workflow!AuthorityCloses => WorkflowProofs!AuthorityCloses
      /\ Workflow!Discard => WorkflowProofs!Discard
  BY DEF Workflow!AuthorityCloses, WorkflowProofs!AuthorityCloses, Workflow!Authorities,
    WorkflowProofs!Authorities, Workflow!Discard, WorkflowProofs!Discard
<1>6. Workflow!Next => WorkflowProofs!Next
  BY <1>3, <1>4, <1>5 DEF Workflow!Next, WorkflowProofs!Next
<1>7. /\ Workflow!WorkflowAssumption => WorkflowProofs!WorkflowAssumption
      /\ Workflow!Init => WorkflowProofs!Init
      /\ Workflow!vars = WorkflowProofs!vars
      /\ WorkflowProofs!CompleteIsFinal => Workflow!CompleteIsFinal
  BY DEF Workflow!WorkflowAssumption, WorkflowProofs!WorkflowAssumption, Workflow!Init,
    WorkflowProofs!Init, Workflow!vars, WorkflowProofs!vars, Workflow!CompleteIsFinal,
    WorkflowProofs!CompleteIsFinal
<1> QED BY <1>6, <1>7

\* "complete" is the last thing any checkpoint, and any caller of the review workflow,
\* is told of a review: what is there when it is reported is a closed authority
\* (reconcile of temporal_review_workflow.py), whatever the other services of the same
\* thread, crashes and a discarded checkpoint do meanwhile.
THEOREM StatusesAreFinal == ChangeSpec => []CompleteIsFinal
<1>1. WorkflowProofs!WorkflowAssumption
  BY SameWorkflow, ChangeControlAssumption DEF ChangeControlAssumption
<1>2. ChangeInit => WorkflowProofs!Inv
  BY <1>1, SameWorkflow, WorkflowProofs!InvInit DEF ChangeInit
<1>3. WorkflowProofs!Inv /\ [ChangeNext]_allVars => WorkflowProofs!Inv'
  <2>1. UNCHANGED workflowVars => UNCHANGED WorkflowProofs!vars
    BY DEF workflowVars, WorkflowProofs!vars
  <2>2. [ChangeNext]_allVars => [WorkflowProofs!Next]_WorkflowProofs!vars
    BY <2>1, SameWorkflow DEF ChangeNext, allVars
  <2> QED BY <1>1, <2>2, WorkflowProofs!NextKeepsInv
<1>4. WorkflowProofs!Inv => CompleteIsFinal
  <2>1. WorkflowProofs!Inv => WorkflowProofs!CompleteIsFinal
    BY DEF WorkflowProofs!Inv, WorkflowProofs!Final, WorkflowProofs!CompleteIsFinal
  <2> QED BY <2>1, SameWorkflow DEF CompleteIsFinal
<1> QED BY <1>2, <1>3, <1>4, PTL DEF ChangeSpec

-----------------------------------------------------------------------------
(* The sessions of queries.                                                  *)

Stages == {"index", "store", "lookup", "select", "query", "answer"}
Pins == [bytes : FileContents, stamp : Nat]
Sessions ==
    [at : Stages \cup {"closed"}, checks : Seq(Query!Files),
     pin : [Query!Files -> Pins \cup {None}], selector : Query!Selectors,
     serve : Query!Files, base : {0, 1}, exact : BOOLEAN]

\* A pinned file is as it was, or another program has written it since.
Pinned(s, f) == s.pin[f] \in Pins /\ (s.pin[f] = opened[f] \/ s.pin[f].stamp < opened[f].stamp)

\* The files a query may read while it is searched.
Searched(s) == {s.serve, "vault"}

\* What the steps so far have checked of what is pinned; and of an answer that is not
\* exact, a file that was written since is still to be verified.
SessionInv(s) ==
    /\ s.at \in Stages => Pinned(s, "vault")
    /\ s.at \in Stages \ {"index"} =>
        Pinned(s, "index") /\ s.pin["index"].bytes = s.pin["vault"].bytes
    /\ s.at \in {"select", "query", "answer"} => s.pin["vault"].bytes = Adopted
    /\ s.at \in Stages \ {"query", "answer"} => s.exact
    /\ s.at \in {"query", "answer"} =>
        /\ s.serve = IF s.base = 0 \/ s.selector = "legacy" THEN "index" ELSE "managed"
        /\ Pinned(s, s.serve) /\ s.pin[s.serve].bytes = Adopted
    /\ s.at = "query" => s.exact \/ \E f \in Searched(s) : s.pin[f] # opened[f]
    /\ s.at = "answer" =>
        \/ s.exact
        \/ \E f \in Searched(s) :
            s.pin[f] # opened[f] /\ \E i \in 1..Len(s.checks) : s.checks[i] = f

QueryInvariant ==
    /\ opened \in [Query!Files -> Pins]
    /\ active \in {0, 1}
    /\ session \in [Services -> Sessions]
    /\ \A q \in Services : session[q] = Query!Closed \/ session[q].at \in Stages
    /\ \A q \in Services : SessionInv(session[q])

\* A session in which only what the step says of it changes.
LEMMA SessionGoesOn ==
    ASSUME QueryInvariant, NEW q \in Services, UNCHANGED <<opened, active>>,
           NEW s \in Sessions, session' = [session EXCEPT ![q] = s],
           s = Query!Closed \/ s.at \in Stages, SessionInv(s)
    PROVE  QueryInvariant'
<1>1. /\ session' \in [Services -> Sessions] /\ session'[q] = s
      /\ \A r \in Services \ {q} : session'[r] = session[r]
  BY DEF QueryInvariant
<1>2. ASSUME NEW t, SessionInv(t)
      PROVE  SessionInv(t)'
  BY <1>2 DEF SessionInv, Pinned, Searched
<1>3. ASSUME NEW r \in Services
      PROVE  SessionInv(session'[r])
  BY <1>1, <1>3 DEF QueryInvariant
<1>4. ASSUME NEW r \in Services
      PROVE  SessionInv(session[r])'
  <2>1. PICK t : t = session'[r]
    OBVIOUS
  <2>2. SessionInv(t)'
    BY <1>2, <1>3, <2>1
  <2> QED BY <2>1, <2>2 DEF SessionInv, Pinned, Searched
<1>5. \A r \in Services : session'[r] = Query!Closed \/ session'[r].at \in Stages
  BY <1>1 DEF QueryInvariant
<1> QED BY <1>1, <1>4, <1>5 DEF QueryInvariant

LEMMA ClosedSession ==
    ASSUME QueryInvariant \/ ChangeControlAssumption
    PROVE  Query!Closed \in Sessions /\ SessionInv(Query!Closed) /\ Query!Closed.at = "closed"
<1>1. Query!Closed \in Sessions
  BY DEF Query!Closed, Sessions, Query!Files, Query!Selectors
<1> QED BY <1>1 DEF Query!Closed, SessionInv, Stages

LEMMA SessionFinishes ==
    ASSUME QueryInvariant, NEW q \in Services, UNCHANGED <<opened, active>>,
           NEW what, Query!Finish(q, what)
    PROVE  QueryInvariant'
<1>1. PICK s : s = Query!Closed
  OBVIOUS
<1>2. s \in Sessions /\ SessionInv(s) /\ session' = [session EXCEPT ![q] = s]
  BY <1>1, ClosedSession DEF Query!Finish
<1> QED BY <1>1, <1>2, SessionGoesOn

LEMMA OpenSession ==
    ASSUME QueryInvariant, NEW q \in Services, session[q].at # "closed"
    PROVE  session[q] \in Sessions /\ session[q].at \in Stages /\ SessionInv(session[q])
BY ClosedSession DEF QueryInvariant

LEMMA QueryStarts ==
    ASSUME ChangeControlAssumption, Query!Init
    PROVE  QueryInvariant
<1>1. Query!Closed \in Sessions /\ SessionInv(Query!Closed)
  BY ClosedSession
<1>2. opened \in [Query!Files -> Pins]
  BY DEF Query!Init, Pins
<1> QED BY <1>1, <1>2 DEF Query!Init, QueryInvariant

LEMMA OpenSessionStep ==
    ASSUME QueryInvariant, NEW q \in Services, NEW selector \in Query!Selectors,
           Query!Open(q, selector)
    PROVE  QueryInvariant'
<1>1. session[q] = Query!Closed /\ UNCHANGED <<opened, active>>
  BY DEF Query!Open, Query!environment
<1>2. PICK pin : pin = [session[q].pin EXCEPT !["vault"] = opened["vault"]]
  OBVIOUS
<1>3. PICK s : s = [session[q] EXCEPT !.at = "index", !.selector = selector, !.pin = pin]
  OBVIOUS
<1>4. session[q] \in Sessions /\ session' = [session EXCEPT ![q] = s]
  BY <1>2, <1>3 DEF Query!Open, QueryInvariant
<1>5. pin \in [Query!Files -> Pins \cup {None}] /\ pin["vault"] = opened["vault"]
      /\ pin["vault"] \in Pins
  BY <1>2, <1>4 DEF QueryInvariant, Sessions, Query!Files
<1>6. s \in Sessions /\ s.at = "index" /\ s.pin = pin /\ s.exact = session[q].exact
  BY <1>3, <1>4, <1>5 DEF Sessions, Stages
<1>7. session[q].exact
  BY <1>1 DEF Query!Closed
<1>8. SessionInv(s)
  BY <1>5, <1>6, <1>7 DEF SessionInv, Pinned, Stages
<1> QED BY <1>1, <1>4, <1>6, <1>8, SessionGoesOn DEF Stages

LEMMA PinIndexStep ==
    ASSUME QueryInvariant, NEW q \in Services, Query!PinIndex(q)
    PROVE  QueryInvariant'
<1>1. session[q].at = "index" /\ UNCHANGED <<opened, active>>
  BY DEF Query!PinIndex, Query!Ready, Query!environment
<1>2. session[q] \in Sessions /\ SessionInv(session[q])
  BY <1>1, OpenSession
<1>3. CASE Query!Finish(q, "refused")
  BY <1>1, <1>3, SessionFinishes
<1>4. CASE /\ opened["index"].bytes = session[q].pin["vault"].bytes
           /\ session' = [session EXCEPT ![q].at = "store", ![q].pin["index"] = opened["index"]]
  <2>1. PICK pin : pin = [session[q].pin EXCEPT !["index"] = opened["index"]]
    OBVIOUS
  <2>2. PICK s : s = [session[q] EXCEPT !.at = "store", !.pin = pin]
    OBVIOUS
  <2>3. session' = [session EXCEPT ![q] = s]
    BY <1>4, <2>1, <2>2 DEF QueryInvariant
  <2>4. /\ pin \in [Query!Files -> Pins \cup {None}] /\ pin["index"] = opened["index"]
        /\ pin["index"] \in Pins /\ pin["vault"] = session[q].pin["vault"]
    BY <1>2, <2>1 DEF QueryInvariant, Sessions, Query!Files
  <2>5. s \in Sessions /\ s.at = "store" /\ s.pin = pin /\ s.exact = session[q].exact
    BY <1>2, <2>2, <2>4 DEF Sessions, Stages
  <2>6. SessionInv(s)
    BY <1>1, <1>2, <1>4, <2>4, <2>5 DEF SessionInv, Pinned, Stages
  <2> QED BY <1>1, <2>3, <2>5, <2>6, SessionGoesOn DEF Stages
<1> QED BY <1>3, <1>4 DEF Query!PinIndex

\* The file that is checked is the pinned one; those still to be checked stay.
LEMMA VerifyStep ==
    ASSUME QueryInvariant, NEW q \in Services, Query!Verify(q)
    PROVE  QueryInvariant'
<1>1. session[q].checks # <<>> /\ UNCHANGED <<opened, active>>
  BY DEF Query!Verify, Query!environment
<1>2. session[q].at # "closed"
  BY <1>1, ClosedSession DEF QueryInvariant, Query!Closed, Stages
<1>3. session[q] \in Sessions /\ session[q].at \in Stages /\ SessionInv(session[q])
  BY <1>2, OpenSession
<1>4. CASE Query!Finish(q, "refused")
  BY <1>1, <1>4, SessionFinishes
<1>5. CASE /\ Query!Unwritten(Head(session[q].checks), session[q].pin[Head(session[q].checks)])
           /\ session' = [session EXCEPT ![q].checks = Tail(@)]
  <2>1. PICK checks : checks = session[q].checks
    OBVIOUS
  <2>2. checks \in Seq(Query!Files) /\ checks # <<>>
    BY <1>1, <1>3, <2>1 DEF Sessions
  <2>3. PICK s : s = [session[q] EXCEPT !.checks = Tail(checks)]
    OBVIOUS
  <2>4. session' = [session EXCEPT ![q] = s]
    BY <1>5, <2>1, <2>3 DEF QueryInvariant
  <2>5. /\ s \in Sessions /\ s.at = session[q].at /\ s.pin = session[q].pin
        /\ s.serve = session[q].serve /\ s.base = session[q].base /\ s.checks = Tail(checks)
        /\ s.selector = session[q].selector /\ s.exact = session[q].exact
    <3>1. PICK tail : tail = Tail(checks)
      OBVIOUS
    <3>2. tail \in Seq(Query!Files) /\ s = [session[q] EXCEPT !.checks = tail]
      BY <2>2, <2>3, <3>1
    <3> QED BY <1>3, <3>1, <3>2 DEF Sessions
  <2>6. opened[checks[1]] = s.pin[checks[1]]
    BY <1>5, <2>1, <2>2, <2>5 DEF Query!Unwritten
  <2>7. ASSUME NEW f, s.pin[f] # opened[f], NEW i \in 1..Len(checks), checks[i] = f
        PROVE  \E j \in 1..Len(Tail(checks)) : Tail(checks)[j] = f
    <3>1. i # 1 /\ i - 1 \in 1..Len(Tail(checks)) /\ Tail(checks)[i - 1] = checks[i]
      BY <2>2, <2>6, <2>7
    <3> QED BY <2>7, <3>1
  <2>8. SessionInv(s)
    <3>1. Searched(s) = Searched(session[q]) /\ \A f : Pinned(s, f) = Pinned(session[q], f)
      BY <2>5 DEF Searched, Pinned
    <3>2. s.at = "answer" =>
            \/ s.exact
            \/ \E f \in Searched(s) :
                s.pin[f] # opened[f] /\ \E j \in 1..Len(s.checks) : s.checks[j] = f
      BY <1>3, <2>1, <2>5, <2>7, <3>1 DEF SessionInv
    <3> QED BY <1>3, <2>5, <3>1, <3>2 DEF SessionInv
  <2> QED BY <1>1, <1>3, <2>4, <2>5, <2>8, SessionGoesOn
<1> QED BY <1>4, <1>5 DEF Query!Verify

\* A step to the next place of a session changes nothing else of it.
LEMMA PlaceChanges ==
    ASSUME QueryInvariant, NEW q \in Services, UNCHANGED <<opened, active>>,
           session[q] \in Sessions, NEW at \in Stages, NEW checks \in Seq(Query!Files),
           Query!Goto(q, at, checks)
    PROVE  \E s \in Sessions :
              /\ session' = [session EXCEPT ![q] = s]
              /\ s.at = at /\ s.pin = session[q].pin /\ s.serve = session[q].serve
              /\ s.base = session[q].base /\ s.checks = checks
              /\ s.selector = session[q].selector /\ s.exact = session[q].exact
<1>1. PICK s : s = [session[q] EXCEPT !.at = at, !.checks = checks]
  OBVIOUS
<1>2. session' = [session EXCEPT ![q] = s]
  BY <1>1 DEF Query!Goto, QueryInvariant
<1>3. s \in Sessions
  BY <1>1 DEF Sessions
<1>4. /\ s.at = at /\ s.pin = session[q].pin /\ s.serve = session[q].serve
      /\ s.base = session[q].base /\ s.checks = checks
      /\ s.selector = session[q].selector /\ s.exact = session[q].exact
  BY <1>1 DEF Sessions
<1> QED BY <1>2, <1>3, <1>4

LEMMA OpenStoreStep ==
    ASSUME QueryInvariant, NEW q \in Services, Query!OpenStore(q)
    PROVE  QueryInvariant'
<1>1. PICK checks : checks = <<>>
  OBVIOUS
<1>2. /\ session[q].at = "store" /\ UNCHANGED <<opened, active>> /\ checks \in Seq(Query!Files)
      /\ Query!Goto(q, "lookup", checks)
  BY <1>1 DEF Query!OpenStore, Query!Ready, Query!environment
<1>3. session[q] \in Sessions /\ SessionInv(session[q])
  BY <1>2, OpenSession
<1>4. PICK s \in Sessions :
              /\ session' = [session EXCEPT ![q] = s]
              /\ s.at = "lookup" /\ s.pin = session[q].pin /\ s.exact = session[q].exact
  <2>1. "lookup" \in Stages
    BY DEF Stages
  <2> QED BY <1>2, <1>3, <2>1, PlaceChanges
<1>5. SessionInv(s)
  BY <1>2, <1>3, <1>4 DEF SessionInv, Pinned, Stages
<1> QED BY <1>2, <1>4, <1>5, SessionGoesOn DEF Stages

LEMMA LookUpStep ==
    ASSUME QueryInvariant, NEW q \in Services, Query!LookUp(q)
    PROVE  QueryInvariant'
<1>0. PICK checks : checks = <<"vault", "index">>
  OBVIOUS
<1>1. /\ session[q].at = "lookup" /\ UNCHANGED <<opened, active>>
      /\ checks \in Seq(Query!Files)
  BY <1>0 DEF Query!LookUp, Query!Ready, Query!environment, Query!Files
<1>2. session[q] \in Sessions /\ SessionInv(session[q])
  BY <1>1, OpenSession
<1>3. CASE Query!Finish(q, "refused")
  BY <1>1, <1>3, SessionFinishes
<1>4. CASE session[q].pin["vault"].bytes = Adopted /\ Query!Goto(q, "select", checks)
  <2>1. PICK s \in Sessions :
              /\ session' = [session EXCEPT ![q] = s]
              /\ s.at = "select" /\ s.pin = session[q].pin /\ s.exact = session[q].exact
    <3>1. "select" \in Stages
      BY DEF Stages
    <3> QED BY <1>1, <1>2, <1>4, <3>1, PlaceChanges
  <2>2. SessionInv(s)
    BY <1>1, <1>2, <1>4, <2>1 DEF SessionInv, Pinned, Stages
  <2> QED BY <1>1, <2>1, <2>2, SessionGoesOn DEF Stages
<1> QED BY <1>0, <1>3, <1>4 DEF Query!LookUp

LEMMA SelectStep ==
    ASSUME QueryInvariant, NEW q \in Services, Query!Select(q)
    PROVE  QueryInvariant'
<1>1. session[q].at = "select" /\ UNCHANGED <<opened, active>>
  BY DEF Query!Select, Query!Ready, Query!environment
<1>2. session[q] \in Sessions /\ SessionInv(session[q])
  BY <1>1, OpenSession
<1>3. CASE Query!Finish(q, "refused")
  BY <1>1, <1>3, SessionFinishes
<1>4. ASSUME NEW serve, serve = Query!Served(session[q].selector), opened[serve].bytes = Adopted,
             session' = [session EXCEPT ![q] = [session[q] EXCEPT !.at = "query",
                       !.serve = serve, !.base = active, !.checks = <<"vault", "index">>,
                       !.pin[serve] = IF serve = "managed" THEN opened[serve] ELSE @]]
      PROVE  QueryInvariant'
  <2>1. /\ serve = (IF active = 0 \/ session[q].selector = "legacy" THEN "index" ELSE "managed")
        /\ serve \in Query!Files /\ active \in {0, 1} /\ opened \in [Query!Files -> Pins]
    BY <1>4 DEF Query!Served, Query!Files, QueryInvariant
  <2>2. PICK pin : pin = [session[q].pin EXCEPT ![serve] =
                            IF serve = "managed" THEN opened[serve] ELSE session[q].pin[serve]]
    OBVIOUS
  <2>3. PICK checks \in Seq(Query!Files) : checks = <<"vault", "index">>
    <3>1. <<"vault", "index">> \in Seq(Query!Files)
      BY DEF Query!Files
    <3> QED BY <3>1
  <2>4. PICK s : s = [session[q] EXCEPT !.at = "query", !.serve = serve, !.base = active,
                                        !.checks = checks, !.pin = pin]
    OBVIOUS
  <2>5. session' = [session EXCEPT ![q] = s]
    <3>1. s = [session[q] EXCEPT !.at = "query", !.serve = serve, !.base = active,
                 !.checks = <<"vault", "index">>,
                 !.pin[serve] = IF serve = "managed" THEN opened[serve] ELSE @]
      BY <1>2, <2>2, <2>3, <2>4 DEF Sessions
    <3> QED BY <1>4, <3>1
  <2>6. session[q].pin \in [Query!Files -> Pins \cup {None}]
    BY <1>2 DEF Sessions
  <2>7. /\ pin \in [Query!Files -> Pins \cup {None}]
        /\ serve = "managed" => pin[serve] = opened[serve] /\ pin[serve] \in Pins
        /\ \A f \in Query!Files : f # "managed" => pin[f] = session[q].pin[f]
    BY <2>1, <2>2, <2>6
  <2>8. /\ s \in Sessions /\ s.at = "query" /\ s.pin = pin /\ s.serve = serve /\ s.base = active
        /\ s.selector = session[q].selector /\ s.exact = session[q].exact
    BY <1>2, <2>1, <2>3, <2>4, <2>7 DEF Sessions, Stages
  <2>9. /\ pin["vault"] = session[q].pin["vault"] /\ pin["index"] = session[q].pin["index"]
    BY <2>7 DEF Query!Files
  <2>10. session[q].pin["vault"].bytes = Adopted /\ session[q].pin["index"].bytes = Adopted
         /\ Pinned(session[q], "vault") /\ Pinned(session[q], "index")
    BY <1>1, <1>2 DEF SessionInv, Stages
  <2>11. Pinned(s, "vault") /\ Pinned(s, "index") /\ Pinned(s, serve)
    BY <2>1, <2>7, <2>8, <2>9, <2>10 DEF Pinned
  <2>12. s.pin[serve].bytes = Adopted
    BY <1>4, <2>1, <2>7, <2>8, <2>9, <2>10
  <2>13. s.exact
    BY <1>1, <1>2, <2>8 DEF SessionInv, Stages
  <2>14. SessionInv(s)
    BY <2>1, <2>8, <2>9, <2>10, <2>11, <2>12, <2>13 DEF SessionInv, Stages
  <2> QED BY <1>1, <2>5, <2>8, <2>14, SessionGoesOn DEF Stages
<1> QED BY <1>3, <1>4 DEF Query!Select

\* What is read is the adopted content, or the file is not the pinned one any more.
LEMMA ReadStep ==
    ASSUME QueryInvariant, NEW q \in Services, NEW f \in Query!Files, Query!Read(q, f)
    PROVE  QueryInvariant'
<1>1. /\ session[q].at = "query" /\ f \in Searched(session[q]) /\ UNCHANGED <<opened, active>>
      /\ session' = [session EXCEPT ![q].exact = @ /\ opened[f].bytes = Adopted]
  BY DEF Query!Read, Query!Ready, Query!environment, Searched
<1>2. session[q] \in Sessions /\ SessionInv(session[q])
  BY <1>1, OpenSession
<1>3. PICK exact \in BOOLEAN : exact = (session[q].exact /\ opened[f].bytes = Adopted)
  OBVIOUS
<1>4. PICK s : s = [session[q] EXCEPT !.exact = exact]
  OBVIOUS
<1>5. session' = [session EXCEPT ![q] = s]
  BY <1>1, <1>3, <1>4 DEF QueryInvariant
<1>6. /\ s \in Sessions /\ s.at = "query" /\ s.pin = session[q].pin /\ s.serve = session[q].serve
      /\ s.base = session[q].base /\ s.selector = session[q].selector /\ s.exact = exact
  BY <1>1, <1>2, <1>4 DEF Sessions
<1>7. session[q].pin[f].bytes = Adopted
  BY <1>1, <1>2 DEF SessionInv, Searched
<1>8. exact \/ \E g \in Searched(s) : s.pin[g] # opened[g]
  BY <1>1, <1>2, <1>3, <1>6, <1>7 DEF SessionInv, Searched
<1>9. SessionInv(s)
  BY <1>1, <1>2, <1>6, <1>8 DEF SessionInv, Pinned, Stages
<1> QED BY <1>1, <1>5, <1>6, <1>9, SessionGoesOn DEF Stages

\* Whatever the search may have read is verified once more before it is shown.
LEMMA CloseStep ==
    ASSUME QueryInvariant, NEW q \in Services, Query!Close(q)
    PROVE  QueryInvariant'
<1>1. PICK checks : checks = Query!Closing(q)
  OBVIOUS
<1>2. /\ session[q].at = "query" /\ UNCHANGED <<opened, active>>
      /\ Query!Goto(q, "answer", checks)
  BY <1>1 DEF Query!Close, Query!Ready, Query!environment
<1>3. session[q] \in Sessions /\ SessionInv(session[q])
  BY <1>2, OpenSession
<1>4. session[q].serve \in {"index", "managed"}
  BY <1>2, <1>3 DEF SessionInv
<1>5. checks \in Seq(Query!Files)
  <2>1. /\ <<"index", "vault", "index">> \in Seq(Query!Files)
        /\ <<"managed", "vault", "index", "managed">> \in Seq(Query!Files)
    BY DEF Query!Files
  <2> QED BY <1>1, <2>1 DEF Query!Closing
<1>6. \A f \in Searched(session[q]) : \E i \in 1..Len(checks) : checks[i] = f
  <2>1. CASE session[q].serve = "index"
    <3>1. checks = <<"index", "vault", "index">>
      BY <1>1, <2>1 DEF Query!Closing
    <3>2. /\ 1 \in 1..Len(checks) /\ checks[1] = "index"
          /\ 2 \in 1..Len(checks) /\ checks[2] = "vault"
      BY <3>1
    <3> QED BY <2>1, <3>2 DEF Searched
  <2>2. CASE session[q].serve = "managed"
    <3>1. checks = <<"managed", "vault", "index", "managed">>
      BY <1>1, <2>2 DEF Query!Closing
    <3>2. /\ 1 \in 1..Len(checks) /\ checks[1] = "managed"
          /\ 2 \in 1..Len(checks) /\ checks[2] = "vault"
      BY <3>1
    <3> QED BY <2>2, <3>2 DEF Searched
  <2> QED BY <1>4, <2>1, <2>2
<1>7. PICK s \in Sessions :
              /\ session' = [session EXCEPT ![q] = s]
              /\ s.at = "answer" /\ s.pin = session[q].pin /\ s.serve = session[q].serve
              /\ s.base = session[q].base /\ s.checks = checks
              /\ s.selector = session[q].selector /\ s.exact = session[q].exact
  <2>1. "answer" \in Stages
    BY DEF Stages
  <2> QED BY <1>2, <1>3, <1>5, <2>1, PlaceChanges
<1>8. SessionInv(s)
  <2>1. \/ s.exact
        \/ \E f \in Searched(s) :
              s.pin[f] # opened[f] /\ \E i \in 1..Len(s.checks) : s.checks[i] = f
    BY <1>2, <1>3, <1>6, <1>7 DEF SessionInv, Searched
  <2> QED BY <1>2, <1>3, <1>7, <2>1 DEF SessionInv, Pinned, Stages
<1> QED BY <1>2, <1>7, <1>8, SessionGoesOn DEF Stages

\* A file that is written differs from every pin there is of it.
LEMMA SaveStep ==
    ASSUME QueryInvariant, NEW f \in Query!Files, NEW c \in FileContents, Query!Save(f, c)
    PROVE  QueryInvariant'
<1>1. PICK stamp \in Nat : stamp = opened[f].stamp
  BY DEF QueryInvariant, Pins
<1>2. PICK new : new = [bytes |-> c, stamp |-> stamp + 1]
  OBVIOUS
<1>3. opened' = [opened EXCEPT ![f] = new] /\ UNCHANGED <<active, session>>
  BY <1>1, <1>2 DEF Query!Save
<1>4. new \in Pins /\ new.stamp = stamp + 1
  BY <1>1, <1>2 DEF Pins
<1>5. /\ opened' \in [Query!Files -> Pins] /\ opened'[f] = new
      /\ \A g \in Query!Files \ {f} : opened'[g] = opened[g]
  BY <1>3, <1>4 DEF QueryInvariant
<1>6. ASSUME NEW s, NEW g \in Query!Files, Pinned(s, g)
      PROVE  Pinned(s, g)' /\ (s.pin[g] # opened[g] => s.pin[g] # opened'[g])
  <2>1. CASE g = f
    <3>1. PICK pinned \in Nat : pinned = s.pin[f].stamp
      BY <1>6, <2>1 DEF Pinned, Pins
    <3>2. pinned < stamp + 1
      BY <1>1, <1>6, <2>1, <3>1 DEF Pinned
    <3> QED BY <1>2, <1>4, <1>5, <1>6, <2>1, <3>1, <3>2 DEF Pinned
  <2>2. CASE g # f
    BY <1>5, <1>6, <2>2 DEF Pinned
  <2> QED BY <2>1, <2>2
<1>7. ASSUME NEW s \in Sessions, SessionInv(s)
      PROVE  SessionInv(s)'
  <2>1. s.serve \in Query!Files /\ "vault" \in Query!Files /\ "index" \in Query!Files
    BY <1>7 DEF Sessions, Query!Files
  <2>2. /\ s.at \in Stages => Pinned(s, "vault")'
        /\ s.at \in Stages \ {"index"} => Pinned(s, "index")'
        /\ s.at \in {"query", "answer"} => Pinned(s, s.serve)'
    BY <1>6, <1>7, <2>1 DEF SessionInv
  <2>3. ASSUME s.at \in {"query", "answer"}, NEW g \in Searched(s), s.pin[g] # opened[g]
        PROVE  s.pin[g] # opened'[g]
    BY <1>6, <1>7, <2>1, <2>3 DEF SessionInv, Searched, Stages
  <2> QED BY <1>7, <2>2, <2>3 DEF SessionInv, Searched
<1>8. ASSUME NEW r \in Services
      PROVE  SessionInv(session[r])'
  <2>1. PICK t \in Sessions : t = session[r] /\ t = session'[r]
    BY <1>3 DEF QueryInvariant
  <2>2. SessionInv(t)'
    BY <1>7, <2>1 DEF QueryInvariant
  <2> QED BY <2>1, <2>2 DEF SessionInv, Pinned, Searched
<1> QED BY <1>3, <1>5, <1>8 DEF QueryInvariant

\* No session looks at what is active but when it selects and when it ends.
LEMMA ActivateStep ==
    ASSUME QueryInvariant, active' \in {0, 1}, UNCHANGED <<opened, session>>
    PROVE  QueryInvariant'
<1>1. ASSUME NEW r \in Services
      PROVE  SessionInv(session[r])'
  BY <1>1 DEF QueryInvariant, SessionInv, Pinned, Searched
<1> QED BY <1>1 DEF QueryInvariant

LEMMA QueryKept ==
    ASSUME QueryInvariant, [Query!Next]_queryVars
    PROVE  QueryInvariant'
<1>1. CASE UNCHANGED queryVars
  BY <1>1, ActivateStep DEF QueryInvariant, queryVars
<1>2. ASSUME NEW q \in Services,
             \/ \E selector \in Query!Selectors : Query!Open(q, selector)
             \/ \E f \in Query!Files : Query!Read(q, f)
             \/ Query!PinIndex(q) \/ Query!Verify(q) \/ Query!OpenStore(q)
             \/ Query!LookUp(q) \/ Query!Select(q)
             \/ Query!Close(q)
      PROVE  QueryInvariant'
  BY <1>2, OpenSessionStep, ReadStep, PinIndexStep, VerifyStep, OpenStoreStep,
    LookUpStep, SelectStep, CloseStep
<1>3. ASSUME NEW q \in Services, Query!Deliver(q) \/ Query!Fail(q)
      PROVE  QueryInvariant'
  BY <1>3, SessionFinishes DEF Query!Deliver, Query!Fail, Query!environment
<1>4. CASE \E f \in Query!Files, c \in FileContents : Query!Save(f, c)
  BY <1>4, SaveStep
<1>5. CASE Query!Bootstrapped \/ Query!Activate
  BY <1>5, ActivateStep DEF Query!Bootstrapped, Query!Activate, QueryInvariant
<1> QED BY <1>1, <1>2, <1>3, <1>4, <1>5 DEF Query!Next

\* Of every open session of query_generation.py, the pins are what its verifications
\* have found them to be, or stamped before the file that is there now; and if its
\* search has read a byte other than the adopted ones, then a file it reads is not the
\* pinned one any more, and is verified before the answer is given.
THEOREM SessionInvariant == ChangeSpec => []QueryInvariant
<1>1. ChangeInit => QueryInvariant
  BY ChangeControlAssumption, QueryStarts DEF ChangeInit
<1>2. QueryInvariant /\ [ChangeNext]_allVars => QueryInvariant'
  <2>1. [ChangeNext]_allVars => [Query!Next]_queryVars
    BY DEF ChangeNext, allVars
  <2> QED BY <2>1, QueryKept
<1> QED BY <1>1, <1>2, PTL DEF ChangeSpec

\* While a session is open, there is no result.
Results ==
    /\ shown \in [Services -> {"none", "refused", "delivered"}]
    /\ \A q \in Services : session[q] # Query!Closed => shown[q] = "none"

\* A step of one session gives a result to no other.
LEMMA ResultsOfOne ==
    ASSUME Results, QueryInvariant, NEW q \in Services,
           session[q] # Query!Closed, \A r \in Services \ {q} : session'[r] = session[r],
           UNCHANGED shown \/ \E what \in {"none", "refused", "delivered"} : Query!Finish(q, what)
    PROVE  Results'
<1>1. CASE UNCHANGED shown
  BY <1>1 DEF Results
<1>2. ASSUME NEW what \in {"none", "refused", "delivered"}, Query!Finish(q, what)
      PROVE  Results'
  BY <1>2 DEF Results, Query!Finish, QueryInvariant
<1> QED BY <1>1, <1>2

LEMMA QueriesResult ==
    ASSUME Results, QueryInvariant, [Query!Next]_queryVars
    PROVE  /\ Results'
           /\ \A q \in Services :
                shown[q] # "delivered" /\ shown'[q] = "delivered" => Query!Deliver(q)
<1>1. CASE UNCHANGED <<session, shown>>
  BY <1>1 DEF Results
<1>2. ASSUME NEW q \in Services, NEW selector, Query!Open(q, selector)
      PROVE  Results' /\ \A r \in Services : shown'[r] \in {shown[r], "none"}
  BY <1>2 DEF Results, QueryInvariant, Query!Open
<1>3. ASSUME NEW q \in Services,
             \/ \E f \in Query!Files : Query!Read(q, f)
             \/ Query!PinIndex(q) \/ Query!Verify(q) \/ Query!OpenStore(q)
             \/ Query!LookUp(q) \/ Query!Select(q)
             \/ Query!Close(q) \/ Query!Fail(q)
      PROVE  /\ session[q] # Query!Closed /\ \A r \in Services \ {q} : session'[r] = session[r]
             /\ UNCHANGED shown \/ \E what \in {"none", "refused"} : Query!Finish(q, what)
  BY <1>3, ClosedSession DEF QueryInvariant, Query!Read, Query!PinIndex, Query!Verify,
    Query!OpenStore, Query!LookUp, Query!Select, Query!Close, Query!Fail, Query!Finish,
    Query!Ready, Query!Goto, Query!Closed
<1>4. ASSUME NEW q \in Services, Query!Deliver(q)
      PROVE  /\ session[q] # Query!Closed /\ \A r \in Services \ {q} : session'[r] = session[r]
             /\ \E what \in {"delivered", "refused"} : Query!Finish(q, what)
             /\ \A r \in Services \ {q} : shown'[r] = shown[r]
  <2>1. PICK what \in {"delivered", "refused"} : Query!Finish(q, what)
    BY <1>4 DEF Query!Deliver
  <2>2. session[q] # Query!Closed
    BY <1>4, ClosedSession DEF Query!Deliver, Query!Ready
  <2> QED BY <2>1, <2>2 DEF QueryInvariant, Query!Finish, Results
<1>5. ASSUME NEW q \in Services, NEW what \in {"none", "refused"}, Query!Finish(q, what)
      PROVE  \A r \in Services : shown'[r] \in {shown[r], "none", "refused"}
  BY <1>5 DEF Query!Finish, Results
<1>6. ASSUME \A r \in Services : shown'[r] \in {shown[r], "none", "refused"}
      PROVE  \A r \in Services : ~(shown[r] # "delivered" /\ shown'[r] = "delivered")
  BY <1>6
<1>7. CASE \E q \in Services : \E selector \in Query!Selectors : Query!Open(q, selector)
  BY <1>2, <1>7
<1>8. ASSUME NEW q \in Services,
             \/ \E f \in Query!Files : Query!Read(q, f)
             \/ Query!PinIndex(q) \/ Query!Verify(q) \/ Query!OpenStore(q)
             \/ Query!LookUp(q) \/ Query!Select(q)
             \/ Query!Close(q) \/ Query!Fail(q)
      PROVE  /\ Results'
             /\ \A r \in Services : ~(shown[r] # "delivered" /\ shown'[r] = "delivered")
  <2>1. Results'
    BY <1>3, <1>8, ResultsOfOne
  <2>2. \A r \in Services : shown'[r] \in {shown[r], "none", "refused"}
    BY <1>3, <1>5, <1>8
  <2> QED BY <2>1, <2>2, <1>6
<1>9. ASSUME NEW q \in Services, Query!Deliver(q)
      PROVE  /\ Results'
             /\ \A r \in Services : shown[r] # "delivered" /\ shown'[r] = "delivered" => r = q
  <2>1. Results'
    BY <1>4, <1>9, ResultsOfOne
  <2> QED BY <1>4, <1>9, <2>1
<1>10. CASE (\E f \in Query!Files, c \in FileContents : Query!Save(f, c))
            \/ Query!Bootstrapped \/ Query!Activate \/ UNCHANGED queryVars
  BY <1>1, <1>10 DEF Query!Save, Query!Bootstrapped, Query!Activate, queryVars
<1> QED BY <1>7, <1>8, <1>9, <1>10 DEF Query!Next

\* The commands of query_generation.py show a result only if all that the search read was
\* what the receipts say, however many programs wrote, and wrote back, how many of the
\* files between the reads; and only if the generation that was searched is active.
THEOREM ShownIsVerified == ChangeSpec => DeliveredIsExact
<1>1. ASSUME Results, QueryInvariant, [Query!Next]_queryVars, NEW q \in Services,
             session[q] # Query!Closed, session'[q] = Query!Closed, shown'[q] = "delivered"
      PROVE  /\ session[q].exact
             /\ session[q].selector # "legacy" =>
                    session[q].serve = (IF active = 0 THEN "index" ELSE "managed")
  <2>1. Query!Deliver(q)
    BY <1>1, QueriesResult DEF Results
  <2>2. session[q].at = "answer" /\ session[q].checks = <<>> /\ active = session[q].base
    BY <1>1, <2>1 DEF Query!Deliver, Query!Ready, Query!Finish, Results
  <2>3. SessionInv(session[q])
    BY <1>1 DEF QueryInvariant
  <2>4. \A i \in 1..Len(session[q].checks) : FALSE
    BY <2>2
  <2> QED BY <1>1, <2>2, <2>3, <2>4 DEF SessionInv, Query!Deliver
<1>2. Results /\ QueryInvariant /\ [ChangeNext]_allVars =>
        [\A q \in Services :
           session[q] # Query!Closed /\ session'[q] = Query!Closed /\ shown'[q] = "delivered" =>
              /\ session[q].exact
              /\ session[q].selector # "legacy" =>
                    session[q].serve = (IF active = 0 THEN "index" ELSE "managed")]_Query!vars
  <2>1. [ChangeNext]_allVars => [Query!Next]_queryVars
    BY DEF ChangeNext, allVars
  <2> QED BY <1>1, <2>1
<1>3. ChangeSpec => []Results
  <2>1. ChangeInit => Results
    BY DEF ChangeInit, Query!Init, Results
  <2>2. Results /\ QueryInvariant /\ [ChangeNext]_allVars => Results'
    <3>1. [ChangeNext]_allVars => [Query!Next]_queryVars
      BY DEF ChangeNext, allVars
    <3> QED BY <3>1, QueriesResult
  <2> QED BY <2>1, <2>2, SessionInvariant, PTL DEF ChangeSpec
<1> QED
  BY <1>2, <1>3, SessionInvariant, PTL DEF ChangeSpec, DeliveredIsExact,
    Query!DeliveredIsExact

-----------------------------------------------------------------------------
(* Numbers, and what the model defines by recursion on them.                 *)

\* The instance counts as FiniteSets does.
LEMMA CardinalityIsOne ==
    /\ \A S : Analysis!Cardinality(S) = Cardinality(S)
    /\ \A S : Analysis!IsFiniteSet(S) = IsFiniteSet(S)
BY DEF Analysis!Cardinality, Cardinality, Analysis!IsFiniteSet, IsFiniteSet

\* Induction, on a set of numbers.
LEMMA NumbersFromZero ==
    ASSUME NEW S, 0 \in S, \A n \in Nat : n \in S => n + 1 \in S
    PROVE  \A n \in Nat : n \in S
<1> DEFINE R == {ss \in Nat \X Nat : ss[1] < ss[2]}
<1>1. IsWellFoundedOn(R, Nat)
  BY NatLessThanWellFounded DEF OpToRel
<1> HIDE DEF R
<1> SUFFICES ASSUME Nat \ S # {} PROVE FALSE
  OBVIOUS
<1>2. PICK x \in Nat \ S : \A y \in Nat \ S : ~(<<y, x>> \in R)
  BY <1>1, WFMin
<1>3. x # 0
  OBVIOUS
<1>4. x - 1 \in Nat /\ (x - 1) + 1 = x /\ <<x - 1, x>> \in R
  BY <1>3 DEF R
<1> QED BY <1>2, <1>4

\* The claims that dependents of some claims expose, with these.
Exposing(last) ==
    last \cup UNION {x.answer.exposed : x \in {y \in Analysis!Dependencies : y.upstream \in last}}

\* The function that Exposed chooses there is: what it is, step by step.
LEMMA ExposedStepwise ==
    ASSUME NEW c, NEW m \in Nat
    PROVE  \E W : /\ W = [n \in 0..m |-> IF n = 0 THEN {c} ELSE Exposing(W[n - 1])]
                  /\ Analysis!Exposed(c, m) = W[m]
<1> DEFINE Is(W, k) == W = [n \in 0..k |-> IF n = 0 THEN {c} ELSE Exposing(W[n - 1])]
           Defined == {k \in Nat : \E W : Is(W, k)}
<1>1. 0 \in Defined
  <2>1. PICK W : W = [n \in 0..0 |-> {c}]
    OBVIOUS
  <2>2. Is(W, 0)
    BY <2>1
  <2> QED BY <2>2
<1>2. ASSUME NEW k \in Nat, k \in Defined
      PROVE  k + 1 \in Defined
  <2>1. PICK W : Is(W, k)
    BY <1>2
  <2>2. PICK V : V = [n \in 0..(k + 1) |-> IF n = k + 1 THEN Exposing(W[k]) ELSE W[n]]
    OBVIOUS
  <2>3. ASSUME NEW n \in 0..(k + 1)
        PROVE  V[n] = IF n = 0 THEN {c} ELSE Exposing(V[n - 1])
    <3>1. CASE n = k + 1
      <4>1. n # 0 /\ n - 1 = k /\ n - 1 \in 0..(k + 1) /\ n - 1 # k + 1
        BY <3>1
      <4> QED BY <2>2, <3>1, <4>1
    <3>2. CASE n # k + 1
      <4>1. n \in 0..k /\ (n # 0 => n - 1 \in 0..k /\ n - 1 # k + 1 /\ n - 1 \in 0..(k + 1))
        BY <3>2
      <4>2. W[n] = IF n = 0 THEN {c} ELSE Exposing(W[n - 1])
        BY <2>1, <4>1
      <4>3. V[n] = W[n] /\ (n # 0 => V[n - 1] = W[n - 1])
        BY <2>2, <3>2, <4>1
      <4> QED BY <4>2, <4>3
    <3> QED BY <3>1, <3>2
  <2>4. Is(V, k + 1)
    BY <2>2, <2>3
  <2> QED BY <2>4
<1>3. m \in Defined
  BY <1>1, <1>2, NumbersFromZero
<1>4. Analysis!Exposed(c, m) = (CHOOSE W : Is(W, m))[m]
  BY DEF Analysis!Exposed, Exposing
<1> QED BY <1>3, <1>4

\* The claim itself is within any number of steps.
LEMMA ExposesItself ==
    ASSUME NEW c, NEW m \in Nat
    PROVE  c \in Analysis!Exposed(c, m)
<1>1. PICK W : /\ W = [n \in 0..m |-> IF n = 0 THEN {c} ELSE Exposing(W[n - 1])]
               /\ Analysis!Exposed(c, m) = W[m]
  BY ExposedStepwise
<1>2. \A n \in 0..m : W[n] = IF n = 0 THEN {c} ELSE Exposing(W[n - 1])
  BY <1>1
<1> DEFINE S == {n \in Nat : n <= m => c \in W[n]}
<1>3. 0 \in S
  BY <1>2
<1>4. ASSUME NEW n \in Nat, n \in S
      PROVE  n + 1 \in S
  <2> SUFFICES ASSUME n + 1 <= m PROVE c \in W[n + 1]
    OBVIOUS
  <2>1. n + 1 \in 0..m /\ n + 1 # 0 /\ (n + 1) - 1 = n /\ c \in W[n]
    BY <1>4
  <2>2. W[n + 1] = Exposing(W[n])
    BY <1>2, <2>1
  <2> QED BY <2>1, <2>2 DEF Exposing
<1>5. m \in S
  BY <1>3, <1>4, NumbersFromZero
<1> QED BY <1>1, <1>5

\* The claims one hop further, each with its path.
Further(last) ==
    LET Before(e) == {c \in DOMAIN last : Analysis!Edge(c, e) \in Analysis!Edges}
        next == {e \in Analysis!Claims \ DOMAIN last : Before(e) # {}}
    IN  [e \in DOMAIN last \cup next |->
            IF e \in next
            THEN LET c == CHOOSE c \in Before(e) : TRUE
                 IN last[c] \cup {Analysis!Edge(c, e)}
            ELSE last[e]]

LEMMA PathsStepwise ==
    ASSUME NEW start, NEW m \in Nat
    PROVE  \E W : /\ W[0] = [c \in {start} |-> {}]
                  /\ \A n \in 1..m : W[n] = Further(W[n - 1])
                  /\ Analysis!RelationPaths(start, m) = W[m]
<1>0. PICK first : first = [c \in {start} |-> {}]
  OBVIOUS
<1> DEFINE Is(W, k) ==
             W = [n \in 0..k |-> IF n = 0 THEN first ELSE Further(W[n - 1])]
           Defined == {k \in Nat : \E W : Is(W, k)}
<1>1. 0 \in Defined
  <2>1. PICK W : W = [n \in 0..0 |-> first]
    OBVIOUS
  <2>2. Is(W, 0)
    BY <2>1
  <2> QED BY <2>2
<1>2. ASSUME NEW k \in Nat, k \in Defined
      PROVE  k + 1 \in Defined
  <2>1. PICK W : Is(W, k)
    BY <1>2
  <2>2. PICK V : V = [n \in 0..(k + 1) |-> IF n = k + 1 THEN Further(W[k]) ELSE W[n]]
    OBVIOUS
  <2>3. ASSUME NEW n \in 0..(k + 1)
        PROVE  V[n] = IF n = 0 THEN first ELSE Further(V[n - 1])
    <3>1. CASE n = k + 1
      <4>1. n # 0 /\ n - 1 = k /\ n - 1 \in 0..(k + 1) /\ n - 1 # k + 1
        BY <3>1
      <4> QED BY <2>2, <3>1, <4>1
    <3>2. CASE n # k + 1
      <4>1. n \in 0..k /\ (n # 0 => n - 1 \in 0..k /\ n - 1 # k + 1 /\ n - 1 \in 0..(k + 1))
        BY <3>2
      <4>2. W[n] = IF n = 0 THEN first ELSE Further(W[n - 1])
        BY <2>1, <4>1
      <4>3. V[n] = W[n] /\ (n # 0 => V[n - 1] = W[n - 1])
        BY <2>2, <3>2, <4>1
      <4> QED BY <4>2, <4>3
    <3> QED BY <3>1, <3>2
  <2>4. Is(V, k + 1)
    BY <2>2, <2>3
  <2> QED BY <2>4
<1>3. m \in Defined
  BY <1>1, <1>2, NumbersFromZero
<1>4. Analysis!RelationPaths(start, m) = (CHOOSE W : Is(W, m))[m]
  BY <1>0 DEF Analysis!RelationPaths, Further
<1>5. PICK W : Is(W, m) /\ Analysis!RelationPaths(start, m) = W[m]
  BY <1>3, <1>4
<1>6. W[0] = first /\ \A n \in 1..m : W[n] = Further(W[n - 1])
  BY <1>5
<1> QED BY <1>0, <1>5, <1>6

\* A claim on the other side of an edge is within one hop, and within any more.
LEMMA ReachesItsNeighbours ==
    ASSUME NEW start, NEW m \in Nat,
           NEW e \in Analysis!Claims, Analysis!Edge(start, e) \in Analysis!Edges
    PROVE  /\ start \in DOMAIN Analysis!RelationPaths(start, m)
           /\ m = 0 => DOMAIN Analysis!RelationPaths(start, m) = {start}
           /\ m # 0 => e \in DOMAIN Analysis!RelationPaths(start, m)
<1>1. PICK W : /\ W[0] = [c \in {start} |-> {}]
               /\ \A n \in 1..m : W[n] = Further(W[n - 1])
               /\ Analysis!RelationPaths(start, m) = W[m]
  BY PathsStepwise
<1>3. \A last : DOMAIN Further(last) =
         DOMAIN last \cup
            {f \in Analysis!Claims \ DOMAIN last :
                {c \in DOMAIN last : Analysis!Edge(c, f) \in Analysis!Edges} # {}}
  BY DEF Further
<1>4. DOMAIN W[0] = {start}
  BY <1>1
<1> DEFINE S == {n \in Nat : n <= m =>
                    start \in DOMAIN W[n] /\ (n # 0 => e \in DOMAIN W[n])}
<1>5. 0 \in S
  BY <1>4
<1>6. ASSUME NEW n \in Nat, n \in S
      PROVE  n + 1 \in S
  <2> SUFFICES ASSUME n + 1 <= m
               PROVE start \in DOMAIN W[n + 1] /\ e \in DOMAIN W[n + 1]
    OBVIOUS
  <2>1. n + 1 \in 1..m /\ (n + 1) - 1 = n /\ start \in DOMAIN W[n]
    BY <1>6
  <2>2. W[n + 1] = Further(W[n])
    BY <1>1, <2>1
  <2> QED BY <1>3, <2>1, <2>2
<1>7. m \in S
  BY <1>5, <1>6, NumbersFromZero
<1> QED BY <1>1, <1>4, <1>7

-----------------------------------------------------------------------------
(* The analysis of a change and what is decided of it.                       *)

\* The phases of a run that has proposed its replacement.
Proposed == {"proposed", "decided", "stuck", "built"}

\* What was analysed, proposed and decided is about the candidates and governing edges
\* that the assessment of the pairs left.
AnalysisInvariant ==
    /\ workspace \in Workspaces
    /\ phase \in Proposed \cup {"analysed"} =>
        Cardinality(Analysis!Predecessors) = 1 /\ DOMAIN said = Analysis!Candidates
    /\ IF phase \in Proposed
       THEN /\ DOMAIN status.claims = Analysis!Governing
            /\ \E g \in Analysis!Governing : Analysis!Doc(g[2]) \in Analysis!Predecessors
            /\ status.document = "accepted" => status.replacement = "accepted"
       ELSE status = Analysis!NoStatus
    /\ Analysis!QuestionsMatchTheAnalysis

\* On the day of the analysis the incoming document is current.
LEMMA IncomingIsCurrent ==
    ASSUME ChangeControlAssumption, workspace \in Workspaces
    PROVE  /\ Incoming \in Analysis!Documents /\ Analysis!Resolve(Incoming, {}) = "current"
           /\ \A d \in Analysis!Documents : Analysis!From(d) \in Nat
           /\ \A c \in Analysis!Claims : Analysis!Doc(c) \in Analysis!Documents
           /\ \A c \in Analysis!Changed : Analysis!Doc(c) = Incoming
           /\ Analysis!AsOf = Analysis!From(Incoming)
<1>1. Analysis!AnalysisAssumption
  BY DEF ChangeControlAssumption
<1>2. /\ Incoming \in Analysis!Documents
      /\ \A d \in Analysis!Documents :
            /\ workspace.from[d] \in Nat
            /\ \A t \in workspace.to[d] : t \in Nat /\ t > workspace.from[d]
      /\ \A c \in Analysis!Claims : Analysis!Doc(c) \in Analysis!Documents
  BY <1>1 DEF Analysis!AnalysisAssumption, Analysis!Documents, Analysis!Claims, Analysis!Doc
<1>3. Analysis!Cardinality({}) = 0
  BY CardinalityIsOne, FS_EmptySet
<1>4. Analysis!Resolve(Incoming, {}) = "current"
  BY <1>2, <1>3 DEF Analysis!Resolve, Analysis!AsOf, Analysis!From
<1> QED BY <1>2, <1>4 DEF Analysis!From, Analysis!AsOf, Analysis!Changed, Analysis!ClaimsOf

\* Only a governing edge is ever accepted: from the incoming document to an older one.
LEMMA AcceptedEdge ==
    ASSUME ChangeControlAssumption, AnalysisInvariant, NEW g \in Analysis!Accepted
    PROVE  /\ g \in Analysis!Governing /\ graph[g] = "supersedes"
           /\ g[1] \in Analysis!Changed /\ g[2] \in Analysis!Claims \ Analysis!Changed
           /\ g = <<g[1], g[2]>>
           /\ Analysis!Doc(g[1]) = Incoming
           /\ Analysis!From(Analysis!Doc(g[2])) < Analysis!AsOf
<1>1. g \in Analysis!Governing
  BY DEF AnalysisInvariant, Analysis!NoStatus, Analysis!Accepted
<1>2. /\ graph[g] = "supersedes" /\ g \in Analysis!Pairs
      /\ Analysis!From(Analysis!Doc(g[1])) > Analysis!From(Analysis!Doc(g[2]))
  BY <1>1 DEF Analysis!Governing
<1>3. /\ g[1] \in Analysis!Changed /\ g[2] \in Analysis!Claims \ Analysis!Changed
      /\ g = <<g[1], g[2]>>
  BY <1>2 DEF Analysis!Pairs
<1>4. Analysis!Doc(g[1]) = Incoming /\ Analysis!AsOf = Analysis!From(Incoming)
      /\ Analysis!From(Incoming) \in Nat /\ Analysis!From(Analysis!Doc(g[2])) \in Nat
  BY <1>3, IncomingIsCurrent DEF AnalysisInvariant
<1> QED BY <1>1, <1>2, <1>3, <1>4

\* The analysis goes on with a single predecessor only.
LEMMA OnePredecessor ==
    ASSUME ChangeControlAssumption, AnalysisInvariant, phase \in Proposed,
           NEW d \in Analysis!Predecessors
    PROVE  Analysis!Predecessors = {d}
<1>1. IsFiniteSet(Analysis!Documents)
  BY CardinalityIsOne DEF ChangeControlAssumption, Analysis!AnalysisAssumption,
    Analysis!Documents, AnalysisInvariant
<1>2. Analysis!Predecessors \in SUBSET Analysis!Documents
  BY DEF Analysis!Predecessors
<1>3. IsFiniteSet(Analysis!Predecessors)
  BY <1>1, <1>2, FS_Subset
<1>4. Cardinality(Analysis!Predecessors) = 1
  BY DEF AnalysisInvariant
<1> QED BY <1>3, <1>4, FS_Singleton

LEMMA StatesFollow ==
    ASSUME ChangeControlAssumption, AnalysisInvariant
    PROVE  Analysis!StatesFollowTheDecision
<1> USE DEF AnalysisInvariant
<1>1. ASSUME NEW c
      PROVE  \/ /\ {h \in Analysis!Accepted : h[2] = c} = {}
                /\ Analysis!ClaimState(c) = Analysis!Resolve(Analysis!Doc(c), {})
             \/ \E g \in Analysis!Accepted : g[2] = c
  BY DEF Analysis!ClaimState
<1>2. ASSUME NEW g \in Analysis!Accepted
      PROVE  Analysis!ClaimState(g[1]) = "current" /\ Analysis!ClaimState(g[2]) # "current"
  <2>1. Analysis!ClaimState(g[1]) = "current"
    BY <1>1, AcceptedEdge, IncomingIsCurrent
  <2>2. PICK bounds :
          /\ bounds = {Analysis!From(Analysis!Doc(h[1])) :
                        h \in {h \in Analysis!Accepted : h[2] = g[2]}}
          /\ Analysis!ClaimState(g[2]) = Analysis!Resolve(Analysis!Doc(g[2]), bounds)
    BY DEF Analysis!ClaimState
  <2>3. Analysis!AsOf \in bounds
    BY <2>2, AcceptedEdge, IncomingIsCurrent
  <2>4. Analysis!AsOf \in Nat
    BY IncomingIsCurrent
  <2>5. Analysis!Resolve(Analysis!Doc(g[2]), bounds) # "current"
    BY <2>3, <2>4 DEF Analysis!Resolve
  <2> QED BY <2>1, <2>2, <2>5
<1>3. ASSUME NEW c \in Analysis!Claims,
             Analysis!ClaimState(c) # Analysis!Resolve(Analysis!Doc(c), {})
      PROVE  \E g \in Analysis!Accepted : g[2] = c /\ graph[g] = "supersedes"
                /\ Analysis!From(Analysis!Doc(c)) < Analysis!AsOf
  BY <1>1, <1>3, AcceptedEdge
<1>4. ASSUME NEW d \in Analysis!Documents, Analysis!DocumentState(d) # Analysis!Resolve(d, {})
      PROVE  /\ status.replacement = "accepted" /\ Analysis!SameFamily(d, Incoming)
             /\ Analysis!From(d) < Analysis!AsOf
  <2>1. d \in Analysis!Predecessors /\ status.document = "accepted"
    <3>1. {Analysis!AsOf : x \in {p \in Analysis!Predecessors :
                                    p = d /\ status.document = "accepted"}} # {}
      BY <1>4 DEF Analysis!DocumentState
    <3> QED BY <3>1
  <2>2. phase \in Proposed
    BY <2>1 DEF Analysis!NoStatus
  <2>3. PICK g \in Analysis!Governing : Analysis!Doc(g[2]) \in Analysis!Predecessors
    BY <2>2
  <2>4. Analysis!Doc(g[2]) = d
    BY <2>1, <2>2, <2>3, OnePredecessor
  <2>5. Analysis!From(Analysis!Doc(g[1])) > Analysis!From(d) /\ g[1] \in Analysis!Changed
    BY <2>4 DEF Analysis!Governing, Analysis!Pairs
  <2>6. Analysis!From(d) < Analysis!AsOf
    BY <2>5, IncomingIsCurrent
  <2>7. Analysis!SameFamily(d, Incoming)
    BY <2>1 DEF Analysis!Predecessors
  <2> QED BY <2>1, <2>2, <2>6, <2>7
<1> QED BY <1>2, <1>3, <1>4 DEF Analysis!StatesFollowTheDecision

\* What an accepted edge makes an older claim reach, attention finds.
LEMMA AttentionFindsDependents ==
    ASSUME ChangeControlAssumption, AnalysisInvariant, ~Analysis!BeyondLimits,
           NEW g \in Analysis!Accepted, NEW x \in Analysis!Dependencies, x.upstream = g[2]
    PROVE  /\ Analysis!Attention(g, x.doc) # "unreached"
           /\ x.answer.kind = "operative" => Analysis!Attention(g, x.doc) = "ranked"
<1>1. /\ g[1] \in Analysis!Changed /\ g[2] \in Analysis!Claims /\ g = <<g[1], g[2]>>
      /\ graph[g] = "supersedes" /\ g \in Analysis!Governing
  BY AcceptedEdge
<1>2. Analysis!Edge(g[1], g[2]) \in Analysis!Edges
  BY <1>1 DEF Analysis!Edge, Analysis!Edges, Analysis!Governing
<1>3. MaxHops \in Nat /\ MaxHops + 1 \in Nat \ {0} /\ MaxDepth - 1 \in Nat
  BY DEF ChangeControlAssumption, Analysis!AnalysisAssumption
<1>4. PICK a : a = [changed |-> g[1], start |-> g[1]]
  OBVIOUS
<1>5. a \in Analysis!Anchors /\ a.start = g[1] /\ a.changed = g[1]
  BY <1>1, <1>4 DEF Analysis!Anchors
<1>6. PICK paths : paths = Analysis!RelationPaths(g[1], MaxHops)
  OBVIOUS
<1>7. g[2] \in DOMAIN paths
  <2>1. g[2] \in DOMAIN Analysis!RelationPaths(g[1], MaxHops + 1)
    BY <1>1, <1>2, <1>3, ReachesItsNeighbours
  <2>2. DOMAIN Analysis!RelationPaths(a.start, MaxHops + 1) =
          DOMAIN Analysis!RelationPaths(a.start, MaxHops)
    BY <1>5 DEF Analysis!BeyondLimits
  <2> QED BY <1>5, <1>6, <2>1, <2>2
<1>8. x.upstream \in Analysis!Exposed(g[2], MaxDepth - 1)
  BY <1>3, ExposesItself
<1>9. PICK path : path = [changed |-> a.changed, relations |-> paths[g[2]],
                          from |-> g[2], dependency |-> x]
  OBVIOUS
<1>10. path \in Analysis!AttentionPaths
  <2>1. PICK l : l = <<g[2], x>>
    OBVIOUS
  <2>2. /\ l \in {m \in (DOMAIN paths) \X Analysis!Dependencies :
                    m[2].upstream \in Analysis!Exposed(m[1], MaxDepth - 1)}
        /\ path = [changed |-> a.changed, relations |-> paths[l[1]],
                   from |-> l[1], dependency |-> l[2]]
    BY <1>7, <1>8, <1>9, <2>1
  <2> QED BY <1>5, <1>6, <2>2 DEF Analysis!AttentionPaths
<1>11. Analysis!Relevant(path, g) /\ path.dependency = x
  BY <1>5, <1>9 DEF Analysis!Relevant
<1>12. PICK kinds : kinds = {p.dependency.answer.kind : p \in
                    {p \in Analysis!AttentionPaths :
                        p.dependency.doc = x.doc /\ Analysis!Relevant(p, g)}}
  OBVIOUS
<1>13. x.answer.kind \in kinds
  BY <1>10, <1>11, <1>12
<1>14. Analysis!Attention(g, x.doc) =
          IF kinds = {} THEN "unreached"
          ELSE IF "operative" \in kinds THEN "ranked" ELSE "discovery-excluded"
  BY <1>12 DEF Analysis!Attention
<1> QED BY <1>13, <1>14

\* A dependency is what was said of a candidate.
LEMMA DependencyOfACandidate ==
    ASSUME AnalysisInvariant, phase \in Proposed, NEW x \in Analysis!Dependencies
    PROVE  \E k \in Analysis!Candidates : x.doc = k[1] /\ x.upstream = k[2][2]
BY DEF AnalysisInvariant, Analysis!Dependencies

\* The impact is built from the very candidates that were analysed.
LEMMA BuiltQuestionsMatch ==
    ASSUME ChangeControlAssumption, AnalysisInvariant, Analysis!BuildImpact
    PROVE  Analysis!QuestionsMatchTheAnalysis'
<1> SUFFICES ASSUME phase' = "built" PROVE Analysis!QuestionsMatchTheAnalysis'
  BY DEF Analysis!QuestionsMatchTheAnalysis
<1>1. /\ phase \in Proposed /\ ~Analysis!CannotBuild
      /\ workload' = [questions |-> {[change |-> k[1], target |-> k[2],
                                 attention |-> Analysis!Attention(k[1], k[2])] : k \in Analysis!Asked},
                 excluded |-> (Analysis!Accepted \X Analysis!Documents) \ Analysis!Asked]
      /\ UNCHANGED <<workspace, graph, said, status>>
  BY DEF Analysis!BuildImpact, Proposed
<1>2. PICK questions :
         questions = {[change |-> k[1], target |-> k[2],
                        attention |-> Analysis!Attention(k[1], k[2])] : k \in Analysis!Asked}
  OBVIOUS
<1>3. workload'.questions = questions
  BY <1>1, <1>2
<1>4. ASSUME NEW q \in questions
      PROVE  <<q.target, q.change>> \in DOMAIN said
  <2>1. PICK k \in Analysis!Asked : q = [change |-> k[1], target |-> k[2],
                                         attention |-> Analysis!Attention(k[1], k[2])]
    BY <1>2
  <2>2. /\ k[1] \in Analysis!Accepted /\ k[2] \in Analysis!Documents
        /\ k[2] # Incoming /\ k[2] # Analysis!Doc(k[1][2])
    BY DEF Analysis!Asked, Analysis!Excluded
  <2>3. <<k[2], k[1]>> \in Analysis!Candidates
    BY <2>2, AcceptedEdge DEF Analysis!Candidates
  <2> QED BY <1>1, <2>1, <2>3 DEF AnalysisInvariant
<1>5. ASSUME NEW x \in Analysis!Dependencies, NEW g \in Analysis!Accepted,
             x.upstream = g[2], Analysis!DocumentState(x.doc) = "current"
      PROVE  \E q \in questions :
                /\ q.change = g /\ q.target = x.doc
                /\ q.attention # "unreached"
                /\ x.answer.kind = "operative" => q.attention = "ranked"
  <2>1. PICK k \in Analysis!Candidates : x.doc = k[1] /\ x.upstream = k[2][2]
    BY <1>1, DependencyOfACandidate
  <2>2. /\ x.doc \in Analysis!Documents /\ x.doc # Incoming
        /\ x.doc # Analysis!Doc(g[2])
    BY <1>5, <2>1 DEF Analysis!Candidates
  <2>3. <<g, x.doc>> \in Analysis!Asked
    BY <1>5, <2>2 DEF Analysis!Asked, Analysis!Excluded
  <2>4. PICK q : q = [change |-> g, target |-> x.doc, attention |-> Analysis!Attention(g, x.doc)]
    OBVIOUS
  <2>5. q \in questions
    BY <1>2, <2>3, <2>4
  <2>6. ~Analysis!BeyondLimits
    BY <1>1 DEF Analysis!CannotBuild
  <2> QED BY <1>5, <2>4, <2>5, <2>6, AttentionFindsDependents
<1>6. /\ Analysis!Dependencies' = Analysis!Dependencies
      /\ Analysis!Accepted' = Analysis!Accepted
  BY <1>1 DEF Analysis!Dependencies, Analysis!Accepted, Analysis!NotDependent
<1>7. \A d : Analysis!DocumentState(d)' = Analysis!DocumentState(d)
  BY <1>1 DEF Analysis!DocumentState, Analysis!Resolve, Analysis!Predecessors,
    Analysis!AsOf, Analysis!From, Analysis!Documents, Analysis!SameFamily
<1>8. ASSUME NEW x \in Analysis!Dependencies', NEW g \in Analysis!Accepted',
             x.upstream = g[2], Analysis!DocumentState(x.doc)' = "current"
      PROVE  \E q \in workload'.questions :
                /\ q.change = g /\ q.target = x.doc
                /\ q.attention # "unreached"
                /\ x.answer.kind = "operative" => q.attention = "ranked"
  BY <1>3, <1>5, <1>6, <1>7, <1>8
<1> QED BY <1>1, <1>3, <1>4, <1>8 DEF Analysis!QuestionsMatchTheAnalysis

\* Decisions and answers change nothing of what the change is.
LEMMA SameChange ==
    ASSUME UNCHANGED <<workspace, graph>>
    PROVE  /\ Analysis!Governing' = Analysis!Governing
           /\ Analysis!Predecessors' = Analysis!Predecessors
           /\ Analysis!Candidates' = Analysis!Candidates
           /\ \A c : Analysis!Doc(c)' = Analysis!Doc(c)
<1>1. /\ Analysis!Documents' = Analysis!Documents /\ Analysis!Claims' = Analysis!Claims
      /\ \A c : Analysis!Doc(c)' = Analysis!Doc(c)
      /\ \A d : Analysis!From(d)' = Analysis!From(d)
      /\ \A d, e : Analysis!SameFamily(d, e)' = Analysis!SameFamily(d, e)
      /\ \A d, bounds : Analysis!Resolve(d, bounds)' = Analysis!Resolve(d, bounds)
  BY DEF Analysis!Documents, Analysis!Claims, Analysis!Doc, Analysis!From,
    Analysis!SameFamily, Analysis!Resolve, Analysis!AsOf
<1>2. Analysis!Predecessors' = Analysis!Predecessors
  BY <1>1 DEF Analysis!Predecessors
<1>3. Analysis!Pairs' = Analysis!Pairs
  BY <1>1 DEF Analysis!Pairs, Analysis!Changed, Analysis!ClaimsOf
<1>4. Analysis!Governing' = Analysis!Governing
  BY <1>1, <1>3 DEF Analysis!Governing
<1>5. Analysis!Candidates' = Analysis!Candidates
  BY <1>1, <1>4 DEF Analysis!Candidates
<1> QED BY <1>1, <1>2, <1>4, <1>5

LEMMA SameQuestions ==
    ASSUME Analysis!QuestionsMatchTheAnalysis,
           UNCHANGED <<workspace, phase, graph, said, status, workload>>
    PROVE  Analysis!QuestionsMatchTheAnalysis'
<1>1. /\ Analysis!Dependencies' = Analysis!Dependencies
      /\ Analysis!Accepted' = Analysis!Accepted
  BY DEF Analysis!Dependencies, Analysis!Accepted, Analysis!NotDependent
<1>2. \A d : Analysis!DocumentState(d)' = Analysis!DocumentState(d)
  BY DEF Analysis!DocumentState, Analysis!Resolve, Analysis!Predecessors, Analysis!AsOf,
    Analysis!From, Analysis!Documents, Analysis!SameFamily
<1> QED BY <1>1, <1>2 DEF Analysis!QuestionsMatchTheAnalysis

LEMMA AnalysisKept ==
    ASSUME ChangeControlAssumption, AnalysisInvariant, [Analysis!Next]_analysisVars
    PROVE  AnalysisInvariant'
<1>1. UNCHANGED workspace
  BY DEF Analysis!Next, analysisVars, Analysis!Classify, Analysis!EndUnchanged,
    Analysis!Analyse, Analysis!Propose, Analysis!Refuse, Analysis!Decide,
    Analysis!BuildImpact
<1>2. CASE UNCHANGED analysisVars
  <2>1. Analysis!Predecessors' = Analysis!Predecessors
    BY <1>2, SameChange DEF analysisVars
  <2> QED
    BY <1>2, SameChange, SameQuestions DEF analysisVars, AnalysisInvariant,
      Analysis!NoStatus
<1>3. CASE Analysis!Classify \/ Analysis!EndUnchanged \/ Analysis!Refuse
  <2>1. /\ phase \notin Proposed /\ phase' \in {"classified", "no-change", "refused"}
        /\ UNCHANGED status
    BY <1>3 DEF Proposed, Analysis!Classify, Analysis!EndUnchanged, Analysis!Refuse
  <2>2. phase' \notin Proposed \cup {"analysed"} /\ phase' # "built"
    BY <2>1 DEF Proposed
  <2> QED
    BY <1>1, <2>1, <2>2 DEF AnalysisInvariant, Analysis!NoStatus,
      Analysis!QuestionsMatchTheAnalysis
<1>4. CASE Analysis!Analyse
  <2>1. /\ phase \notin Proposed /\ phase' = "analysed" /\ UNCHANGED <<workspace, graph, status>>
        /\ DOMAIN said' = Analysis!Candidates /\ Cardinality(Analysis!Predecessors) = 1
    BY <1>4, CardinalityIsOne DEF Proposed, Analysis!Analyse, Analysis!Analysable
  <2>2. phase' \notin Proposed /\ phase' # "built"
    BY <2>1 DEF Proposed
  <2> QED
    BY <2>1, <2>2, SameChange DEF AnalysisInvariant, Analysis!NoStatus,
      Analysis!QuestionsMatchTheAnalysis
<1>5. CASE Analysis!Propose \/ Analysis!Decide
  <2>1. /\ phase \in Proposed \cup {"analysed"} /\ phase' \in {"proposed", "decided"}
        /\ UNCHANGED <<workspace, graph, said>>
        /\ DOMAIN status'.claims = Analysis!Governing
        /\ status'.document = "accepted" => status'.replacement = "accepted"
        /\ \E g \in Analysis!Governing : Analysis!Doc(g[2]) \in Analysis!Predecessors
    BY <1>5 DEF Proposed, Analysis!Propose, Analysis!Decide, Analysis!Proposable,
      AnalysisInvariant
  <2>2. phase' \in Proposed /\ phase' # "built"
    BY <2>1 DEF Proposed
  <2> QED
    BY <2>1, <2>2, SameChange DEF AnalysisInvariant, Analysis!QuestionsMatchTheAnalysis
<1>6. CASE Analysis!BuildImpact
  <2>1. phase \in Proposed /\ phase' \in Proposed /\ UNCHANGED <<workspace, graph, said, status>>
    BY <1>6 DEF Proposed, Analysis!BuildImpact
  <2>2. Analysis!QuestionsMatchTheAnalysis'
    BY <1>6, BuiltQuestionsMatch
  <2> QED BY <2>1, <2>2, SameChange DEF AnalysisInvariant
<1> QED BY <1>2, <1>3, <1>4, <1>5, <1>6 DEF Analysis!Next

\* From the analysis aggregate to the impact workload a run of
\* application_start_lifecycle.py and application_downstream.py stays with one
\* predecessor, its candidates and its governing edges, whatever the model answered and
\* the reviewer decided, in any workspace.
THEOREM AnalysisIsKept == ChangeSpec => []AnalysisInvariant
<1>1. ChangeInit => AnalysisInvariant
  BY DEF ChangeInit, Analysis!Init, AnalysisInvariant, Proposed,
    Analysis!QuestionsMatchTheAnalysis
<1>2. AnalysisInvariant /\ [ChangeNext]_allVars => AnalysisInvariant'
  <2>1. [ChangeNext]_allVars => [Analysis!Next]_analysisVars
    BY DEF ChangeNext, allVars
  <2> QED BY <2>1, ChangeControlAssumption, AnalysisKept
<1> QED BY <1>1, <1>2, PTL DEF ChangeSpec

\* build_impact_workload asks no question that the dependency analysis had not asked a
\* model before, and asks one of every current document that was found to depend on what
\* was superseded; in any workspace, within or beyond the limits of the analysis.
THEOREM QuestionsMatch == ChangeSpec => []QuestionsMatchTheAnalysis
<1>1. AnalysisInvariant => QuestionsMatchTheAnalysis
  BY DEF AnalysisInvariant, QuestionsMatchTheAnalysis
<1> QED BY <1>1, AnalysisIsKept, PTL

\* The temporal states that TemporalResolutionContext gives at revision 4 are those the
\* reviewer's decision asks for, on either side of an accepted edge, and no other state
\* is changed by it.
THEOREM StatesFollowed == ChangeSpec => []StatesFollowTheDecision
<1>1. AnalysisInvariant => StatesFollowTheDecision
  BY ChangeControlAssumption, StatesFollow DEF StatesFollowTheDecision
<1> QED BY <1>1, AnalysisIsKept, PTL

=============================================================================
