---------------------------- MODULE RecordsProofs ----------------------------
(* Theorems about Records, for every value of its constants: the locked,       *)
(* journaled file of the store and the atomic store that it implements;        *)
(* provider calls and batches of evidence, in this composition; and the        *)
(* adoption of a workspace.                                                    *)
EXTENDS Records, Sequences, SequenceTheorems, TLAPS

-----------------------------------------------------------------------------
(* The inductive invariant.                                                  *)

Locked == InTransaction \cup {"checking", "reading"}

\* view[h] is a function for every h.
TypeInv == TypeOK /\ view = [h \in Handles |-> view[h]]

\* Whoever is in a transaction is alone in the directory.
Alone ==
    \A g, h \in Handles : pc[g] \in InTransaction /\ pc[h] \in Locked => g = h

\* A call was made on a revision that was committed then, and revisions do not sink.
CallsAreKnown ==
    \A h \in Handles : pc[h] \in InTransaction \cup {"waiting"} =>
        call[h] \in Calls /\ call[h].expected <= Committed.aggregates.revision

\* What a write checked: no receipt of the operation id, the expected revision.
Writable(db, c) == ReceiptOf(db, c.op) = {} /\ db.aggregates.revision = c.expected

\* What the file and the journal are to a transaction, at each of its places.
AsOpened(h) == pc[h] = "open" => journal = Nothing /\ image[h] = file

AsWritten(h) ==
    pc[h] = "dirty" =>
        /\ journal = Nothing
        /\ image[h] \in Databases
        /\ Writable(file, call[h]) /\ image[h] = Transact(file, call[h])

AsJournaled(h) ==
    pc[h] = "journaled" =>
        /\ journal # Nothing
        /\ image[h] \in Databases
        /\ Writable(journal, call[h]) /\ image[h] = Transact(journal, call[h])
        /\ \A page \in Pages : file[page] \in {journal[page], image[h][page]}

AsCommitted(h) ==
    pc[h] = "committed" =>
        /\ journal = Nothing /\ image[h] = file
        /\ \E x \in ReceiptOf(file, call[h].op) : x.expected = call[h].expected

Transactions ==
    \A h \in Handles : AsOpened(h) /\ AsWritten(h) /\ AsJournaled(h) /\ AsCommitted(h)

\* A reader has found no journal, and what it has read is what the file says.
Readers ==
    \A h \in Handles :
        /\ pc[h] = "reading" => journal = Nothing
        /\ pc[h] # "reading" => DOMAIN view[h] = {}
        /\ \A page \in DOMAIN view[h] : view[h][page] = file[page]

\* Why answers stay true: an operation id has one receipt, a refused id has that
\* of another call, and the revision that a conflict was about is past.
OneReceipt(db) == \A x, y \in db.operations : x.op = y.op => x = y

Remembered(db, a) ==
    /\ a.result = "committed" =>
        \E x \in db.operations :
            x.op = a.op /\ x.expected = a.expected /\ x.revision = a.revision
    /\ a.result = "reused" => \E x \in db.operations : x.op = a.op /\ x.expected # a.expected
    /\ a.result = "conflict" =>
        /\ \A x \in db.operations : x.op = a.op => x.expected # a.expected
        /\ a.expected < db.aggregates.revision

History == OneReceipt(Committed) /\ \A a \in answers : Remembered(Committed, a)

Inv == TypeInv /\ Alone /\ CallsAreKnown /\ Transactions /\ Readers /\ History

-----------------------------------------------------------------------------
(* Databases and the transaction.                                            *)

LEMMA DatabasesAreRecords ==
    ASSUME NEW db \in Databases
    PROVE  /\ db = [aggregates |-> db.aggregates, operations |-> db.operations]
           /\ db.aggregates \in Heads /\ db.operations \subseteq Receipts
           /\ db.aggregates.revision \in 0..MaxRevision
BY DEF Databases, Heads

LEMMA TransactType ==
    ASSUME CoordinationAssumption, NEW db \in Databases, NEW c \in Calls, Writable(db, c),
           Transact(db, c).aggregates.revision <= MaxRevision
    PROVE  Transact(db, c) \in Databases
<1> DEFINE content == Wanted[c.op]
           changed == c.expected = 0 \/ content # db.aggregates.content
           revision == IF changed THEN c.expected + 1 ELSE c.expected
           receipt == [op |-> c.op, expected |-> c.expected, content |-> content,
                       revision |-> revision, changed |-> changed]
<1>1. c.op \in Operations /\ c.expected \in 0..MaxRevision /\ content \in Versions
    BY DEF Calls, CoordinationAssumption
<1>2. Transact(db, c) = [aggregates |-> [revision |-> revision, content |-> content],
                        operations |-> db.operations \cup {receipt}]
    BY DEF Transact
<1>3. revision \in 0..MaxRevision
    <2>1. revision <= MaxRevision
        BY <1>2
    <2>2. revision \in Nat
        BY <1>1, CoordinationAssumption DEF CoordinationAssumption
    <2>3. QED
        BY <2>1, <2>2, CoordinationAssumption DEF CoordinationAssumption
<1> HIDE DEF revision
<1>4. changed \in BOOLEAN
    OBVIOUS
<1> HIDE DEF changed
<1>5. receipt \in Receipts
    BY <1>1, <1>3, <1>4 DEF Receipts
<1>6. [revision |-> revision, content |-> content] \in Heads
    BY <1>1, <1>3 DEF Heads
<1> HIDE DEF receipt, content
<1>7. db.operations \cup {receipt} \in SUBSET Receipts
    BY <1>5, DatabasesAreRecords
<1>8. QED
    BY <1>2, <1>6, <1>7 DEF Databases

\* A transaction adds one receipt, that of its call.
LEMMA TransactAdds ==
    ASSUME NEW db \in Databases, NEW c \in Calls, Writable(db, c)
    PROVE  /\ \E x : /\ Transact(db, c).operations = db.operations \cup {x}
                    /\ x.op = c.op /\ x.expected = c.expected
           /\ Transact(db, c).aggregates.revision \in
                {db.aggregates.revision, db.aggregates.revision + 1}
<1> DEFINE content == Wanted[c.op]
           changed == c.expected = 0 \/ content # db.aggregates.content
           revision == IF changed THEN c.expected + 1 ELSE c.expected
           receipt == [op |-> c.op, expected |-> c.expected, content |-> content,
                       revision |-> revision, changed |-> changed]
<1>1. Transact(db, c) = [aggregates |-> [revision |-> revision, content |-> content],
                        operations |-> db.operations \cup {receipt}]
    BY DEF Transact
<1>2. receipt.op = c.op /\ receipt.expected = c.expected
    OBVIOUS
<1>3. revision \in {db.aggregates.revision, db.aggregates.revision + 1}
    BY DEF Writable
<1> HIDE DEF receipt, revision
<1>4. QED
    BY <1>1, <1>2, <1>3

LEMMA TransactKeepsOneReceipt ==
    ASSUME NEW db \in Databases, NEW c \in Calls, Writable(db, c), OneReceipt(db)
    PROVE  OneReceipt(Transact(db, c))
<1>1. PICK x : Transact(db, c).operations = db.operations \cup {x} /\ x.op = c.op
    BY TransactAdds
<1>2. \A y \in db.operations : y.op # c.op
    BY DEF Writable, ReceiptOf
<1>3. QED
    BY <1>1, <1>2 DEF OneReceipt

LEMMA TransactRemembers ==
    ASSUME CoordinationAssumption, NEW db \in Databases, NEW c \in Calls, Writable(db, c),
           NEW a \in Answers, Remembered(db, a)
    PROVE  Remembered(Transact(db, c), a)
<1>1. PICK x : /\ Transact(db, c).operations = db.operations \cup {x}
               /\ x.op = c.op /\ x.expected = c.expected
    BY TransactAdds
<1>2. /\ db.aggregates.revision \in Nat /\ a.expected \in Nat
      /\ Transact(db, c).aggregates.revision \in Nat
      /\ db.aggregates.revision <= Transact(db, c).aggregates.revision
    <2>1. db.aggregates.revision \in Nat
        BY DatabasesAreRecords, CoordinationAssumption DEF CoordinationAssumption
    <2>2. a.expected \in Nat
        BY CoordinationAssumption DEF CoordinationAssumption, Answers
    <2>3. QED
        BY <2>1, <2>2, TransactAdds
<1>3. c.expected = db.aggregates.revision
    BY DEF Writable
<1>4. CASE a.result = "committed"
    BY <1>1, <1>4 DEF Remembered
<1>5. CASE a.result = "reused"
    BY <1>1, <1>5 DEF Remembered
<1>6. CASE a.result = "conflict"
    <2>1. /\ \A y \in db.operations : y.op = a.op => y.expected # a.expected
          /\ a.expected < db.aggregates.revision
        BY <1>6 DEF Remembered
    <2>2. x.expected # a.expected
        BY <1>1, <1>2, <1>3, <2>1
    <2>3. a.expected < Transact(db, c).aggregates.revision
        BY <1>2, <2>1
    <2>4. \A y \in Transact(db, c).operations : y.op = a.op => y.expected # a.expected
        BY <1>1, <2>1, <2>2
    <2>5. QED
        BY <1>6, <2>3, <2>4 DEF Remembered
<1>7. a.result \in {"committed", "reused", "conflict"}
    BY DEF Answers
<1>8. QED
    BY <1>4, <1>5, <1>6, <1>7

LEMMA CommittedType ==
    ASSUME TypeInv
    PROVE  Committed \in Databases
BY DEF TypeInv, TypeOK, Committed

LEMMA InitInv == CoordinationAssumption /\ Init => Inv
<1> SUFFICES ASSUME CoordinationAssumption, Init
             PROVE  Inv
    OBVIOUS
<1>1. file \in Databases /\ Committed = file
    <2>1. [revision |-> 0, content |-> Nothing] \in Heads
        BY DEF Heads, CoordinationAssumption
    <2>2. QED
        BY <2>1 DEF Init, Databases, Committed
<1>2. TypeInv
    BY <1>1 DEF Init, TypeInv, TypeOK, InTransaction, Answers
<1>3. Alone /\ CallsAreKnown
    BY DEF Init, Alone, CallsAreKnown, InTransaction
<1>4. Transactions
    BY DEF Init, Transactions, AsOpened, AsWritten, AsJournaled, AsCommitted
<1>5. Readers
    BY DEF Init, Readers
<1>6. History
    BY <1>1 DEF Init, History, OneReceipt
<1>7. QED
    BY <1>2, <1>3, <1>4, <1>5, <1>6 DEF Inv

-----------------------------------------------------------------------------
(* The steps.                                                                *)

LEMMA SameHistory ==
    ASSUME History, Committed' = Committed, answers' = answers
    PROVE  History'
BY DEF History, OneReceipt, Remembered

\* A handle that leaves, with the file and the journal as they are.
LEMMA ReleaseStep ==
    ASSUME Inv, NEW h \in Handles, Release(h), UNCHANGED <<file, journal>>,
           answers' \subseteq Answers
    PROVE  TypeInv' /\ Alone' /\ CallsAreKnown' /\ Transactions' /\ Readers'
<1>1. /\ pc' = [pc EXCEPT ![h] = "idle"] /\ lock' = [lock EXCEPT ![h] = "none"]
      /\ call' = [call EXCEPT ![h] = Nothing] /\ image' = [image EXCEPT ![h] = Nothing]
      /\ view' = [view EXCEPT ![h] = <<>>]
    BY DEF Release
<1>2. TypeInv'
    <2>1. file' \in Databases /\ journal' \in Databases \cup {Nothing}
        BY DEF Inv, TypeInv, TypeOK
    <2>2. /\ pc' \in [Handles -> InTransaction
                        \cup {"idle", "waiting", "opening", "checking", "reading"}]
          /\ call' \in [Handles -> Calls \cup {Nothing}]
          /\ image' \in [Handles -> Databases \cup {Nothing}]
        BY <1>1 DEF Inv, TypeInv, TypeOK
    <2>3. lock' = [g \in Handles |->
                    IF pc'[g] \in InTransaction THEN "exclusive"
                    ELSE IF pc'[g] \in {"checking", "reading"} THEN "shared" ELSE "none"]
        BY <1>1 DEF Inv, TypeInv, TypeOK, InTransaction
    <2>4. DOMAIN <<>> = {}
        OBVIOUS
    <2>5. /\ \A g \in Handles : DOMAIN view'[g] \subseteq Pages
          /\ view' = [g \in Handles |-> view'[g]]
        BY <1>1, <2>4 DEF Inv, TypeInv, TypeOK
    <2>6. QED
        BY <2>1, <2>2, <2>3, <2>5 DEF TypeInv, TypeOK
<1>3. Alone'
    BY <1>1 DEF Inv, TypeInv, TypeOK, Alone, InTransaction, Locked
<1>4. CallsAreKnown'
    BY <1>1 DEF Inv, TypeInv, TypeOK, CallsAreKnown, InTransaction, Committed
<1>5. Transactions'
    BY <1>1 DEF Inv, TypeInv, TypeOK, Transactions, AsOpened, AsWritten, AsJournaled,
      AsCommitted, Writable, ReceiptOf, Transact
<1>6. Readers'
    BY <1>1 DEF Inv, TypeInv, TypeOK, Readers
<1>7. QED
    BY <1>2, <1>3, <1>4, <1>5, <1>6

\* A handle that goes on, with the file, the journal and the answers as they are.
LEMMA CallStep ==
    ASSUME CoordinationAssumption, Inv, NEW h \in Handles, NEW op \in Operations,
           NEW expected \in 0..MaxRevision, Call(h, op, expected)
    PROVE  Inv'
<1>1. /\ pc[h] = "idle" /\ pc' = [pc EXCEPT ![h] = "waiting"]
      /\ expected <= Committed.aggregates.revision
      /\ call' = [call EXCEPT ![h] = [op |-> op, expected |-> expected]]
      /\ UNCHANGED <<file, journal, lock, image, view, answers>>
    BY DEF Call, Goto
<1>2. [op |-> op, expected |-> expected] \in Calls
    BY DEF Calls
<1>3. TypeInv'
    BY <1>1, <1>2 DEF Inv, TypeInv, TypeOK, InTransaction
<1>4. Alone'
    BY <1>1 DEF Inv, TypeInv, TypeOK, Alone, InTransaction, Locked
<1>5. CallsAreKnown'
    BY <1>1, <1>2 DEF Inv, TypeInv, TypeOK, CallsAreKnown, InTransaction, Committed
<1>6. Transactions'
    BY <1>1 DEF Inv, TypeInv, TypeOK, Transactions, AsOpened, AsWritten, AsJournaled,
      AsCommitted, Writable, ReceiptOf, Transact
<1>7. Readers'
    BY <1>1 DEF Inv, TypeInv, TypeOK, Readers
<1>8. History'
    BY <1>1, SameHistory DEF Inv, Committed
<1>9. QED
    BY <1>3, <1>4, <1>5, <1>6, <1>7, <1>8 DEF Inv

LEMMA AcquireStep ==
    ASSUME Inv, NEW h \in Handles, Acquire(h)
    PROVE  Inv'
<1>1. /\ pc[h] = "waiting" /\ pc' = [pc EXCEPT ![h] = "locked"]
      /\ \A g \in Handles \ {h} : lock[g] = "none"
      /\ lock' = [lock EXCEPT ![h] = "exclusive"]
      /\ UNCHANGED <<file, journal, call, image, view, answers>>
    BY DEF Acquire, Goto, Available
<1>2. TypeInv'
    BY <1>1 DEF Inv, TypeInv, TypeOK, InTransaction
<1>3. \A g \in Handles \ {h} : pc[g] \notin Locked
    BY <1>1 DEF Inv, TypeInv, TypeOK, Locked, InTransaction
<1>4. Alone'
    BY <1>1, <1>3 DEF Inv, TypeInv, TypeOK, Alone, InTransaction, Locked
<1>5. CallsAreKnown'
    BY <1>1 DEF Inv, TypeInv, TypeOK, CallsAreKnown, InTransaction, Committed
<1>6. Transactions'
    BY <1>1 DEF Inv, TypeInv, TypeOK, Transactions, AsOpened, AsWritten, AsJournaled,
      AsCommitted, Writable, ReceiptOf, Transact
<1>7. Readers'
    BY <1>1 DEF Inv, TypeInv, TypeOK, Readers
<1>8. History'
    BY <1>1, SameHistory DEF Inv, Committed
<1>9. QED
    BY <1>2, <1>4, <1>5, <1>6, <1>7, <1>8 DEF Inv

\* A hot journal is played back: nobody sees the file meanwhile.
LEMMA BeginStep ==
    ASSUME CoordinationAssumption, Inv, NEW h \in Handles, Begin(h)
    PROVE  Inv' /\ Committed' = Committed
<1>1. /\ pc[h] = "locked" /\ pc' = [pc EXCEPT ![h] = "open"]
      /\ file' = Committed /\ journal' = Nothing
      /\ image' = [image EXCEPT ![h] = Committed]
      /\ UNCHANGED <<lock, call, view, answers>>
    BY DEF Begin, Goto, Recovered, Committed
<1>2. Committed' = Committed /\ Committed \in Databases
    BY <1>1, CommittedType DEF Inv, Committed
<1>3. \A g \in Handles \ {h} : pc[g] \notin Locked
    BY <1>1 DEF Inv, Alone, Locked, InTransaction
<1>4. TypeInv'
    BY <1>1, <1>2 DEF Inv, TypeInv, TypeOK, InTransaction
<1>5. Alone'
    BY <1>1 DEF Inv, TypeInv, TypeOK, Alone, InTransaction, Locked
<1>6. CallsAreKnown'
    BY <1>1, <1>2 DEF Inv, TypeInv, TypeOK, CallsAreKnown, InTransaction
<1>7. Transactions'
    BY <1>1, <1>3 DEF Inv, TypeInv, TypeOK, Transactions, AsOpened, AsWritten,
      AsJournaled, AsCommitted, Locked, InTransaction
<1>8. Readers'
    BY <1>1, <1>3 DEF Inv, TypeInv, TypeOK, Readers, Locked
<1>9. History'
    BY <1>1, <1>2, SameHistory DEF Inv
<1>10. QED
    BY <1>2, <1>4, <1>5, <1>6, <1>7, <1>8, <1>9 DEF Inv

LEMMA WriteStep ==
    ASSUME CoordinationAssumption, Inv, NEW h \in Handles, Write(h)
    PROVE  Inv'
<1>1. /\ pc[h] = "open" /\ pc' = [pc EXCEPT ![h] = "dirty"]
      /\ Writable(image[h], call[h])
      /\ Transact(image[h], call[h]).aggregates.revision <= MaxRevision
      /\ image' = [image EXCEPT ![h] = Transact(image[h], call[h])]
      /\ UNCHANGED <<file, journal, lock, call, view, answers>>
    BY DEF Write, Goto, Writable
<1>2. image[h] = file /\ journal = Nothing /\ call[h] \in Calls /\ file \in Databases
    BY <1>1 DEF Inv, Transactions, AsOpened, CallsAreKnown, InTransaction, TypeInv, TypeOK
<1>3. Transact(file, call[h]) \in Databases
    BY <1>1, <1>2, TransactType
<1>4. TypeInv'
    BY <1>1, <1>2, <1>3 DEF Inv, TypeInv, TypeOK, InTransaction
<1>5. Alone'
    BY <1>1 DEF Inv, TypeInv, TypeOK, Alone, InTransaction, Locked
<1>6. CallsAreKnown'
    BY <1>1 DEF Inv, TypeInv, TypeOK, CallsAreKnown, InTransaction, Committed
<1>7. Transactions'
    <2>1. ASSUME NEW g \in Handles, g # h
          PROVE  (AsOpened(g) /\ AsWritten(g) /\ AsJournaled(g) /\ AsCommitted(g))'
        BY <1>1, <2>1 DEF Inv, TypeInv, TypeOK, Transactions, AsOpened, AsWritten,
          AsJournaled, AsCommitted, Writable, ReceiptOf, Transact
    <2>2. (AsOpened(h) /\ AsWritten(h) /\ AsJournaled(h) /\ AsCommitted(h))'
        BY <1>1, <1>2, <1>3 DEF Inv, TypeInv, TypeOK, AsOpened, AsWritten, AsJournaled,
          AsCommitted, Writable, ReceiptOf, Transact
    <2>3. QED
        BY <2>1, <2>2 DEF Transactions
<1>8. Readers'
    BY <1>1 DEF Inv, TypeInv, TypeOK, Readers
<1>9. History'
    BY <1>1, SameHistory DEF Inv, Committed
<1>10. QED
    BY <1>4, <1>5, <1>6, <1>7, <1>8, <1>9 DEF Inv

LEMMA WriteJournalStep ==
    ASSUME CoordinationAssumption, Inv, NEW h \in Handles, WriteJournal(h)
    PROVE  Inv' /\ Committed' = Committed
<1>1. /\ pc[h] = "dirty" /\ pc' = [pc EXCEPT ![h] = "journaled"]
      /\ journal' = file
      /\ UNCHANGED <<file, lock, call, image, view, answers>>
    BY DEF WriteJournal, Goto
<1>2. /\ journal = Nothing /\ file \in Databases /\ file # Nothing
      /\ image[h] \in Databases
      /\ Writable(file, call[h]) /\ image[h] = Transact(file, call[h])
    BY <1>1 DEF Inv, Transactions, AsWritten, TypeInv, TypeOK, CoordinationAssumption
<1>3. Committed' = Committed
    BY <1>1, <1>2 DEF Committed
<1>4. \A g \in Handles \ {h} : pc[g] \notin Locked
    BY <1>1 DEF Inv, Alone, Locked, InTransaction
<1>5. TypeInv'
    BY <1>1, <1>2 DEF Inv, TypeInv, TypeOK, InTransaction
<1>6. Alone'
    BY <1>1 DEF Inv, TypeInv, TypeOK, Alone, InTransaction, Locked
<1>7. CallsAreKnown'
    BY <1>1, <1>3 DEF Inv, TypeInv, TypeOK, CallsAreKnown, InTransaction
<1>8. Transactions'
    <2>1. ASSUME NEW g \in Handles, g # h
          PROVE  (AsOpened(g) /\ AsWritten(g) /\ AsJournaled(g) /\ AsCommitted(g))'
        BY <1>1, <1>4, <2>1 DEF Inv, TypeInv, TypeOK, AsOpened, AsWritten, AsJournaled,
          AsCommitted, Locked, InTransaction
    <2>2. AsJournaled(h)'
        BY <1>1, <1>2 DEF AsJournaled, Writable, ReceiptOf, Transact
    <2>3. (AsOpened(h) /\ AsWritten(h) /\ AsCommitted(h))'
        BY <1>1 DEF Inv, TypeInv, TypeOK, AsOpened, AsWritten, AsCommitted
    <2>4. QED
        BY <2>1, <2>2, <2>3 DEF Transactions
<1>9. Readers'
    BY <1>1, <1>4 DEF Inv, TypeInv, TypeOK, Readers, Locked
<1>10. History'
    BY <1>1, <1>3, SameHistory DEF Inv
<1>11. QED
    BY <1>3, <1>5, <1>6, <1>7, <1>8, <1>9, <1>10 DEF Inv

LEMMA WritePageStep ==
    ASSUME Inv, NEW h \in Handles, NEW page \in Pages, WritePage(h, page)
    PROVE  Inv' /\ Committed' = Committed
<1>1. /\ pc[h] = "journaled"
      /\ file' = [file EXCEPT ![page] = image[h][page]]
      /\ UNCHANGED <<journal, lock, pc, call, image, view, answers>>
    BY DEF WritePage
<1>2. /\ journal # Nothing /\ image[h] \in Databases
      /\ \A p \in Pages : file[p] \in {journal[p], image[h][p]}
    BY <1>1 DEF Inv, Transactions, AsJournaled
<1>3. Committed' = Committed
    BY <1>1, <1>2 DEF Committed
<1>4. \A g \in Handles \ {h} : pc[g] \notin Locked
    BY <1>1 DEF Inv, Alone, Locked, InTransaction
<1>5. file \in Databases
    BY DEF Inv, TypeInv, TypeOK
<1>6. /\ file' \in Databases
      /\ \A p \in Pages : file'[p] \in {journal[p], image[h][p]}
    <2>1. page = "aggregates" \/ page = "operations"
        BY DEF Pages
    <2>2. /\ image[h].aggregates \in Heads /\ image[h].operations \subseteq Receipts
          /\ file = [aggregates |-> file.aggregates, operations |-> file.operations]
          /\ file.aggregates \in Heads /\ file.operations \subseteq Receipts
        BY <1>2, <1>5, DatabasesAreRecords
    <2>3. CASE page = "aggregates"
        BY <1>1, <1>2, <2>2, <2>3 DEF Databases, Pages
    <2>4. CASE page = "operations"
        BY <1>1, <1>2, <2>2, <2>4 DEF Databases, Pages
    <2>5. QED
        BY <2>1, <2>3, <2>4
<1>7. TypeInv'
    BY <1>1, <1>6 DEF Inv, TypeInv, TypeOK
<1>8. Alone'
    BY <1>1 DEF Inv, Alone
<1>9. CallsAreKnown'
    BY <1>1, <1>3 DEF Inv, CallsAreKnown
<1>10. Transactions'
    <2>1. ASSUME NEW g \in Handles, g # h
          PROVE  (AsOpened(g) /\ AsWritten(g) /\ AsJournaled(g) /\ AsCommitted(g))'
        BY <1>1, <1>4, <2>1 DEF AsOpened, AsWritten, AsJournaled, AsCommitted, Locked,
          InTransaction
    <2>2. AsJournaled(h)'
        BY <1>1, <1>6 DEF Inv, Transactions, AsJournaled, Writable, ReceiptOf, Transact
    <2>3. (AsOpened(h) /\ AsWritten(h) /\ AsCommitted(h))'
        BY <1>1 DEF AsOpened, AsWritten, AsCommitted
    <2>4. QED
        BY <2>1, <2>2, <2>3 DEF Transactions
<1>11. Readers'
    BY <1>1, <1>4 DEF Inv, Readers, Locked
<1>12. History'
    BY <1>1, <1>3, SameHistory DEF Inv
<1>13. QED
    BY <1>3, <1>7, <1>8, <1>9, <1>10, <1>11, <1>12 DEF Inv

\* The moment at which a transaction takes effect, as a whole.
LEMMA DeleteJournalStep ==
    ASSUME CoordinationAssumption, Inv, NEW h \in Handles, DeleteJournal(h)
    PROVE  /\ Inv'
           /\ call[h] \in Calls /\ Writable(Committed, call[h])
           /\ Committed' = Transact(Committed, call[h]) /\ Committed' \in Databases
<1>1. /\ pc[h] = "journaled" /\ pc' = [pc EXCEPT ![h] = "committed"]
      /\ file = image[h] /\ journal' = Nothing
      /\ UNCHANGED <<file, lock, call, image, view, answers>>
    BY DEF DeleteJournal, Goto
<1>2. /\ journal # Nothing /\ image[h] \in Databases
      /\ Writable(journal, call[h]) /\ image[h] = Transact(journal, call[h])
    BY <1>1 DEF Inv, Transactions, AsJournaled
<1>3. /\ Committed = journal /\ journal \in Databases /\ call[h] \in Calls
      /\ Committed' = file
    BY <1>1, <1>2, CommittedType DEF Inv, Committed, CallsAreKnown, InTransaction
<1>4. \A g \in Handles \ {h} : pc[g] \notin Locked
    BY <1>1 DEF Inv, Alone, Locked, InTransaction
<1>5. TypeInv'
    BY <1>1 DEF Inv, TypeInv, TypeOK, InTransaction
<1>6. Alone'
    BY <1>1 DEF Inv, TypeInv, TypeOK, Alone, InTransaction, Locked
<1>7. /\ journal.aggregates.revision \in Nat /\ file.aggregates.revision \in Nat
      /\ journal.aggregates.revision <= file.aggregates.revision
    BY <1>1, <1>2, <1>3, TransactAdds, DatabasesAreRecords, CoordinationAssumption DEF
      CoordinationAssumption
<1>8. CallsAreKnown'
    <2>1. ASSUME NEW g \in Handles, pc'[g] \in InTransaction \cup {"waiting"}
          PROVE  call[g] \in Calls /\ call[g].expected <= file.aggregates.revision
        <3>1. pc[g] \in InTransaction \cup {"waiting"}
            BY <1>1, <2>1 DEF Inv, TypeInv, TypeOK, InTransaction
        <3>2. call[g] \in Calls /\ call[g].expected <= journal.aggregates.revision
            BY <1>3, <3>1 DEF Inv, CallsAreKnown
        <3>3. call[g].expected \in Nat
            BY <3>2, CoordinationAssumption DEF Calls, CoordinationAssumption
        <3>4. QED
            BY <1>7, <3>2, <3>3
    <2>2. QED
        BY <1>1, <1>3, <2>1 DEF CallsAreKnown
<1>9. Transactions'
    <2>1. ASSUME NEW g \in Handles, g # h
          PROVE  (AsOpened(g) /\ AsWritten(g) /\ AsJournaled(g) /\ AsCommitted(g))'
        BY <1>1, <1>4, <2>1 DEF Inv, TypeInv, TypeOK, AsOpened, AsWritten, AsJournaled,
          AsCommitted, Locked, InTransaction
    <2>2. \E x \in ReceiptOf(file, call[h].op) : x.expected = call[h].expected
        BY <1>1, <1>2, <1>3, TransactAdds DEF ReceiptOf
    <2>3. AsCommitted(h)'
        BY <1>1, <2>2 DEF AsCommitted, ReceiptOf
    <2>4. (AsOpened(h) /\ AsWritten(h) /\ AsJournaled(h))'
        BY <1>1 DEF Inv, TypeInv, TypeOK, AsOpened, AsWritten, AsJournaled
    <2>5. QED
        BY <2>1, <2>3, <2>4 DEF Transactions
<1>10. Readers'
    BY <1>1, <1>4 DEF Inv, TypeInv, TypeOK, Readers, Locked
<1>11. History'
    <2>1. OneReceipt(file)
        BY <1>1, <1>2, <1>3, TransactKeepsOneReceipt DEF Inv, History
    <2>2. \A a \in answers : Remembered(file, a)
        BY <1>1, <1>2, <1>3, TransactRemembers DEF Inv, History, TypeInv, TypeOK
    <2>3. QED
        BY <1>1, <1>3, <2>1, <2>2 DEF History, OneReceipt, Remembered
<1>12. QED
    BY <1>1, <1>2, <1>3, <1>5, <1>6, <1>8, <1>9, <1>10, <1>11 DEF Inv

LEMMA RollbackStep ==
    ASSUME CoordinationAssumption, Inv, NEW h \in Handles, Rollback(h)
    PROVE  Inv' /\ Committed' = Committed
<1>1. CASE pc[h] # "journaled"
    <2>1. Release(h) /\ UNCHANGED <<file, journal, answers>>
        BY <1>1 DEF Rollback
    <2>2. TypeInv' /\ Alone' /\ CallsAreKnown' /\ Transactions' /\ Readers'
        BY <2>1, ReleaseStep DEF Inv, TypeInv, TypeOK
    <2>3. Committed' = Committed
        BY <2>1 DEF Committed
    <2>4. QED
        BY <2>1, <2>2, <2>3, SameHistory DEF Inv
<1>2. CASE pc[h] = "journaled"
    <2>1. /\ pc' = [pc EXCEPT ![h] = "idle"] /\ lock' = [lock EXCEPT ![h] = "none"]
          /\ call' = [call EXCEPT ![h] = Nothing] /\ image' = [image EXCEPT ![h] = Nothing]
          /\ view' = [view EXCEPT ![h] = <<>>]
          /\ file' = journal /\ journal' = Nothing /\ answers' = answers
        BY <1>2 DEF Rollback, Release
    <2>2. journal # Nothing /\ journal \in Databases
        BY <1>2 DEF Inv, Transactions, AsJournaled, TypeInv, TypeOK
    <2>3. Committed' = Committed
        BY <2>1, <2>2 DEF Committed
    <2>4. \A g \in Handles \ {h} : pc[g] \notin Locked
        BY <1>2 DEF Inv, Alone, Locked, InTransaction
    <2>5. TypeInv'
        <3>1. /\ pc' \in [Handles -> InTransaction
                            \cup {"idle", "waiting", "opening", "checking", "reading"}]
              /\ call' \in [Handles -> Calls \cup {Nothing}]
              /\ image' \in [Handles -> Databases \cup {Nothing}]
            BY <2>1 DEF Inv, TypeInv, TypeOK
        <3>2. lock' = [g \in Handles |->
                        IF pc'[g] \in InTransaction THEN "exclusive"
                        ELSE IF pc'[g] \in {"checking", "reading"} THEN "shared" ELSE "none"]
            BY <2>1 DEF Inv, TypeInv, TypeOK, InTransaction
        <3>3. DOMAIN <<>> = {}
            OBVIOUS
        <3>4. /\ \A g \in Handles : DOMAIN view'[g] \subseteq Pages
              /\ view' = [g \in Handles |-> view'[g]]
            BY <2>1, <3>3 DEF Inv, TypeInv, TypeOK
        <3>5. QED
            BY <2>1, <2>2, <3>1, <3>2, <3>4 DEF Inv, TypeInv, TypeOK
    <2>6. Alone'
        BY <2>1 DEF Inv, TypeInv, TypeOK, Alone, InTransaction, Locked
    <2>7. CallsAreKnown'
        BY <2>1, <2>3 DEF Inv, TypeInv, TypeOK, CallsAreKnown, InTransaction
    <2>8. Transactions'
        BY <2>1, <2>4 DEF Inv, TypeInv, TypeOK, Transactions, AsOpened, AsWritten,
          AsJournaled, AsCommitted, Locked, InTransaction
    <2>9. Readers'
        BY <2>1, <2>4 DEF Inv, TypeInv, TypeOK, Readers, Locked
    <2>10. QED
        BY <2>1, <2>3, <2>5, <2>6, <2>7, <2>8, <2>9, SameHistory DEF Inv
<1>3. QED
    BY <1>1, <1>2

\* A transaction that SQLite has rolled back leaves what was committed, and its
\* handle alone in the directory.
LEMMA SelfRollbackStep ==
    ASSUME Inv, NEW h \in Handles, SelfRollback(h)
    PROVE  Inv' /\ Committed' = Committed
<1>1. /\ pc[h] \in {"open", "dirty", "journaled"}
      /\ pc' = [pc EXCEPT ![h] = "raised"]
      /\ UNCHANGED <<lock, call, image, view, answers>>
    BY DEF SelfRollback
<1>2. Committed' = Committed /\ file' \in Databases /\ journal' = Nothing
    <2>1. pc[h] # "journaled" => journal = Nothing
        BY <1>1 DEF Inv, Transactions, AsOpened, AsWritten
    <2>2. pc[h] = "journaled" => journal # Nothing /\ journal \in Databases
        BY DEF Inv, Transactions, AsJournaled, TypeInv, TypeOK
    <2>3. QED
        BY <2>1, <2>2 DEF SelfRollback, Committed, Inv, TypeInv, TypeOK
<1>3. \A g \in Handles \ {h} : pc[g] \notin Locked
    BY <1>1 DEF Inv, Alone, Locked, InTransaction
<1>4. TypeInv'
    BY <1>1, <1>2 DEF Inv, TypeInv, TypeOK, InTransaction
<1>5. Alone'
    BY <1>1 DEF Inv, TypeInv, TypeOK, Alone, InTransaction, Locked
<1>6. CallsAreKnown'
    BY <1>1, <1>2 DEF Inv, TypeInv, TypeOK, CallsAreKnown, InTransaction
<1>7. Transactions'
    BY <1>1, <1>3 DEF Inv, TypeInv, TypeOK, Transactions, AsOpened, AsWritten,
      AsJournaled, AsCommitted, Locked, InTransaction
<1>8. Readers'
    BY <1>1, <1>2, <1>3 DEF Inv, TypeInv, TypeOK, Readers, Locked
<1>9. QED
    BY <1>1, <1>2, <1>4, <1>5, <1>6, <1>7, <1>8, SameHistory DEF Inv

\* The ways to leave that tell the caller nothing.
LEMMA SilentStep ==
    ASSUME Inv, NEW h \in Handles, Release(h), UNCHANGED <<file, journal, answers>>
    PROVE  Inv' /\ Committed' = Committed
<1>1. TypeInv' /\ Alone' /\ CallsAreKnown' /\ Transactions' /\ Readers'
    BY ReleaseStep DEF Inv, TypeInv, TypeOK
<1>2. Committed' = Committed
    BY DEF Committed
<1>3. QED
    BY <1>1, <1>2, SameHistory DEF Inv

\* A caller is told what the receipts will go on to say.
LEMMA AnswerStep ==
    ASSUME Inv, NEW h \in Handles, Release(h), UNCHANGED <<file, journal>>,
           NEW a \in Answers, Remembered(Committed, a), answers' = answers \cup {a}
    PROVE  Inv' /\ Committed' = Committed
<1>1. TypeInv' /\ Alone' /\ CallsAreKnown' /\ Transactions' /\ Readers'
    BY ReleaseStep DEF Inv, TypeInv, TypeOK
<1>2. Committed' = Committed
    BY DEF Committed
<1>3. History'
    BY <1>2 DEF Inv, History, OneReceipt, Remembered
<1>4. QED
    BY <1>1, <1>2, <1>3 DEF Inv

\* The receipt that answers for a call is the call's own.
LEMMA CommittedAnswer ==
    ASSUME Inv, NEW h \in Handles, pc[h] \in {"open", "committed"},
           NEW x \in ReceiptOf(image[h], call[h].op), 
           \E y \in ReceiptOf(image[h], call[h].op) : y.expected = call[h].expected
    PROVE  /\ Answer(call[h], "committed", x.revision) \in Answers
           /\ Remembered(Committed, Answer(call[h], "committed", x.revision))
<1>1. journal = Nothing /\ image[h] = file /\ Committed = file
    BY DEF Inv, Transactions, AsOpened, AsCommitted, Committed
<1>2. call[h] \in Calls /\ file \in Databases
    BY DEF Inv, CallsAreKnown, InTransaction, TypeInv, TypeOK
<1>3. x \in file.operations /\ x.op = call[h].op /\ x \in Receipts
    BY <1>1, <1>2, DatabasesAreRecords DEF ReceiptOf
<1>4. x.expected = call[h].expected
    BY <1>1, <1>3 DEF ReceiptOf, Inv, History, OneReceipt
<1>5. QED
    BY <1>1, <1>2, <1>3, <1>4 DEF Answer, Answers, Calls, Receipts, Remembered

LEMMA RefuseStep ==
    ASSUME CoordinationAssumption, Inv, NEW h \in Handles, Refuse(h)
    PROVE  Inv' /\ Committed' = Committed
<1>1. /\ pc[h] = "open" /\ ~Replays(image[h], call[h])
      /\ Release(h) /\ UNCHANGED <<file, journal>>
    BY DEF Refuse
<1>2. journal = Nothing /\ image[h] = file /\ Committed = file
    BY <1>1 DEF Inv, Transactions, AsOpened, Committed
<1>3. /\ call[h] \in Calls /\ file \in Databases
      /\ call[h].expected <= file.aggregates.revision
    BY <1>1, <1>2 DEF Inv, CallsAreKnown, InTransaction, TypeInv, TypeOK
<1>4. CASE /\ ReceiptOf(image[h], call[h].op) # {}
           /\ answers' = answers \cup {Answer(call[h], "reused", 0)}
    <2>1. Answer(call[h], "reused", 0) \in Answers
        BY <1>3, CoordinationAssumption DEF Answer, Answers, Calls, CoordinationAssumption
    <2>2. Remembered(Committed, Answer(call[h], "reused", 0))
        BY <1>1, <1>2, <1>4 DEF Replays, ReceiptOf, Answer, Remembered
    <2>3. QED
        BY <1>1, <1>4, <2>1, <2>2, AnswerStep
<1>5. CASE /\ ReceiptOf(image[h], call[h].op) = {}
           /\ image[h].aggregates.revision # call[h].expected
           /\ answers' = answers \cup {Answer(call[h], "conflict", 0)}
    <2>1. Answer(call[h], "conflict", 0) \in Answers
        BY <1>3, CoordinationAssumption DEF Answer, Answers, Calls, CoordinationAssumption
    <2>2. call[h].expected < file.aggregates.revision
        <3>1. file.aggregates.revision \in Nat /\ call[h].expected \in Nat
            BY <1>3, DatabasesAreRecords, CoordinationAssumption DEF Calls,
              CoordinationAssumption
        <3>2. QED
            BY <1>2, <1>3, <1>5, <3>1
    <2>3. Remembered(Committed, Answer(call[h], "conflict", 0))
        BY <1>2, <1>5, <2>2 DEF ReceiptOf, Answer, Remembered
    <2>4. QED
        BY <1>1, <1>5, <2>1, <2>3, AnswerStep
<1>6. QED
    BY <1>4, <1>5 DEF Refuse

LEMMA AnsweredStep ==
    ASSUME Inv, NEW h \in Handles, Replay(h) \/ Return(h)
    PROVE  Inv' /\ Committed' = Committed
<1>1. /\ pc[h] \in {"open", "committed"} /\ Release(h) /\ UNCHANGED <<file, journal>>
      /\ \E y \in ReceiptOf(image[h], call[h].op) : y.expected = call[h].expected
    BY DEF Replay, Return, Replays, Inv, Transactions, AsCommitted
<1>2. PICK x \in ReceiptOf(image[h], call[h].op) :
            answers' = answers \cup {Answer(call[h], "committed", x.revision)}
    BY DEF Replay, Return
<1>3. QED
    BY <1>1, <1>2, CommittedAnswer, AnswerStep

LEMMA OpenReadOnlyStep ==
    ASSUME Inv, NEW h \in Handles, OpenReadOnly(h)
    PROVE  Inv'
<1>1. /\ pc[h] = "idle" /\ pc' = [pc EXCEPT ![h] = "opening"]
      /\ UNCHANGED <<file, journal, lock, call, image, view, answers>>
    BY DEF OpenReadOnly, Goto
<1>2. TypeInv'
    BY <1>1 DEF Inv, TypeInv, TypeOK, InTransaction
<1>3. Alone'
    BY <1>1 DEF Inv, TypeInv, TypeOK, Alone, InTransaction, Locked
<1>4. CallsAreKnown'
    BY <1>1 DEF Inv, TypeInv, TypeOK, CallsAreKnown, InTransaction, Committed
<1>5. Transactions'
    BY <1>1 DEF Inv, TypeInv, TypeOK, Transactions, AsOpened, AsWritten, AsJournaled,
      AsCommitted, Writable, ReceiptOf, Transact
<1>6. Readers'
    BY <1>1 DEF Inv, TypeInv, TypeOK, Readers
<1>7. QED
    BY <1>1, <1>2, <1>3, <1>4, <1>5, <1>6, SameHistory DEF Inv, Committed

\* The shared lock keeps transactions away, whoever else reads.
LEMMA AcquireSharedStep ==
    ASSUME Inv, NEW h \in Handles, AcquireShared(h)
    PROVE  Inv'
<1>1. /\ pc[h] = "opening" /\ pc' = [pc EXCEPT ![h] = "checking"]
      /\ \A g \in Handles \ {h} : lock[g] \in {"none", "shared"}
      /\ lock' = [lock EXCEPT ![h] = "shared"]
      /\ UNCHANGED <<file, journal, call, image, view, answers>>
    BY DEF AcquireShared, Goto, Available
<1>2. TypeInv'
    BY <1>1 DEF Inv, TypeInv, TypeOK, InTransaction
<1>3. \A g \in Handles \ {h} : pc[g] \notin InTransaction
    BY <1>1 DEF Inv, TypeInv, TypeOK
<1>4. Alone'
    BY <1>1, <1>3 DEF Inv, TypeInv, TypeOK, Alone, InTransaction, Locked
<1>5. CallsAreKnown'
    BY <1>1 DEF Inv, TypeInv, TypeOK, CallsAreKnown, InTransaction, Committed
<1>6. Transactions'
    BY <1>1 DEF Inv, TypeInv, TypeOK, Transactions, AsOpened, AsWritten, AsJournaled,
      AsCommitted, Writable, ReceiptOf, Transact
<1>7. Readers'
    BY <1>1 DEF Inv, TypeInv, TypeOK, Readers
<1>8. QED
    BY <1>1, <1>2, <1>4, <1>5, <1>6, <1>7, SameHistory DEF Inv, Committed

LEMMA CheckStep ==
    ASSUME Inv, NEW h \in Handles, Check(h)
    PROVE  Inv'
<1>1. /\ pc[h] = "checking" /\ pc' = [pc EXCEPT ![h] = "reading"]
      /\ journal = Nothing
      /\ UNCHANGED <<file, journal, lock, call, image, view, answers>>
    BY DEF Check, Goto, Readable
<1>2. TypeInv'
    BY <1>1 DEF Inv, TypeInv, TypeOK, InTransaction
<1>3. Alone'
    BY <1>1 DEF Inv, TypeInv, TypeOK, Alone, InTransaction, Locked
<1>4. CallsAreKnown'
    BY <1>1 DEF Inv, TypeInv, TypeOK, CallsAreKnown, InTransaction, Committed
<1>5. Transactions'
    BY <1>1 DEF Inv, TypeInv, TypeOK, Transactions, AsOpened, AsWritten, AsJournaled,
      AsCommitted, Writable, ReceiptOf, Transact
<1>6. Readers'
    BY <1>1 DEF Inv, TypeInv, TypeOK, Readers
<1>7. QED
    BY <1>1, <1>2, <1>3, <1>4, <1>5, <1>6, SameHistory DEF Inv, Committed

LEMMA ReadPageStep ==
    ASSUME Inv, NEW h \in Handles, NEW page \in Pages, ReadPage(h, page)
    PROVE  Inv'
<1> DEFINE pages == [p \in DOMAIN view[h] \cup {page} |->
                        IF p = page THEN file[page] ELSE view[h][p]]
<1>1. /\ pc[h] = "reading" /\ view' = [view EXCEPT ![h] = pages]
      /\ UNCHANGED <<file, journal, lock, pc, call, image, answers>>
    BY DEF ReadPage
<1>2. /\ DOMAIN pages = DOMAIN view[h] \cup {page}
      /\ \A p \in DOMAIN pages : pages[p] = file[p]
    BY DEF Inv, Readers
<1> HIDE DEF pages
<1>3. TypeInv'
    BY <1>1, <1>2 DEF Inv, TypeInv, TypeOK
<1>4. Readers'
    BY <1>1, <1>2 DEF Inv, TypeInv, Readers
<1>5. Alone' /\ CallsAreKnown' /\ Transactions'
    BY <1>1 DEF Inv, Alone, CallsAreKnown, Committed, Transactions, AsOpened, AsWritten,
      AsJournaled, AsCommitted, Writable, ReceiptOf, Transact
<1>6. QED
    BY <1>1, <1>3, <1>4, <1>5, SameHistory DEF Inv, Committed

\* Every step keeps the invariant, and what is committed changes at one only: when
\* the journal of a transaction is deleted.
LEMMA Step ==
    ASSUME CoordinationAssumption, Inv, [Next]_vars
    PROVE  Inv' /\ (Committed' = Committed \/ \E h \in Handles : DeleteJournal(h))
<1>1. CASE UNCHANGED vars
    <2>1. UNCHANGED <<file, journal, lock, pc, call, image, view, answers>>
        BY <1>1 DEF vars
    <2>2. TypeInv' /\ Alone' /\ Readers' /\ Committed' = Committed
        BY <2>1 DEF Inv, TypeInv, TypeOK, Alone, Readers, Committed
    <2>3. CallsAreKnown'
        BY <2>1, <2>2 DEF Inv, CallsAreKnown
    <2>4. Transactions'
        BY <2>1 DEF Inv, Transactions, AsOpened, AsWritten, AsJournaled, AsCommitted,
          Writable, ReceiptOf, Transact
    <2>5. QED
        BY <2>1, <2>2, <2>3, <2>4, SameHistory DEF Inv
<1>2. ASSUME NEW h \in Handles,
             \/ \E op \in Operations, expected \in 0..MaxRevision : Call(h, op, expected)
             \/ Acquire(h) \/ Busy(h)
             \/ Progress(h)
             \/ ReturnUnverified(h) \/ Rollback(h) \/ Crash(h)
             \/ SelfRollback(h) \/ CloseRaised(h)
             \/ OpenReadOnly(h) \/ AcquireShared(h) \/ Check(h) \/ CheckFails(h)
             \/ (\E page \in Pages : ReadPage(h, page)) \/ Close(h)
      PROVE  Inv' /\ (Committed' = Committed \/ \E g \in Handles : DeleteJournal(g))
    <2>1. CASE \E op \in Operations, expected \in 0..MaxRevision : Call(h, op, expected)
        BY <2>1, CallStep DEF Call, Committed
    <2>2. CASE Acquire(h)
        BY <2>2, AcquireStep DEF Acquire, Committed
    <2>3. CASE \/ Busy(h) \/ ReturnUnverified(h) \/ Crash(h) \/ CheckFails(h) \/ Close(h)
               \/ CloseRaised(h)
        BY <2>3, SilentStep DEF Busy, ReturnUnverified, Crash, CheckFails, Close, CloseRaised
    <2>4. CASE Begin(h)
        BY <2>4, BeginStep
    <2>5. CASE Replay(h) \/ Return(h)
        BY <2>5, AnsweredStep
    <2>6. CASE Refuse(h)
        BY <2>6, RefuseStep
    <2>7. CASE Write(h)
        BY <2>7, WriteStep DEF Write, Committed
    <2>8. CASE WriteJournal(h)
        BY <2>8, WriteJournalStep
    <2>9. CASE \E page \in Pages : WritePage(h, page)
        BY <2>9, WritePageStep
    <2>10. CASE DeleteJournal(h)
        BY <2>10, DeleteJournalStep
    <2>11. CASE Rollback(h)
        BY <2>11, RollbackStep
    <2>12. CASE OpenReadOnly(h)
        BY <2>12, OpenReadOnlyStep DEF OpenReadOnly, Committed
    <2>13. CASE AcquireShared(h)
        BY <2>13, AcquireSharedStep DEF AcquireShared, Committed
    <2>14. CASE Check(h)
        BY <2>14, CheckStep DEF Check, Committed
    <2>15. CASE \E page \in Pages : ReadPage(h, page)
        BY <2>15, ReadPageStep DEF ReadPage, Committed
    <2>16. CASE SelfRollback(h)
        BY <2>16, SelfRollbackStep
    <2>17. QED
        BY <1>2, <2>1, <2>2, <2>3, <2>4, <2>5, <2>6, <2>7, <2>8, <2>9, <2>10, <2>11,
          <2>12, <2>13, <2>14, <2>15, <2>16 DEF Progress
<1>3. QED
    BY <1>1, <1>2 DEF Next

-----------------------------------------------------------------------------
(* The theorems about the file.                                              *)

\* The invariant holds from the first state on: the transaction of the one writer
\* is where the file and the journal say it is.
THEOREM CoordinationInvariant == ASSUME CoordinationAssumption PROVE Spec => []Inv
<1>1. Init => Inv
    BY InitInv
<1>2. Inv /\ [Next]_vars => Inv'
    BY Step
<1>3. QED
    BY <1>1, <1>2, PTL DEF Spec

\* Every handle holds the lock mode that its place in the protocol calls for, on
\* every path out of a transaction.
THEOREM CoordinationTypes == ASSUME CoordinationAssumption PROVE Spec => []TypeOK
<1>1. Inv => TypeOK
    BY DEF Inv, TypeInv
<1>2. QED
    BY <1>1, CoordinationInvariant, PTL

\* Whatever writers, crashes and rollbacks do, the pages a read-only handle
\* collects are those of one committed state, still committed when it closes.
THEOREM ReadersAreConsistent == ASSUME CoordinationAssumption PROVE Spec => []ReadersSeeOneCommit
<1>1. Inv => ReadersSeeOneCommit
    <2> SUFFICES ASSUME Inv, NEW h \in Handles, NEW page \in DOMAIN view[h]
                 PROVE  view[h][page] = Committed[page]
        BY DEF ReadersSeeOneCommit
    <2>1. pc[h] = "reading"
        BY DEF Inv, Readers
    <2>2. QED
        BY <2>1 DEF Inv, Readers, Committed
<1>2. QED
    BY <1>1, CoordinationInvariant, PTL

\* What a caller was told by a call that returned is never belied later.
THEOREM AnswersAreFinal == ASSUME CoordinationAssumption PROVE Spec => []AnswersStayTrue
<1>1. Inv => AnswersStayTrue
    <2> SUFFICES ASSUME Inv, NEW a \in answers
                 PROVE  LET effects == {x \in Committed.operations :
                                            x.op = a.op /\ x.expected = a.expected}
                        IN  IF a.result = "committed"
                            THEN \E x \in effects : x.revision = a.revision
                            ELSE effects = {}
        BY DEF AnswersStayTrue
    <2>1. a.result \in {"committed", "reused", "conflict"}
        BY DEF Inv, TypeInv, TypeOK, Answers
    <2>2. Remembered(Committed, a) /\ OneReceipt(Committed)
        BY DEF Inv, History
    <2>3. CASE a.result = "committed"
        BY <2>2, <2>3 DEF Remembered
    <2>4. CASE a.result = "reused"
        BY <2>2, <2>4 DEF Remembered, OneReceipt
    <2>5. CASE a.result = "conflict"
        BY <2>2, <2>5 DEF Remembered
    <2>6. QED
        BY <2>1, <2>3, <2>4, <2>5
<1>2. QED
    BY <1>1, CoordinationInvariant, PTL

-----------------------------------------------------------------------------
(* The file implements the store.                                            *)

LEMMA ContentsAreDistinct ==
    ASSUME NEW x, NEW y, ContentOf(x) = ContentOf(y), x = Nothing <=> y = Nothing
    PROVE  x = y
<1>1. ContentOf(x)[Document].body = ContentOf(y)[Document].body
    OBVIOUS
<1>2. QED
    BY <1>1 DEF ContentOf

LEMMA ContentType ==
    ASSUME NEW x \in Versions \cup {Nothing}
    PROVE  ContentOf(x) \in Durable!Contents
BY DEF ContentOf, Durable!Contents, Durable!SubjectStates, Durable!Absent, Durable!Subjects

\* The receipts of a transaction, as the store has them.
LEMMA MappedTransaction ==
    ASSUME CoordinationAssumption, Committed \in Databases,
           NEW c \in Calls, Writable(Committed, c),
           Committed' = Transact(Committed, c), Committed' \in Databases
    PROVE  Durable!CompareAndSwap(c.op, "aggregate", c.expected, ContentOf(Wanted[c.op]))
<1> DEFINE content  == Wanted[c.op]
           live     == Committed.aggregates.content
           changed  == c.expected = 0 \/ content # live
           revision == IF changed THEN c.expected + 1 ELSE c.expected
           receipt  == [op |-> c.op, expected |-> c.expected, content |-> content,
                        revision |-> revision, changed |-> changed]
<1>1. /\ content \in Versions /\ content # Nothing
      /\ live \in Versions \cup {Nothing}
      /\ Committed.aggregates.revision = c.expected
    BY DatabasesAreRecords DEF Calls, CoordinationAssumption, Writable, Heads
<1>2. /\ Committed'.aggregates = [revision |-> revision, content |-> content]
      /\ Committed'.operations = Committed.operations \cup {receipt}
    BY DEF Transact
<1>3. revision <= MaxRevision
    BY <1>2, DatabasesAreRecords, CoordinationAssumption DEF CoordinationAssumption
<1>4. Durable!Changes("aggregate", c.expected, ContentOf(content)) = changed
    <2>1. CommittedHead["aggregate"].content = ContentOf(live)
        BY DEF CommittedHead
    <2>2. ContentOf(content) = ContentOf(live) => content = live
        BY <1>1, ContentsAreDistinct DEF ContentOf
    <2>3. QED
        BY <2>1, <2>2 DEF Durable!Changes
<1>5. ~Durable!Owned(c.op)
    BY DEF Durable!Owned, CommittedReceipts, Writable, ReceiptOf
<1>6. CommittedHead["aggregate"].revision = c.expected
    BY <1>1 DEF CommittedHead
<1>7. Durable!Valid(ContentOf(content))
    BY DEF Durable!Valid
<1>8. Durable!NonReviewTransition("aggregate", ContentOf(content))
    <2>1. \A x : \A s \in Durable!Subjects : ~Durable!Reviewed(ContentOf(x)[s])
        BY DEF Durable!Subjects, Durable!Reviewed, ContentOf
    <2>2. CommittedHead["aggregate"].content = ContentOf(live)
        BY DEF CommittedHead
    <2>3. Durable!Bound("aggregate") = {}
        BY DEF Durable!Bound
    <2>4. QED
        BY <2>1, <2>2, <2>3 DEF Durable!NonReviewTransition
<1>9. CommittedHead' = [CommittedHead EXCEPT !["aggregate"] =
                            [revision |-> revision, content |-> ContentOf(content)]]
    BY <1>2 DEF CommittedHead
<1>10. CommittedReceipts' = CommittedReceipts \cup
            {Durable!Receipt(c.op, "aggregate", c.expected, ContentOf(content), revision, changed)}
    <2> DEFINE Mapped(x) == [op |-> x.op, agg |-> "aggregate", expected |-> x.expected,
                             content |-> ContentOf(x.content), revision |-> x.revision,
                             changed |-> x.changed]
    <2>1. CommittedReceipts' = {Mapped(x) : x \in Committed'.operations}
        BY DEF CommittedReceipts
    <2>2. CommittedReceipts = {Mapped(x) : x \in Committed.operations}
        BY DEF CommittedReceipts
    <2>3. Mapped(receipt) =
            Durable!Receipt(c.op, "aggregate", c.expected, ContentOf(content), revision, changed)
        BY DEF Durable!Receipt
    <2> HIDE DEF Mapped, receipt
    <2>4. QED
        BY <1>2, <2>1, <2>2, <2>3
<1> HIDE DEF changed
<1>11. QED
    BY <1>3, <1>4, <1>5, <1>6, <1>7, <1>8, <1>9, <1>10 DEF Durable!CompareAndSwap

\* The locked, journaled file commits whole compare-and-swap transactions, each on
\* the state the last one left, and nothing else: through every interleaving of
\* handles, every crash and every failure before, during and after COMMIT.
THEOREM CoordinationImplementsStore ==
    ASSUME CoordinationAssumption PROVE Spec => ImplementsStore
<1>1. Init => Durable!Init
    <2> SUFFICES ASSUME Init PROVE Durable!Init
        OBVIOUS
    <2>1. /\ Committed.aggregates = [revision |-> 0, content |-> Nothing]
          /\ Committed.operations = {}
        BY DEF Init, Committed
    <2>2. ContentOf(Nothing) = Durable!Empty
        BY DEF ContentOf, Durable!Empty, Durable!Absent, Durable!Subjects
    <2>3. QED
        BY <2>1, <2>2 DEF Durable!Init, CommittedHead, CommittedReceipts
<1>2. ASSUME Inv, [Next]_vars
      PROVE  [Durable!vars' # Durable!vars /\ Durable!Next]_(Durable!vars)
    <2>1. CASE Committed' = Committed
        BY <2>1 DEF Durable!vars, CommittedHead, CommittedReceipts
    <2>2. ASSUME NEW h \in Handles, DeleteJournal(h)
          PROVE  Durable!Next
        <3>1. /\ call[h] \in Calls /\ Writable(Committed, call[h])
              /\ Committed' = Transact(Committed, call[h]) /\ Committed' \in Databases
            BY <1>2, <2>2, DeleteJournalStep
        <3>2. Committed \in Databases
            BY <1>2, CommittedType DEF Inv
        <3>3. Durable!CompareAndSwap(call[h].op, "aggregate", call[h].expected,
                                     ContentOf(Wanted[call[h].op]))
            BY <3>1, <3>2, MappedTransaction
        <3>4. /\ call[h].op \in Operations /\ call[h].expected \in 0..MaxRevision
              /\ ContentOf(Wanted[call[h].op]) \in Durable!Contents
            BY <3>1, ContentType DEF Calls, CoordinationAssumption
        <3>5. QED
            BY <3>3, <3>4 DEF Durable!Next
    <2>3. QED
        BY <1>2, <2>1, <2>2, Step
<1>3. QED
    BY <1>1, <1>2, CoordinationInvariant, PTL DEF Spec, ImplementsStore

-----------------------------------------------------------------------------
(* Provider calls.                                                           *)

\* The theorems of ProviderCalls are about the very journal that is composed.
JournalProofs == INSTANCE ProviderCallsProofs WITH
    Processes <- Handles, Requests <- Names, Replies <- FileContents, lock <- journalLock

LEMMA SameJournal ==
    /\ Journal!CallsAssumption => JournalProofs!CallsAssumption
    /\ Journal!Init => JournalProofs!Init
    /\ Journal!Next => JournalProofs!Next
    /\ Journal!vars = JournalProofs!vars
    /\ JournalProofs!AskedOnceAnsweredAlike => Journal!AskedOnceAnsweredAlike
<1>1. ASSUME NEW dir, NEW k, NEW value
      PROVE  /\ Journal!Linked(dir, k, value) = JournalProofs!Linked(dir, k, value)
             /\ Journal!Unlinked(dir, k) = JournalProofs!Unlinked(dir, k)
  BY DEF Journal!Linked, JournalProofs!Linked, Journal!Unlinked, JournalProofs!Unlinked,
    Journal!Cleaned, JournalProofs!Cleaned
<1>2. /\ Journal!Absent = JournalProofs!Absent /\ Journal!Claims = JournalProofs!Claims
      /\ \A n : Journal!Idle(n) = JournalProofs!Idle(n)
      /\ \A p : Journal!Unlocked(p) = JournalProofs!Unlocked(p)
      /\ \A p : Journal!Return(p) = JournalProofs!Return(p)
      /\ \A k, c, reply : Journal!Answer(k, c, reply) = JournalProofs!Answer(k, c, reply)
      /\ \A f : Journal!Readable(f) = JournalProofs!Readable(f)
      /\ \A p : Journal!Completion(p) = JournalProofs!Completion(p)
  BY DEF Journal!Absent, JournalProofs!Absent, Journal!Claims, JournalProofs!Claims,
    Journal!Idle, JournalProofs!Idle, Journal!Unlocked, JournalProofs!Unlocked,
    Journal!Return, JournalProofs!Return, Journal!Answer, JournalProofs!Answer,
    Journal!Readable, JournalProofs!Readable, Journal!Completion, JournalProofs!Completion
<1>3. ASSUME NEW p \in Handles, NEW k \in Names, NEW c \in Journal!Claims, Journal!Begin(p, k, c)
      PROVE  JournalProofs!Begin(p, k, c)
  <2>1. /\ Journal!Fresh(k) = JournalProofs!Fresh(k)
        /\ Journal!Completed(k, c) = JournalProofs!Completed(k, c)
    BY <1>2 DEF Journal!Fresh, JournalProofs!Fresh, Journal!Completed,
      JournalProofs!Completed, Journal!SameSemantics, JournalProofs!SameSemantics
  <2> QED BY <1>2, <1>3, <2>1 DEF Journal!Begin, JournalProofs!Begin
<1>4. ASSUME NEW p \in Handles, Journal!Claiming(p)
      PROVE  JournalProofs!Claiming(p)
  BY <1>1, <1>2, <1>4 DEF Journal!Claiming, JournalProofs!Claiming, Journal!LinkClaim,
    JournalProofs!LinkClaim, Journal!LeaseFresh, JournalProofs!LeaseFresh
<1>5. ASSUME NEW p \in Handles
      PROVE  /\ Journal!AskProvider(p) => JournalProofs!AskProvider(p)
             /\ Journal!RefuseAnswer(p) => JournalProofs!RefuseAnswer(p)
             /\ Journal!Crash(p) => JournalProofs!Crash(p)
  BY <1>2 DEF Journal!AskProvider, JournalProofs!AskProvider, Journal!RefuseAnswer,
    JournalProofs!RefuseAnswer, Journal!Crash, JournalProofs!Crash
<1>6. ASSUME NEW p \in Handles, Journal!LockForResult(p)
      PROVE  JournalProofs!LockForResult(p)
  <2>1. Journal!Recordable(p) = JournalProofs!Recordable(p)
    BY <1>2 DEF Journal!Recordable, JournalProofs!Recordable
  <2> QED
    BY <1>2, <1>6, <2>1 DEF Journal!LockForResult, JournalProofs!LockForResult,
      Journal!RecordOrder, JournalProofs!RecordOrder
<1>7. ASSUME NEW p \in Handles, Journal!Recording(p)
      PROVE  JournalProofs!Recording(p)
  <2>1. Journal!WriteResult(p) => JournalProofs!WriteResult(p)
    BY <1>2 DEF Journal!WriteResult, JournalProofs!WriteResult
  <2>2. Journal!LinkPointer(p) => JournalProofs!LinkPointer(p)
    BY <1>1, <1>2 DEF Journal!LinkPointer, JournalProofs!LinkPointer
  <2>3. Journal!UnlinkPending(p) => JournalProofs!UnlinkPending(p)
    BY <1>1, <1>2 DEF Journal!UnlinkPending, JournalProofs!UnlinkPending
  <2>4. Journal!ReopenResult(p) => JournalProofs!ReopenResult(p)
    BY <1>2 DEF Journal!ReopenResult, JournalProofs!ReopenResult
  <2> QED BY <1>7, <2>1, <2>2, <2>3, <2>4 DEF Journal!Recording, JournalProofs!Recording
<1>8. Journal!Next => JournalProofs!Next
  BY <1>2, <1>3, <1>4, <1>5, <1>6, <1>7 DEF Journal!Next, JournalProofs!Next
<1>9. /\ Journal!CallsAssumption => JournalProofs!CallsAssumption
      /\ Journal!Init => JournalProofs!Init
      /\ Journal!vars = JournalProofs!vars
      /\ JournalProofs!AskedOnceAnsweredAlike => Journal!AskedOnceAnsweredAlike
  BY <1>2 DEF Journal!CallsAssumption, JournalProofs!CallsAssumption, Journal!Init,
    JournalProofs!Init, Journal!vars, JournalProofs!vars, Journal!AskedOnceAnsweredAlike,
    JournalProofs!AskedOnceAnsweredAlike
<1> QED BY <1>8, <1>9

\* The journal of application_provider_calls.py never lets a request be paid twice, and
\* answers everyone who made it alike, wherever the processes of the bridge die and
\* whoever of them retries.
THEOREM ProvidersAreAskedOnce == RecordsSpec => []AskedOnceAnsweredAlike
<1>1. JournalProofs!CallsAssumption
  BY SameJournal, RecordsAssumption DEF RecordsAssumption
<1>2. RecordsInit => JournalProofs!Inv
  BY <1>1, SameJournal, JournalProofs!InvInit DEF RecordsInit
<1>3. JournalProofs!Inv /\ [RecordsNext]_allVars => JournalProofs!Inv'
  <2>1. UNCHANGED journalVars => UNCHANGED JournalProofs!vars
    BY DEF journalVars, JournalProofs!vars
  <2>2. [RecordsNext]_allVars => [JournalProofs!Next]_JournalProofs!vars
    BY <2>1, SameJournal DEF RecordsNext, allVars
  <2> QED BY <1>1, <2>2, JournalProofs!NextKeepsInv
<1>4. JournalProofs!Inv => AskedOnceAnsweredAlike
  <2>1. JournalProofs!Inv => JournalProofs!AskedOnceAnsweredAlike
    BY DEF JournalProofs!Inv, JournalProofs!TypeInv, JournalProofs!AsCompleted,
      JournalProofs!Journaled, JournalProofs!AskedOnceAnsweredAlike
  <2> QED BY <2>1, SameJournal DEF AskedOnceAnsweredAlike
<1> QED BY <1>2, <1>3, <1>4, PTL DEF RecordsSpec

-----------------------------------------------------------------------------
(* Batches of evidence.                                                      *)

\* The theorems of EvidenceBatches are about the very repository that is composed.
BatchProofs == INSTANCE EvidenceBatchesProofs WITH
    Writers <- Handles, MaxCrashes <- MaxDeaths,
    file <- evidence, lock <- batchLock, crashes <- deaths

LEMMA SameBatch ==
    /\ Batch!BatchesAssumption => BatchProofs!BatchesAssumption
    /\ Batch!Init => BatchProofs!Init
    /\ Batch!Next => BatchProofs!Next
    /\ Batch!vars = BatchProofs!vars
    /\ BatchProofs!CommittedIsComplete => Batch!CommittedIsComplete
<1>1. /\ Batch!Outcomes = BatchProofs!Outcomes /\ Batch!Idle = BatchProofs!Idle
      /\ Batch!Release = BatchProofs!Release
      /\ \A kind, o : Batch!Evidence(kind, o) = BatchProofs!Evidence(kind, o)
      /\ \A b : Batch!Marker(b) = BatchProofs!Marker(b)
      /\ \A o : Batch!OutcomeFiles(o) = BatchProofs!OutcomeFiles(o)
      /\ \A f : Batch!Directory(f) = BatchProofs!Directory(f)
      /\ \A b : Batch!MemberSet(b) = BatchProofs!MemberSet(b)
      /\ \A fs, F : Batch!Readable(fs, F) = BatchProofs!Readable(fs, F)
      /\ \A fs, F : Batch!Exact(fs, F) = BatchProofs!Exact(fs, F)
      /\ \A f : Batch!Exists(f) = BatchProofs!Exists(f)
  BY DEF Batch!Outcomes, BatchProofs!Outcomes, Batch!Idle, BatchProofs!Idle,
    Batch!Release, BatchProofs!Release, Batch!Evidence, BatchProofs!Evidence,
    Batch!Marker, BatchProofs!Marker, Batch!OutcomeFiles, BatchProofs!OutcomeFiles,
    Batch!Directory, BatchProofs!Directory, Batch!MemberSet, BatchProofs!MemberSet,
    Batch!Readable, BatchProofs!Readable, Batch!Exact, BatchProofs!Exact, Batch!Exists,
    BatchProofs!Exists
<1>2. /\ Batch!Files = BatchProofs!Files /\ Batch!Markers = BatchProofs!Markers
      /\ \A os : Batch!FilesOf(os) = BatchProofs!FilesOf(os)
      /\ \A b : Batch!Replays(b) = BatchProofs!Replays(b)
      /\ \A os : Batch!ReceiptDirectories(os) = BatchProofs!ReceiptDirectories(os)
      /\ \A b : Batch!MemberFiles(b) = BatchProofs!MemberFiles(b)
  BY <1>1 DEF Batch!Files, BatchProofs!Files, Batch!Markers, BatchProofs!Markers,
    Batch!FilesOf, BatchProofs!FilesOf, Batch!Replays, BatchProofs!Replays,
    Batch!ReceiptDirectories, BatchProofs!ReceiptDirectories, Batch!MemberFiles,
    BatchProofs!MemberFiles
<1>3. /\ \A b : Batch!Sources(b) = BatchProofs!Sources(b)
      /\ \A fs, D : Batch!Cleaned(fs, D) = BatchProofs!Cleaned(fs, D)
      /\ \A fs, res, d : Batch!Pending(fs, res, d) = BatchProofs!Pending(fs, res, d)
      /\ \A fs, o : Batch!SourceCommitted(fs, o) = BatchProofs!SourceCommitted(fs, o)
      /\ \A b : Batch!WriteOrder(b) = BatchProofs!WriteOrder(b)
      /\ \A b : Batch!PreflightCleaning(b) = BatchProofs!PreflightCleaning(b)
  BY <1>1, <1>2 DEF Batch!Sources, BatchProofs!Sources, Batch!Cleaned,
    BatchProofs!Cleaned, Batch!Pending, BatchProofs!Pending, Batch!SourceCommitted,
    BatchProofs!SourceCommitted, Batch!WriteOrder, BatchProofs!WriteOrder,
    Batch!PreflightCleaning, BatchProofs!PreflightCleaning
<1>4. \A fs, b : Batch!ReplaysResolve(fs, b) = BatchProofs!ReplaysResolve(fs, b)
  BY <1>1, <1>2, <1>3 DEF Batch!ReplaysResolve, BatchProofs!ReplaysResolve
<1>5. /\ \A b : Batch!Resolvable(b) = BatchProofs!Resolvable(b)
      /\ \A b : Batch!Preflight(b) = BatchProofs!Preflight(b)
  BY <1>1, <1>2, <1>3, <1>4 DEF Batch!Resolvable, BatchProofs!Resolvable,
    Batch!Preflight, BatchProofs!Preflight
<1>6. ASSUME NEW w \in Handles, Batch!Step(w)
      PROVE  BatchProofs!Step(w)
  <2>1. ASSUME NEW b \in Batches
        PROVE  /\ Batch!PersistBatch(w, b) => BatchProofs!PersistBatch(w, b)
               /\ Batch!ResolveVerifiedBatch(w, b) => BatchProofs!ResolveVerifiedBatch(w, b)
    BY <1>1, <1>3, <1>5 DEF Batch!PersistBatch, BatchProofs!PersistBatch,
      Batch!ResolveVerifiedBatch, BatchProofs!ResolveVerifiedBatch
  <2>2. Batch!WritePending(w) => BatchProofs!WritePending(w)
    BY <1>1, <1>3 DEF Batch!WritePending, BatchProofs!WritePending
  <2>3. Batch!LinkName(w) => BatchProofs!LinkName(w)
    BY <1>1 DEF Batch!LinkName, BatchProofs!LinkName
  <2>4. Batch!UnlinkPending(w) => BatchProofs!UnlinkPending(w)
    BY <1>1 DEF Batch!UnlinkPending, BatchProofs!UnlinkPending
  <2>5. Batch!MintCapability(w) => BatchProofs!MintCapability(w)
    BY <1>1, <1>5 DEF Batch!MintCapability, BatchProofs!MintCapability
  <2> QED BY <1>6, <2>1, <2>2, <2>3, <2>4, <2>5 DEF Batch!Step, BatchProofs!Step
<1>7. ASSUME NEW w \in Handles, Batch!Crash(w)
      PROVE  BatchProofs!Crash(w)
  BY <1>1, <1>7 DEF Batch!Crash, BatchProofs!Crash
<1>8. Batch!Next => BatchProofs!Next
  BY <1>6, <1>7 DEF Batch!Next, BatchProofs!Next
<1>9. /\ Batch!BatchesAssumption => BatchProofs!BatchesAssumption
      /\ Batch!Init => BatchProofs!Init
      /\ Batch!vars = BatchProofs!vars
  BY <1>1, <1>2 DEF Batch!BatchesAssumption, BatchProofs!BatchesAssumption, Batch!Init,
    BatchProofs!Init, Batch!vars, BatchProofs!vars
<1>10. BatchProofs!CommittedIsComplete => Batch!CommittedIsComplete
  BY <1>1, <1>2, <1>5 DEF Batch!CommittedIsComplete, BatchProofs!CommittedIsComplete
<1> QED BY <1>8, <1>9, <1>10

\* In the repository of inference_repository.py a commit marker, in whatever state its name
\* is, means that the whole batch is there, and a replay rests on a committed source,
\* wherever the writers of overlapping batches die.
THEOREM CommitMarkersMeanWhole == RecordsSpec => []CommittedIsComplete
<1>1. BatchProofs!BatchesAssumption
  BY SameBatch, RecordsAssumption DEF RecordsAssumption
<1>2. RecordsInit => BatchProofs!Inv
  BY <1>1, SameBatch, BatchProofs!InvInit DEF RecordsInit
<1>3. BatchProofs!Inv /\ [RecordsNext]_allVars => BatchProofs!Inv'
  <2>1. UNCHANGED batchVars => UNCHANGED BatchProofs!vars
    BY DEF batchVars, BatchProofs!vars
  <2>2. [RecordsNext]_allVars => [BatchProofs!Next]_BatchProofs!vars
    BY <2>1, SameBatch DEF RecordsNext, allVars
  <2> QED BY <1>1, <2>2, BatchProofs!NextKeepsInv
<1>4. BatchProofs!Inv => CommittedIsComplete
  <2>1. BatchProofs!Inv => BatchProofs!CommittedIsComplete
    BY <1>1, BatchProofs!InvIsComplete
  <2> QED BY <2>1, SameBatch DEF CommittedIsComplete
<1> QED BY <1>2, <1>3, <1>4, PTL DEF RecordsSpec

-----------------------------------------------------------------------------
(* The adoption of a workspace.                                              *)

Files == {"vault", "index"}
Pinned == [bytes : FileContents, stamp : Nat]
Intent(op, c) == [op |-> op, inventory |-> c]

\* The places of an adoption, by what is behind it.
Guarded == {"handoff", "stage", "commit", "run"}
Linking ==
    {"bootstrap-intent", "workspace-inventory", "legacy-index-readiness",
     "generation-zero-authority"}
Recorded == {"pinWorkspace", "pinIndex", "reopen"} \cup Guarded \cup Linking
Created == {"inventory", "readiness"} \cup Recorded
Places == {"idle", "attest", "claim", "create"} \cup Created

\* The links of a run are recorded in one order.
Histories ==
    {<<>>, <<"bootstrap-intent">>, <<"bootstrap-intent", "workspace-inventory">>,
     <<"bootstrap-intent", "workspace-inventory", "legacy-index-readiness">>,
     Bootstrap!LinkKinds, Append(Bootstrap!LinkKinds, "incoming-source")}

Adoptions ==
    [at : Places, checks : {<<"vault", "index">>, <<"index">>, <<>>},
     op : Names \cup {None}, inventory : FileContents \cup {None},
     ownReceipt : Bootstrap!Receipts \cup {None},
     ownReadiness : Bootstrap!Readinesses \cup {None},
     pin : [Files -> Pinned \cup {None}]]

\* An operation id has one intent, every row rests on the ones before it, and what a
\* run does afterwards needs the authority row.
Rows ==
    /\ intents \subseteq [op : Names, inventory : FileContents]
    /\ \A i, j \in intents : i.op = j.op => i = j
    /\ aggregate \in Bootstrap!Aggregates \cup {None}
    /\ inventoried \in [Names -> Bootstrap!Receipts \cup {None}]
    /\ ready \in [Names -> Bootstrap!Readinesses \cup {None}]
    /\ authority \in Bootstrap!Authorities \cup {None}
    /\ aggregate # None => Intent(aggregate.op, aggregate.content) \in intents
    /\ \A op \in Names :
          /\ inventoried[op] # None => Intent(op, inventoried[op].inventory) \in intents
          /\ ready[op] # None => inventoried[op] # None /\ ready[op].binds = inventoried[op]
    /\ authority # None =>
          /\ aggregate # None /\ aggregate.op = authority.op
          /\ authority.receipt = inventoried[authority.op]
          /\ authority.readiness = ready[authority.op]
    /\ aggregate # None /\ aggregate.revision = 2 => authority # None
    /\ run # None => authority # None /\ run = authority.op
    /\ links \in Histories
    /\ links # <<>> => authority # None

Adopting ==
    /\ workspace \in [Files -> Pinned]
    /\ adoption \in [Handles -> Adoptions]
    /\ writer \in Handles \cup {None}
    /\ quiet \subseteq Handles
    /\ result \in [Handles -> {"none", "refused", "answered"}]
    /\ seen \in [Handles -> SUBSET [Files -> FileContents]]

\* What a call has recorded, read or found is there.
Founded(p) ==
    LET s == adoption[p]
    IN  /\ s.at # "idle" => s.op \in Names /\ s.inventory \in FileContents
        /\ s.at \in {"create"} \cup Created => Intent(s.op, s.inventory) \in intents
        /\ s.at \in Created => aggregate # None /\ aggregate.op = s.op
        /\ s.ownReceipt # None => s.op \in Names /\ s.ownReceipt = inventoried[s.op]
        /\ s.ownReadiness # None => s.op \in Names /\ s.ownReadiness = ready[s.op]
        /\ s.at \in {"readiness"} \cup Recorded => s.ownReceipt # None
        /\ s.at \in Recorded => ready[s.op] # None
        /\ s.at \in Guarded \cup Linking => s.ownReadiness # None
        /\ s.at \in {"run"} \cup Linking => authority # None
        /\ s.at = "workspace-inventory" => Len(links) >= 1
        /\ s.at = "legacy-index-readiness" => Len(links) >= 2
        /\ s.at = "generation-zero-authority" => Len(links) >= 3

HasPinned(s, f) ==
    \/ s.at \in {"reopen"} \cup Guarded
    \/ s.at = "pinIndex" /\ f = "vault"

\* A pin is of the file or of what was there before it.
PinOf(p, f) ==
    LET s == adoption[p]
    IN  HasPinned(s, f) =>
          /\ s.pin[f] \in Pinned
          /\ s.pin[f].stamp <= workspace[f].stamp
          /\ p \in quiet => s.pin[f] = workspace[f]

ToVerify(s) ==
    CASE s.checks = <<"vault", "index">> -> Files
      [] s.checks = <<"index">> -> {"index"}
      [] OTHER -> {}

\* The pins are of the evidence that was resolved; and if the files that are still to be
\* verified before the commit stay as they were pinned, the evidence was in force.
Attesting(p) ==
    LET s == adoption[p]
    IN  /\ \A f \in Files : PinOf(p, f)
        /\ s.at \in {"reopen"} \cup Guarded => s.pin["index"].bytes = s.pin["vault"].bytes
        /\ s.at \in Guarded => s.pin["vault"].bytes = s.inventory
        /\ s.checks # <<>> => s.at \in Guarded
        /\ s.at \in {"stage", "commit"} => writer = p
        /\ s.at = "commit" /\ (\A f \in ToVerify(s) : workspace[f] = s.pin[f]) =>
              [f \in Files |-> s.inventory] \in seen[p]

Stands(p) == Founded(p) /\ Attesting(p)

BootstrapInvariant == Rows /\ Adopting /\ \A p \in Handles : Stands(p)

LEMMA BootstrapNames ==
    /\ Bootstrap!Evidence = <<"vault", "index">>
    /\ Bootstrap!ToSet(Bootstrap!Evidence) = Files
    /\ Bootstrap!LinkKinds =
          <<"bootstrap-intent", "workspace-inventory", "legacy-index-readiness",
            "generation-zero-authority">>
<1>1. \A i : i \in DOMAIN <<"vault", "index">> <=> i = 1 \/ i = 2
  OBVIOUS
<1> QED BY <1>1 DEF Bootstrap!Evidence, Bootstrap!ToSet, Files, Bootstrap!LinkKinds

LEMMA IdleCall ==
    /\ Bootstrap!Idle \in Adoptions
    /\ Bootstrap!Idle.at = "idle" /\ Bootstrap!Idle.checks = <<>>
    /\ Bootstrap!Idle.op = None
    /\ Bootstrap!Idle.ownReceipt = None /\ Bootstrap!Idle.ownReadiness = None
    /\ Bootstrap!Idle.pin \in [Files -> Pinned \cup {None}]
BY BootstrapNames DEF Bootstrap!Idle, Adoptions, Places, Created, Recorded, Guarded, Linking

\* What the rows of the store may become while a call goes on.
Grown ==
    /\ intents \subseteq intents'
    /\ aggregate # None => aggregate' # None /\ aggregate'.op = aggregate.op
    /\ \A op \in Names :
          /\ inventoried[op] # None => inventoried'[op] = inventoried[op]
          /\ ready[op] # None => ready'[op] = ready[op]
    /\ authority # None => authority' # None
    /\ Len(links) <= Len(links')

\* What a step of another process leaves of a call.
LeftAlone(q) ==
    /\ adoption'[q] = adoption[q] /\ seen'[q] = seen[q]
    /\ writer = q => writer' = q
    /\ q \in quiet' => q \in quiet

LEMMA LinksHaveLength ==
    ASSUME links \in Histories
    PROVE  Len(links) \in Nat
BY DEF Histories, Bootstrap!LinkKinds

LEMMA CallStands ==
    ASSUME Rows, Rows', Grown, UNCHANGED workspace, NEW q \in Handles, LeftAlone(q), Stands(q)
    PROVE  Stands(q)'
<1>1. Len(links) \in Nat /\ Len(links') \in Nat
  BY LinksHaveLength DEF Rows, Histories, Bootstrap!LinkKinds
<1>2. Founded(q)'
  BY <1>1 DEF Stands, Founded, Grown, LeftAlone, Created, Recorded, Guarded, Linking
<1>3. Attesting(q)'
  BY DEF Stands, Attesting, PinOf, HasPinned, ToVerify, LeftAlone, Guarded
<1> QED BY <1>2, <1>3 DEF Stands

LEMMA SameRows ==
    ASSUME Rows, UNCHANGED Bootstrap!storeVars
    PROVE  Rows' /\ Grown
<1>1. Rows'
  BY DEF Rows, Bootstrap!storeVars
<1>2. Len(links) \in Nat
  BY LinksHaveLength DEF Rows
<1> QED BY <1>1, <1>2 DEF Grown, Bootstrap!storeVars

\* The call of one process moves, or ends, and everybody else's stands.
LEMMA OneMoves ==
    ASSUME BootstrapInvariant, UNCHANGED workspace, Rows', Grown, Adopting',
           NEW p \in Handles, \A q \in Handles \ {p} : LeftAlone(q), Stands(p)'
    PROVE  BootstrapInvariant'
BY CallStands DEF BootstrapInvariant

LEMMA CallEnds ==
    ASSUME BootstrapInvariant, UNCHANGED workspace, Rows', Grown,
           NEW p \in Handles, NEW what \in {"none", "refused", "answered"},
           Bootstrap!End(p, what)
    PROVE  BootstrapInvariant'
<1>1. /\ adoption' \in [Handles -> Adoptions]
      /\ adoption'[p] = Bootstrap!Idle
      /\ \A q \in Handles \ {p} : adoption'[q] = adoption[q]
  BY IdleCall DEF BootstrapInvariant, Adopting, Bootstrap!End
<1>2. Adopting'
  BY <1>1 DEF BootstrapInvariant, Adopting, Bootstrap!End
<1>3. \A q \in Handles \ {p} : LeftAlone(q)
  BY <1>1 DEF BootstrapInvariant, Adopting, Bootstrap!End, LeftAlone
<1>4. Stands(p)'
  <2>1. Founded(p)'
    BY <1>1, IdleCall DEF Founded, Created, Recorded, Guarded, Linking
  <2>2. Attesting(p)'
    BY <1>1, IdleCall DEF Attesting, PinOf, HasPinned, Guarded
  <2> QED BY <2>1, <2>2 DEF Stands
<1> QED BY <1>2, <1>3, <1>4, OneMoves

LEMMA CallRefused ==
    ASSUME BootstrapInvariant, UNCHANGED workspace, NEW p \in Handles, Bootstrap!Refuse(p)
    PROVE  BootstrapInvariant'
BY SameRows, CallEnds DEF BootstrapInvariant, Bootstrap!Refuse

\* What is left alone by a step that goes on.
LEMMA CallGoesOn ==
    ASSUME BootstrapInvariant, UNCHANGED <<workspace, result, writer, quiet, seen>>,
           Rows', Grown, NEW p \in Handles, NEW s \in Adoptions,
           adoption' = [adoption EXCEPT ![p] = s], Stands(p)'
    PROVE  BootstrapInvariant'
<1>1. Adopting'
  BY DEF BootstrapInvariant, Adopting
<1>2. \A q \in Handles \ {p} : LeftAlone(q)
  BY DEF BootstrapInvariant, Adopting, LeftAlone
<1> QED BY <1>1, <1>2, OneMoves

LEMMA ResolveStep ==
    ASSUME Bootstrap!BootstrapAssumption, BootstrapInvariant,
           NEW p \in Handles, NEW op \in Names, Bootstrap!Resolve(p, op)
    PROVE  BootstrapInvariant'
<1>1. PICK s : s = [Bootstrap!Idle EXCEPT !.at = "attest", !.op = op,
                                           !.inventory = workspace["vault"].bytes]
  OBVIOUS
<1>2. /\ adoption' = [adoption EXCEPT ![p] = s]
      /\ UNCHANGED <<workspace, writer, seen>>
      /\ quiet' = quiet \cup {p} /\ result' = [result EXCEPT ![p] = "none"]
      /\ UNCHANGED Bootstrap!storeVars
  BY <1>1 DEF Bootstrap!Resolve
<1>3. /\ s \in Adoptions /\ s.at = "attest" /\ s.op = op /\ s.inventory \in FileContents
      /\ s.ownReceipt = None /\ s.ownReadiness = None /\ s.checks = <<>>
  BY <1>1, IdleCall DEF Adoptions, Places, BootstrapInvariant, Adopting, Files, Pinned
<1>4. Rows' /\ Grown
  BY <1>2, SameRows DEF BootstrapInvariant
<1>5. Adopting'
  BY <1>2, <1>3 DEF BootstrapInvariant, Adopting
<1>6. \A q \in Handles \ {p} : LeftAlone(q)
  BY <1>2 DEF BootstrapInvariant, Adopting, LeftAlone
<1>7. adoption'[p] = s
  BY <1>2 DEF BootstrapInvariant, Adopting
<1>8. Stands(p)'
  BY <1>3, <1>7 DEF Stands, Founded, Attesting, PinOf, HasPinned, Created, Recorded,
    Guarded, Linking
<1> QED BY <1>2, <1>4, <1>5, <1>6, <1>8, OneMoves

\* A step to another place which changes nothing else.
LEMMA Going ==
    ASSUME BootstrapInvariant, NEW p \in Handles, NEW place \in Places,
           Bootstrap!Goto(p, place)
    PROVE  \E s \in Adoptions :
              /\ s = [adoption[p] EXCEPT !.at = place]
              /\ adoption' = [adoption EXCEPT ![p] = s]
              /\ adoption'[p] = s
BY DEF BootstrapInvariant, Adopting, Adoptions, Bootstrap!Goto

LEMMA AttestStep ==
    ASSUME Bootstrap!BootstrapAssumption, BootstrapInvariant,
           NEW p \in Handles, Bootstrap!Attest(p)
    PROVE  BootstrapInvariant'
<1>1. CASE Bootstrap!Refuse(p)
  BY <1>1, CallRefused DEF Bootstrap!Attest
<1>2. CASE ~Bootstrap!Refuse(p)
  <2>1. /\ adoption[p].at = "attest" /\ adoption[p].checks = <<>>
        /\ Bootstrap!Goto(p, "claim") /\ Bootstrap!Proceed
        /\ UNCHANGED workspace /\ UNCHANGED Bootstrap!storeVars
    BY <1>2 DEF Bootstrap!Attest, Bootstrap!Ready
  <2>2. PICK s \in Adoptions :
          /\ s = [adoption[p] EXCEPT !.at = "claim"]
          /\ adoption' = [adoption EXCEPT ![p] = s]
          /\ adoption'[p] = s
    BY <2>1, Going DEF Places
  <2>3. Rows' /\ Grown
    BY <2>1, SameRows DEF BootstrapInvariant
  <2>4. adoption[p] \in Adoptions /\ Stands(p)
    BY DEF BootstrapInvariant, Adopting
  <2>5. Stands(p)'
    BY <2>1, <2>2, <2>4 DEF Stands, Founded, Attesting, PinOf, HasPinned, Created, Recorded,
      Guarded, Linking, Adoptions, Bootstrap!storeVars
  <2> QED BY <2>1, <2>2, <2>3, <2>5, CallGoesOn DEF Bootstrap!Proceed, Bootstrap!historyVars
<1> QED BY <1>1, <1>2

LEMMA PinWorkspaceStep ==
    ASSUME Bootstrap!BootstrapAssumption, BootstrapInvariant,
           NEW p \in Handles, Bootstrap!PinWorkspace(p)
    PROVE  BootstrapInvariant'
<1>1. PICK s : s = [adoption[p] EXCEPT !.pin["vault"] = workspace["vault"], !.at = "pinIndex"]
  OBVIOUS
<1>2. /\ adoption[p].at = "pinWorkspace" /\ adoption[p].checks = <<>>
      /\ adoption' = [adoption EXCEPT ![p] = s]
      /\ UNCHANGED <<workspace, result, writer, quiet, seen>>
      /\ UNCHANGED Bootstrap!storeVars
  BY <1>1 DEF Bootstrap!PinWorkspace, Bootstrap!Ready, Bootstrap!Proceed, Bootstrap!historyVars
<1>3. adoption[p] \in Adoptions /\ Stands(p) /\ workspace \in [Files -> Pinned]
  BY DEF BootstrapInvariant, Adopting
<1>4. PICK pin : pin = [adoption[p].pin EXCEPT !["vault"] = workspace["vault"]]
  OBVIOUS
<1>5. s = [adoption[p] EXCEPT !.pin = pin, !.at = "pinIndex"]
  BY <1>1, <1>3, <1>4 DEF Adoptions
<1>6. pin \in [Files -> Pinned \cup {None}] /\ pin["vault"] = workspace["vault"]
  BY <1>3, <1>4 DEF Adoptions, Files
<1>7. s \in Adoptions
  BY <1>3, <1>5, <1>6 DEF Adoptions, Places, Created, Recorded
<1>8. adoption'[p] = s
  BY <1>2 DEF BootstrapInvariant, Adopting
<1>9. Rows' /\ Grown
  BY <1>2, SameRows DEF BootstrapInvariant
<1>10. Founded(p)'
  BY <1>2, <1>3, <1>5, <1>8 DEF Stands, Founded, Created, Recorded,
    Guarded, Linking, Adoptions, Bootstrap!storeVars
<1>11. Attesting(p)'
  BY <1>2, <1>3, <1>5, <1>6, <1>8 DEF Stands, Attesting, PinOf, HasPinned,
    Guarded, Linking, Adoptions, Files, Pinned
<1>12. Stands(p)'
  BY <1>10, <1>11 DEF Stands
<1> QED BY <1>2, <1>7, <1>9, <1>12, CallGoesOn

LEMMA PinIndexStep ==
    ASSUME Bootstrap!BootstrapAssumption, BootstrapInvariant,
           NEW p \in Handles, Bootstrap!PinIndex(p)
    PROVE  BootstrapInvariant'
<1> SUFFICES ASSUME ~Bootstrap!Refuse(p) PROVE BootstrapInvariant'
  BY CallRefused DEF Bootstrap!PinIndex
<1>1. PICK s : s = [adoption[p] EXCEPT !.pin["index"] = workspace["index"], !.at = "reopen"]
  OBVIOUS
<1>2. /\ adoption[p].at = "pinIndex" /\ adoption[p].checks = <<>>
      /\ workspace["index"].bytes = adoption[p].pin["vault"].bytes
      /\ adoption' = [adoption EXCEPT ![p] = s]
      /\ UNCHANGED <<workspace, result, writer, quiet, seen>>
      /\ UNCHANGED Bootstrap!storeVars
  BY <1>1 DEF Bootstrap!PinIndex, Bootstrap!Ready, Bootstrap!Attested, Bootstrap!Proceed,
    Bootstrap!historyVars
<1>3. adoption[p] \in Adoptions /\ Stands(p) /\ workspace \in [Files -> Pinned]
  BY DEF BootstrapInvariant, Adopting
<1>4. PICK pin : pin = [adoption[p].pin EXCEPT !["index"] = workspace["index"]]
  OBVIOUS
<1>5. s = [adoption[p] EXCEPT !.pin = pin, !.at = "reopen"]
  BY <1>1, <1>3, <1>4 DEF Adoptions
<1>6. /\ pin \in [Files -> Pinned \cup {None}] /\ pin["index"] = workspace["index"]
      /\ pin["vault"] = adoption[p].pin["vault"]
  BY <1>3, <1>4 DEF Adoptions, Files
<1>7. s \in Adoptions
  BY <1>3, <1>5, <1>6 DEF Adoptions, Places, Created, Recorded
<1>8. adoption'[p] = s
  BY <1>2 DEF BootstrapInvariant, Adopting
<1>9. Rows' /\ Grown
  BY <1>2, SameRows DEF BootstrapInvariant
<1>10. Founded(p)'
  BY <1>2, <1>3, <1>5, <1>8 DEF Stands, Founded, Created, Recorded,
    Guarded, Linking, Adoptions, Bootstrap!storeVars
<1>11. Attesting(p)'
  BY <1>2, <1>3, <1>5, <1>6, <1>8 DEF Stands, Attesting, PinOf, HasPinned,
    Guarded, Linking, Adoptions, Files, Pinned
<1>12. Stands(p)'
  BY <1>10, <1>11 DEF Stands
<1> QED BY <1>2, <1>7, <1>9, <1>12, CallGoesOn

LEMMA VerifyStep ==
    ASSUME Bootstrap!BootstrapAssumption, BootstrapInvariant,
           NEW p \in Handles, Bootstrap!Verify(p)
    PROVE  BootstrapInvariant'
<1> SUFFICES ASSUME ~Bootstrap!Refuse(p) PROVE BootstrapInvariant'
  BY CallRefused DEF Bootstrap!Verify
<1>1. PICK s : s = [adoption[p] EXCEPT !.checks = Tail(adoption[p].checks)]
  OBVIOUS
<1>2. adoption[p] \in Adoptions /\ Stands(p) /\ workspace \in [Files -> Pinned]
  BY DEF BootstrapInvariant, Adopting
<1>3. /\ adoption[p].checks # <<>>
      /\ workspace[Head(adoption[p].checks)] = adoption[p].pin[Head(adoption[p].checks)]
      /\ adoption' = [adoption EXCEPT ![p] = s]
      /\ UNCHANGED <<workspace, result, writer, quiet, seen>>
      /\ UNCHANGED Bootstrap!storeVars
  BY <1>1 DEF Bootstrap!Verify, Bootstrap!Unchanged, Bootstrap!Proceed, Bootstrap!historyVars
<1>4. \/ /\ adoption[p].checks = <<"vault", "index">>
         /\ Head(adoption[p].checks) = "vault" /\ Tail(adoption[p].checks) = <<"index">>
      \/ /\ adoption[p].checks = <<"index">>
         /\ Head(adoption[p].checks) = "index" /\ Tail(adoption[p].checks) = <<>>
  <2>1. adoption[p].checks = <<"vault", "index">> \/ adoption[p].checks = <<"index">>
    BY <1>2, <1>3 DEF Adoptions
  <2>2. /\ Head(<<"vault", "index">>) = "vault" /\ Tail(<<"vault", "index">>) = <<"index">>
        /\ Head(<<"index">>) = "index" /\ Tail(<<"index">>) = <<>>
    OBVIOUS
  <2> QED BY <2>1, <2>2
<1>5. s \in Adoptions
  BY <1>1, <1>2, <1>4 DEF Adoptions
<1>6. adoption'[p] = s
  BY <1>3 DEF BootstrapInvariant, Adopting
<1>7. Rows' /\ Grown
  BY <1>3, SameRows DEF BootstrapInvariant
<1>8. /\ s.at = adoption[p].at /\ s.op = adoption[p].op /\ s.pin = adoption[p].pin
      /\ s.inventory = adoption[p].inventory /\ s.ownReceipt = adoption[p].ownReceipt
      /\ s.ownReadiness = adoption[p].ownReadiness
      /\ s.checks = Tail(adoption[p].checks)
  BY <1>1, <1>2 DEF Adoptions
<1>9. Founded(p)'
  BY <1>2, <1>3, <1>6, <1>8 DEF Stands, Founded, Created, Recorded,
    Guarded, Linking, Bootstrap!storeVars
<1>10. Attesting(p)'
  <2>1. ASSUME \A f \in ToVerify(s) : workspace[f] = s.pin[f]
        PROVE  \A f \in ToVerify(adoption[p]) : workspace[f] = adoption[p].pin[f]
    BY <1>3, <1>4, <1>8, <2>1 DEF ToVerify, Files
  <2> QED BY <1>2, <1>3, <1>6, <1>8, <2>1 DEF Stands, Attesting, PinOf, HasPinned, Guarded
<1> QED BY <1>3, <1>5, <1>7, <1>9, <1>10, CallGoesOn DEF Stands

LEMMA NothingPinned ==
    ASSUME NEW p \in Handles, adoption'[p].checks = <<>>,
           adoption'[p].at \in {"claim", "create", "inventory", "readiness", "pinWorkspace"}
                                  \cup Linking
    PROVE  Attesting(p)'
BY DEF Attesting, PinOf, HasPinned, Guarded, Linking

LEMMA ClaimStep ==
    ASSUME Bootstrap!BootstrapAssumption, BootstrapInvariant,
           NEW p \in Handles, Bootstrap!Claim(p)
    PROVE  BootstrapInvariant'
<1> SUFFICES ASSUME ~Bootstrap!Refuse(p) PROVE BootstrapInvariant'
  BY CallRefused DEF Bootstrap!Claim
<1> DEFINE op == adoption[p].op
           intent == [op |-> op, inventory |-> adoption[p].inventory]
<1>1. PICK s : s = [adoption[p] EXCEPT !.at = "create", !.ownReceipt = inventoried[op],
                                       !.ownReadiness = ready[op]]
  OBVIOUS
<1>2. /\ adoption[p] \in Adoptions /\ Stands(p) /\ Rows
      /\ adoption[p].at = "claim" /\ adoption[p].checks = <<>>
  BY DEF BootstrapInvariant, Adopting, Bootstrap!Claim, Bootstrap!Transaction, Bootstrap!Ready
<1>3. /\ adoption' = [adoption EXCEPT ![p] = s]
      /\ UNCHANGED <<workspace, result, writer, quiet, seen>>
      /\ UNCHANGED <<aggregate, inventoried, ready, authority, run, links>>
      /\ \/ intent \in intents /\ intents' = intents
         \/ /\ \A i \in intents : i.op # op
            /\ intents' = intents \cup {intent}
  BY <1>1 DEF Bootstrap!Claim, Bootstrap!Proceed, Bootstrap!historyVars, Bootstrap!storeVars
<1>4. op \in Names /\ adoption[p].inventory \in FileContents
  BY <1>2 DEF Stands, Founded
<1>5. s \in Adoptions
  BY <1>1, <1>2, <1>4 DEF Adoptions, Places, Created, Rows
<1>6. adoption'[p] = s
  BY <1>3 DEF BootstrapInvariant, Adopting
<1>7. /\ s.at = "create" /\ s.checks = <<>> /\ s.op = op
      /\ s.inventory = adoption[p].inventory /\ s.ownReceipt = inventoried[op]
      /\ s.ownReadiness = ready[op]
  BY <1>1, <1>2 DEF Adoptions
<1>8. Rows'
  BY <1>2, <1>3, <1>4 DEF Rows, Intent
<1>9. Grown
  BY <1>2, <1>3, LinksHaveLength DEF Rows, Grown
<1>10. Founded(p)'
  BY <1>3, <1>4, <1>6, <1>7 DEF Founded, Created, Recorded, Guarded, Linking, Intent
<1>11. Attesting(p)'
  BY <1>6, <1>7, NothingPinned
<1> QED BY <1>3, <1>5, <1>8, <1>9, <1>10, <1>11, CallGoesOn DEF Stands

LEMMA CreateStep ==
    ASSUME Bootstrap!BootstrapAssumption, BootstrapInvariant,
           NEW p \in Handles, Bootstrap!Create(p)
    PROVE  BootstrapInvariant'
<1> SUFFICES ASSUME ~Bootstrap!Refuse(p) PROVE BootstrapInvariant'
  BY CallRefused DEF Bootstrap!Create
<1> DEFINE op == adoption[p].op
           new == [op |-> op, content |-> adoption[p].inventory, revision |-> 1]
<1>1. /\ adoption[p] \in Adoptions /\ Stands(p) /\ Rows
      /\ adoption[p].at = "create" /\ adoption[p].checks = <<>>
  BY DEF BootstrapInvariant, Adopting, Bootstrap!Create, Bootstrap!Transaction, Bootstrap!Ready
<1>2. /\ Bootstrap!Goto(p, "inventory")
      /\ UNCHANGED <<workspace, result, writer, quiet, seen>>
      /\ UNCHANGED <<intents, inventoried, ready, authority, run, links>>
      /\ \/ aggregate = None /\ aggregate' = new
         \/ aggregate # None /\ aggregate.op = op /\ aggregate' = aggregate
  BY DEF Bootstrap!Create, Bootstrap!Proceed, Bootstrap!historyVars, Bootstrap!storeVars
<1>3. PICK s \in Adoptions :
        /\ s = [adoption[p] EXCEPT !.at = "inventory"]
        /\ adoption' = [adoption EXCEPT ![p] = s]
        /\ adoption'[p] = s
  BY <1>2, Going DEF Places, Created
<1>4. /\ s.at = "inventory" /\ s.checks = <<>> /\ s.op = op
      /\ s.inventory = adoption[p].inventory /\ s.ownReceipt = adoption[p].ownReceipt
      /\ s.ownReadiness = adoption[p].ownReadiness
  BY <1>1, <1>3 DEF Adoptions
<1>5. /\ op \in Names /\ adoption[p].inventory \in FileContents
      /\ Intent(op, adoption[p].inventory) \in intents
  BY <1>1 DEF Stands, Founded
<1>6. new \in Bootstrap!Aggregates /\ new # None
  BY <1>5 DEF Bootstrap!Aggregates, Bootstrap!BootstrapAssumption
<1>7. Rows'
  BY <1>1, <1>2, <1>5, <1>6 DEF Rows, Intent
<1>8. Grown
  BY <1>1, <1>2, LinksHaveLength DEF Rows, Grown
<1>9. Founded(p)'
  BY <1>1, <1>2, <1>3, <1>4, <1>5, <1>6 DEF Stands, Founded, Created, Recorded, Guarded,
    Linking, Intent
<1>10. Attesting(p)'
  BY <1>3, <1>4, NothingPinned
<1> QED BY <1>2, <1>3, <1>7, <1>8, <1>9, <1>10, CallGoesOn DEF Stands

LEMMA RecordInventoryStep ==
    ASSUME Bootstrap!BootstrapAssumption, BootstrapInvariant,
           NEW p \in Handles, NEW time \in Times, Bootstrap!RecordInventory(p, time)
    PROVE  BootstrapInvariant'
<1> SUFFICES ASSUME ~Bootstrap!Refuse(p) PROVE BootstrapInvariant'
  BY CallRefused DEF Bootstrap!RecordInventory
<1> DEFINE op == adoption[p].op
<1>1. PICK receipt : receipt = IF adoption[p].ownReceipt # None THEN adoption[p].ownReceipt
            ELSE [inventory |-> adoption[p].inventory, revision |-> 1, time |-> time]
  OBVIOUS
<1>2. /\ adoption[p] \in Adoptions /\ Stands(p) /\ Rows
      /\ adoption[p].at = "inventory" /\ adoption[p].checks = <<>>
  BY DEF BootstrapInvariant, Adopting, Bootstrap!RecordInventory, Bootstrap!Transaction,
    Bootstrap!Ready
<1>3. /\ op \in Names /\ adoption[p].inventory \in FileContents
      /\ Intent(op, adoption[p].inventory) \in intents
      /\ aggregate # None /\ aggregate.op = op
      /\ adoption[p].ownReceipt # None => adoption[p].ownReceipt = inventoried[op]
      /\ adoption[p].ownReadiness # None => adoption[p].ownReadiness = ready[op]
  BY <1>2 DEF Stands, Founded, Created
<1>4. receipt \in Bootstrap!Receipts /\ receipt # None
  BY <1>1, <1>2, <1>3 DEF Adoptions, Bootstrap!Receipts, Bootstrap!BootstrapAssumption
<1>5. CASE /\ inventoried[op] = None
           /\ inventoried' = [inventoried EXCEPT ![op] = receipt]
           /\ adoption' = [adoption EXCEPT ![p].ownReceipt = receipt, ![p].at = "readiness"]
           /\ Bootstrap!Proceed /\ UNCHANGED workspace
           /\ UNCHANGED <<intents, aggregate, ready, authority, run, links>>
  <2>1. PICK s : s = [adoption[p] EXCEPT !.ownReceipt = receipt, !.at = "readiness"]
    OBVIOUS
  <2>2. /\ adoption' = [adoption EXCEPT ![p] = s] /\ adoption'[p] = s
        /\ UNCHANGED <<workspace, result, writer, quiet, seen>>
    BY <1>5, <2>1 DEF Bootstrap!Proceed, Bootstrap!historyVars, BootstrapInvariant, Adopting
  <2>3. /\ s.at = "readiness" /\ s.checks = <<>> /\ s.op = op /\ s.ownReceipt = receipt
        /\ s.inventory = adoption[p].inventory /\ s.ownReadiness = adoption[p].ownReadiness
        /\ s \in Adoptions
    BY <1>2, <1>4, <2>1 DEF Adoptions, Places, Created
  <2>4. receipt.inventory = adoption[p].inventory
    BY <1>1, <1>3, <1>5
  <2>5. /\ inventoried' \in [Names -> Bootstrap!Receipts \cup {None}]
        /\ inventoried'[op] = receipt
        /\ \A o \in Names \ {op} : inventoried'[o] = inventoried[o]
    BY <1>2, <1>3, <1>4, <1>5 DEF Rows
  <2>6. ready[op] = None /\ (authority # None => authority.op # op)
    BY <1>2, <1>3, <1>5 DEF Rows, Bootstrap!Authorities, Bootstrap!BootstrapAssumption
  <2>7. Rows'
    BY <1>2, <1>3, <1>4, <1>5, <2>4, <2>5, <2>6 DEF Rows, Intent, Bootstrap!Authorities
  <2>8. Grown
    BY <1>2, <1>5, <2>5, LinksHaveLength DEF Rows, Grown
  <2>9. Founded(p)'
    BY <1>3, <1>4, <1>5, <2>2, <2>3, <2>5 DEF Founded, Created, Recorded, Guarded, Linking
  <2>10. Attesting(p)'
    BY <2>2, <2>3, NothingPinned
  <2> QED BY <2>2, <2>3, <2>7, <2>8, <2>9, <2>10, CallGoesOn DEF Stands
<1>6. CASE /\ inventoried[op] # None
           /\ adoption' = [adoption EXCEPT ![p].ownReceipt = inventoried[op],
                              ![p].ownReadiness = ready[op], ![p].at = "readiness"]
           /\ Bootstrap!Proceed /\ UNCHANGED workspace /\ UNCHANGED Bootstrap!storeVars
  <2>1. PICK s : s = [adoption[p] EXCEPT !.ownReceipt = inventoried[op],
                                         !.ownReadiness = ready[op], !.at = "readiness"]
    OBVIOUS
  <2>2. /\ adoption' = [adoption EXCEPT ![p] = s] /\ adoption'[p] = s
        /\ UNCHANGED <<workspace, result, writer, quiet, seen>>
    BY <1>6, <2>1 DEF Bootstrap!Proceed, Bootstrap!historyVars, BootstrapInvariant, Adopting
  <2>3. /\ s.at = "readiness" /\ s.checks = <<>> /\ s.op = op
        /\ s.ownReceipt = inventoried[op]
        /\ s.inventory = adoption[p].inventory /\ s.ownReadiness = ready[op]
        /\ s \in Adoptions
    BY <1>2, <1>3, <2>1 DEF Adoptions, Places, Created, Rows
  <2>4. Rows' /\ Grown
    BY <1>2, <1>6, SameRows
  <2>5. Founded(p)'
    BY <1>3, <1>6, <2>2, <2>3 DEF Founded, Created, Recorded, Guarded, Linking,
      Bootstrap!storeVars
  <2>6. Attesting(p)'
    BY <2>2, <2>3, NothingPinned
  <2> QED BY <2>2, <2>3, <2>4, <2>5, <2>6, CallGoesOn DEF Stands
<1> QED BY <1>1, <1>5, <1>6 DEF Bootstrap!RecordInventory

LEMMA RecordReadinessStep ==
    ASSUME Bootstrap!BootstrapAssumption, BootstrapInvariant,
           NEW p \in Handles, NEW time \in Times, Bootstrap!RecordReadiness(p, time)
    PROVE  BootstrapInvariant'
<1> SUFFICES ASSUME ~Bootstrap!Refuse(p) PROVE BootstrapInvariant'
  BY CallRefused DEF Bootstrap!RecordReadiness
<1> DEFINE op == adoption[p].op
<1>1. PICK receipt : receipt = IF adoption[p].ownReadiness # None
            THEN adoption[p].ownReadiness ELSE [binds |-> adoption[p].ownReceipt, time |-> time]
  OBVIOUS
<1>2. /\ adoption[p] \in Adoptions /\ Stands(p) /\ Rows
      /\ adoption[p].at = "readiness" /\ adoption[p].checks = <<>>
  BY DEF BootstrapInvariant, Adopting, Bootstrap!RecordReadiness, Bootstrap!Transaction,
    Bootstrap!Ready
<1>3. /\ op \in Names /\ adoption[p].inventory \in FileContents
      /\ Intent(op, adoption[p].inventory) \in intents
      /\ aggregate # None /\ aggregate.op = op
      /\ adoption[p].ownReceipt # None /\ adoption[p].ownReceipt = inventoried[op]
      /\ adoption[p].ownReadiness # None => adoption[p].ownReadiness = ready[op]
  BY <1>2 DEF Stands, Founded, Created
<1>4. receipt \in Bootstrap!Readinesses /\ receipt # None
  BY <1>1, <1>2, <1>3 DEF Adoptions, Bootstrap!Readinesses, Bootstrap!BootstrapAssumption
<1>5. /\ Bootstrap!Goto(p, "pinWorkspace")
      /\ UNCHANGED <<workspace, result, writer, quiet, seen>>
      /\ UNCHANGED <<intents, aggregate, inventoried, authority, run, links>>
      /\ \/ /\ ready[op] = None /\ receipt.binds = inventoried[op]
            /\ ready' = [ready EXCEPT ![op] = receipt]
         \/ ready[op] # None /\ ready' = ready
  BY <1>1 DEF Bootstrap!RecordReadiness, Bootstrap!Proceed, Bootstrap!historyVars,
    Bootstrap!storeVars
<1>6. PICK s \in Adoptions :
        /\ s = [adoption[p] EXCEPT !.at = "pinWorkspace"]
        /\ adoption' = [adoption EXCEPT ![p] = s]
        /\ adoption'[p] = s
  BY <1>5, Going DEF Places, Created, Recorded
<1>7. /\ s.at = "pinWorkspace" /\ s.checks = <<>> /\ s.op = op
      /\ s.inventory = adoption[p].inventory /\ s.ownReceipt = adoption[p].ownReceipt
      /\ s.ownReadiness = adoption[p].ownReadiness
  BY <1>2, <1>6 DEF Adoptions
<1>8. /\ ready' \in [Names -> Bootstrap!Readinesses \cup {None}] /\ ready'[op] # None
      /\ ready[op] = None => ready'[op].binds = inventoried[op]
      /\ ready[op] # None => ready'[op] = ready[op]
      /\ \A o \in Names \ {op} : ready'[o] = ready[o]
  BY <1>2, <1>3, <1>4, <1>5 DEF Rows
<1>9. authority # None => ready[authority.op] # None
  BY <1>2 DEF Rows, Bootstrap!Authorities, Bootstrap!BootstrapAssumption
<1>10. Rows'
  BY <1>2, <1>3, <1>5, <1>8, <1>9 DEF Rows, Intent, Bootstrap!Authorities
<1>11. Grown
  BY <1>2, <1>3, <1>5, <1>8, LinksHaveLength DEF Rows, Grown
<1>12. Founded(p)'
  <2>1. s.ownReadiness # None => s.ownReadiness = ready'[op]
    BY <1>3, <1>4, <1>7, <1>8
  <2>2. /\ UNCHANGED <<intents, aggregate, inventoried>> /\ adoption'[p] = s
        /\ s.at = "pinWorkspace" /\ s.op = op /\ s.inventory = adoption[p].inventory
        /\ s.ownReceipt = adoption[p].ownReceipt
    BY <1>5, <1>6, <1>7
  <2> QED BY <1>3, <1>8, <2>1, <2>2 DEF Founded, Created, Recorded, Guarded, Linking
<1>13. Attesting(p)'
  BY <1>6, <1>7, NothingPinned
<1> QED BY <1>5, <1>6, <1>10, <1>11, <1>12, <1>13, CallGoesOn DEF Stands

LEMMA ReopenStep ==
    ASSUME Bootstrap!BootstrapAssumption, BootstrapInvariant,
           NEW p \in Handles, Bootstrap!Reopen(p)
    PROVE  BootstrapInvariant'
<1> SUFFICES ASSUME ~Bootstrap!Refuse(p) PROVE BootstrapInvariant'
  BY CallRefused DEF Bootstrap!Reopen
<1> DEFINE op == adoption[p].op
<1>1. PICK s : s = [adoption[p] EXCEPT !.at = "handoff", !.checks = <<"vault", "index">>,
                        !.ownReceipt = inventoried[op], !.ownReadiness = ready[op]]
  OBVIOUS
<1>2. /\ adoption[p] \in Adoptions /\ Stands(p) /\ Rows
      /\ adoption[p].at = "reopen" /\ adoption[p].checks = <<>>
  BY DEF BootstrapInvariant, Adopting, Bootstrap!Reopen, Bootstrap!Transaction, Bootstrap!Ready
<1>3. /\ adoption' = [adoption EXCEPT ![p] = s]
      /\ UNCHANGED <<workspace, result, writer, quiet, seen>>
      /\ UNCHANGED Bootstrap!storeVars
      /\ inventoried[op] # None /\ ready[op] # None
      /\ adoption[p].pin["vault"].bytes = adoption[p].inventory
  BY <1>1, BootstrapNames DEF Bootstrap!Reopen, Bootstrap!Proceed, Bootstrap!historyVars
<1>4. /\ op \in Names /\ adoption[p].inventory \in FileContents
      /\ Intent(op, adoption[p].inventory) \in intents
      /\ aggregate # None /\ aggregate.op = op
  BY <1>2 DEF Stands, Founded, Created, Recorded
<1>5. /\ s \in Adoptions /\ s.at = "handoff" /\ s.checks = <<"vault", "index">> /\ s.op = op
      /\ s.inventory = adoption[p].inventory /\ s.ownReceipt = inventoried[op]
      /\ s.ownReadiness = ready[op] /\ s.pin = adoption[p].pin
  BY <1>1, <1>2, <1>4 DEF Adoptions, Places, Created, Recorded, Guarded, Rows
<1>6. adoption'[p] = s
  BY <1>3 DEF BootstrapInvariant, Adopting
<1>7. Rows' /\ Grown
  BY <1>2, <1>3, SameRows
<1>8. Founded(p)'
  BY <1>3, <1>4, <1>5, <1>6 DEF Founded, Created, Recorded, Guarded, Linking,
    Bootstrap!storeVars
<1>9. Attesting(p)'
  BY <1>2, <1>3, <1>5, <1>6 DEF Stands, Attesting, PinOf, HasPinned, Guarded
<1> QED BY <1>3, <1>5, <1>7, <1>8, <1>9, CallGoesOn DEF Stands

\* To the next place of the handoff, with the files to be verified first.
LEMMA GuardedGoing ==
    ASSUME BootstrapInvariant, NEW p \in Handles, NEW place \in Guarded,
           Bootstrap!GuardedGoto(p, place)
    PROVE  \E s \in Adoptions :
              /\ s = [adoption[p] EXCEPT !.at = place, !.checks = <<"vault", "index">>]
              /\ adoption' = [adoption EXCEPT ![p] = s]
              /\ adoption' \in [Handles -> Adoptions]
              /\ adoption'[p] = s
              /\ s.at = place /\ s.checks = <<"vault", "index">>
              /\ s.op = adoption[p].op /\ s.inventory = adoption[p].inventory
              /\ s.ownReceipt = adoption[p].ownReceipt
              /\ s.ownReadiness = adoption[p].ownReadiness /\ s.pin = adoption[p].pin
<1>1. PICK s : s = [adoption[p] EXCEPT !.at = place, !.checks = <<"vault", "index">>]
  OBVIOUS
<1>2. adoption[p] \in Adoptions /\ adoption' = [adoption EXCEPT ![p] = s]
  BY <1>1, BootstrapNames DEF BootstrapInvariant, Adopting, Bootstrap!GuardedGoto
<1>3. /\ s \in Adoptions
      /\ s.at = place /\ s.checks = <<"vault", "index">>
      /\ s.op = adoption[p].op /\ s.inventory = adoption[p].inventory
      /\ s.ownReceipt = adoption[p].ownReceipt
      /\ s.ownReadiness = adoption[p].ownReadiness /\ s.pin = adoption[p].pin
  BY <1>1, <1>2 DEF Adoptions, Places, Created, Recorded
<1>4. adoption' \in [Handles -> Adoptions] /\ adoption'[p] = s
  BY <1>2, <1>3 DEF BootstrapInvariant, Adopting
<1> QED BY <1>1, <1>2, <1>3, <1>4

LEMMA BeginHandoffStep ==
    ASSUME Bootstrap!BootstrapAssumption, BootstrapInvariant,
           NEW p \in Handles, Bootstrap!BeginHandoff(p)
    PROVE  BootstrapInvariant'
<1> SUFFICES ASSUME ~Bootstrap!Refuse(p) PROVE BootstrapInvariant'
  BY CallRefused DEF Bootstrap!BeginHandoff
<1>1. /\ adoption[p] \in Adoptions /\ Stands(p) /\ Rows /\ Adopting
      /\ adoption[p].at = "handoff" /\ adoption[p].checks = <<>> /\ writer = None
  BY DEF BootstrapInvariant, Adopting, Bootstrap!BeginHandoff, Bootstrap!Transaction,
    Bootstrap!Ready
<1>2. /\ writer' = p /\ Bootstrap!GuardedGoto(p, "stage")
      /\ UNCHANGED Bootstrap!storeVars /\ UNCHANGED <<workspace, result, quiet, seen>>
  BY DEF Bootstrap!BeginHandoff, Bootstrap!historyVars
<1>3. PICK s \in Adoptions :
        /\ adoption' = [adoption EXCEPT ![p] = s]
        /\ adoption' \in [Handles -> Adoptions]
        /\ adoption'[p] = s
        /\ s.at = "stage" /\ s.checks = <<"vault", "index">>
        /\ s.op = adoption[p].op /\ s.inventory = adoption[p].inventory
        /\ s.ownReceipt = adoption[p].ownReceipt
        /\ s.ownReadiness = adoption[p].ownReadiness /\ s.pin = adoption[p].pin
  BY <1>2, GuardedGoing DEF Guarded
<1>4. Rows' /\ Grown
  BY <1>1, <1>2, SameRows
<1>5. Adopting'
  BY <1>1, <1>2, <1>3 DEF Adopting
<1>6. \A q \in Handles \ {p} : LeftAlone(q)
  BY <1>1, <1>2, <1>3 DEF LeftAlone, Adopting, Bootstrap!BootstrapAssumption
<1>7. Founded(p)'
  BY <1>1, <1>2, <1>3 DEF Stands, Founded, Created, Recorded, Guarded, Linking,
    Bootstrap!storeVars
<1>8. Attesting(p)'
  BY <1>1, <1>2, <1>3 DEF Stands, Attesting, PinOf, HasPinned, Guarded
<1> QED BY <1>2, <1>4, <1>5, <1>6, <1>7, <1>8, OneMoves DEF Stands

LEMMA StageStep ==
    ASSUME Bootstrap!BootstrapAssumption, BootstrapInvariant,
           NEW p \in Handles, Bootstrap!Stage(p)
    PROVE  BootstrapInvariant'
<1> SUFFICES ASSUME ~Bootstrap!Refuse(p) PROVE BootstrapInvariant'
  BY CallRefused DEF Bootstrap!Stage
<1>1. /\ adoption[p] \in Adoptions /\ Stands(p) /\ Rows /\ Adopting
      /\ adoption[p].at = "stage" /\ adoption[p].checks = <<>>
  BY DEF BootstrapInvariant, Adopting, Bootstrap!Stage, Bootstrap!Ready
<1>2. /\ Bootstrap!GuardedGoto(p, "commit")
      /\ UNCHANGED Bootstrap!storeVars /\ UNCHANGED <<workspace, result, quiet, writer>>
      /\ seen' = [seen EXCEPT ![p] = {[f \in Files |-> workspace[f].bytes]}]
  BY BootstrapNames DEF Bootstrap!Stage, Bootstrap!InForce
<1>3. PICK s \in Adoptions :
        /\ adoption' = [adoption EXCEPT ![p] = s]
        /\ adoption' \in [Handles -> Adoptions]
        /\ adoption'[p] = s
        /\ s.at = "commit" /\ s.checks = <<"vault", "index">>
        /\ s.op = adoption[p].op /\ s.inventory = adoption[p].inventory
        /\ s.ownReceipt = adoption[p].ownReceipt
        /\ s.ownReadiness = adoption[p].ownReadiness /\ s.pin = adoption[p].pin
  BY <1>2, GuardedGoing DEF Guarded
<1>4. Rows' /\ Grown
  BY <1>1, <1>2, SameRows
<1>5. /\ [f \in Files |-> workspace[f].bytes] \in [Files -> FileContents]
      /\ seen'[p] = {[f \in Files |-> workspace[f].bytes]}
  BY <1>1, <1>2 DEF Adopting, Pinned
<1>6. Adopting'
  BY <1>1, <1>2, <1>3, <1>5 DEF Adopting
<1>7. \A q \in Handles \ {p} : LeftAlone(q)
  BY <1>1, <1>2, <1>3 DEF LeftAlone, Adopting
<1>8. Founded(p)'
  BY <1>1, <1>2, <1>3 DEF Stands, Founded, Created, Recorded, Guarded, Linking,
    Bootstrap!storeVars
<1>9. Attesting(p)'
  <2>1. ASSUME \A f \in Files : workspace[f] = s.pin[f]
        PROVE  [f \in Files |-> s.inventory] = [f \in Files |-> workspace[f].bytes]
    BY <1>1, <1>3, <2>1 DEF Stands, Attesting, Guarded, Files
  <2> QED BY <1>1, <1>2, <1>3, <1>5, <2>1
    DEF Stands, Attesting, PinOf, HasPinned, Guarded, ToVerify
<1> QED BY <1>2, <1>4, <1>6, <1>7, <1>8, <1>9, OneMoves DEF Stands

\* The row that a call has ready at its handoff.
LEMMA CandidateRow ==
    ASSUME Bootstrap!BootstrapAssumption, BootstrapInvariant, NEW p \in Handles,
           adoption[p].at \in Guarded
    PROVE  LET row == Bootstrap!Candidate(p)
           IN  /\ row \in Bootstrap!Authorities /\ row # None
               /\ row.op = adoption[p].op /\ row.op \in Names
               /\ row.receipt = inventoried[row.op] /\ row.readiness = ready[row.op]
               /\ row.generation = 0
               /\ aggregate # None /\ aggregate.op = row.op
               /\ authority # None /\ authority.generation = 0 => authority = row
<1>1. adoption[p] \in Adoptions /\ Founded(p) /\ Rows
  BY DEF BootstrapInvariant, Adopting, Stands
<1>2. /\ adoption[p].op \in Names /\ aggregate # None /\ aggregate.op = adoption[p].op
      /\ adoption[p].ownReceipt # None /\ adoption[p].ownReceipt = inventoried[adoption[p].op]
      /\ adoption[p].ownReadiness # None /\ adoption[p].ownReadiness = ready[adoption[p].op]
  BY <1>1 DEF Founded, Created, Recorded, Guarded
<1>3. /\ adoption[p].ownReceipt \in Bootstrap!Receipts
      /\ adoption[p].ownReadiness \in Bootstrap!Readinesses
  BY <1>1, <1>2 DEF Adoptions
<1>4. Bootstrap!Candidate(p) \in Bootstrap!Authorities
  BY <1>2, <1>3 DEF Bootstrap!Candidate, Bootstrap!Authorities
<1>5. Bootstrap!Candidate(p) # None
  BY <1>4 DEF Bootstrap!BootstrapAssumption
<1>6. ASSUME authority # None, authority.generation = 0
      PROVE  authority = Bootstrap!Candidate(p)
  <2>1. /\ authority \in Bootstrap!Authorities /\ authority.op = adoption[p].op
        /\ authority.receipt = inventoried[authority.op]
        /\ authority.readiness = ready[authority.op]
    BY <1>1, <1>2, <1>6 DEF Rows
  <2> QED BY <1>2, <1>6, <2>1 DEF Bootstrap!Candidate, Bootstrap!Authorities
<1> QED BY <1>2, <1>4, <1>5, <1>6 DEF Bootstrap!Candidate

LEMMA CommitStep ==
    ASSUME Bootstrap!BootstrapAssumption, BootstrapInvariant,
           NEW p \in Handles, Bootstrap!Commit(p)
    PROVE  BootstrapInvariant'
<1>1. /\ adoption[p] \in Adoptions /\ Stands(p) /\ Rows /\ Adopting
      /\ adoption[p].at = "commit" /\ adoption[p].checks = <<>>
  BY DEF BootstrapInvariant, Adopting, Bootstrap!Commit, Bootstrap!Ready
<1>2. /\ Bootstrap!GuardedGoto(p, "run")
      /\ authority' = Bootstrap!Candidate(p) /\ writer' = None
      /\ UNCHANGED <<workspace, intents, aggregate, inventoried, ready, run, links>>
      /\ UNCHANGED <<result, quiet>>
      /\ seen' = [seen EXCEPT ![p] = {}]
  BY DEF Bootstrap!Commit
<1>3. PICK s \in Adoptions :
        /\ adoption' = [adoption EXCEPT ![p] = s]
        /\ adoption' \in [Handles -> Adoptions]
        /\ adoption'[p] = s
        /\ s.at = "run" /\ s.checks = <<"vault", "index">>
        /\ s.op = adoption[p].op /\ s.inventory = adoption[p].inventory
        /\ s.ownReceipt = adoption[p].ownReceipt
        /\ s.ownReadiness = adoption[p].ownReadiness /\ s.pin = adoption[p].pin
  BY <1>2, GuardedGoing DEF Guarded
<1>4. PICK row : row = Bootstrap!Candidate(p)
  OBVIOUS
<1>5. /\ authority' = row
      /\ row \in Bootstrap!Authorities /\ row # None
      /\ row.op = adoption[p].op /\ row.op \in Names
      /\ row.receipt = inventoried[row.op] /\ row.readiness = ready[row.op]
      /\ aggregate # None /\ aggregate.op = row.op
  BY <1>1, <1>2, <1>4, CandidateRow DEF Guarded
<1>6. Rows'
  BY <1>1, <1>2, <1>5 DEF Rows
<1>7. Grown
  BY <1>1, <1>2, <1>5, LinksHaveLength DEF Rows, Grown
<1>8. Adopting'
  BY <1>1, <1>2, <1>3 DEF Adopting
<1>9. writer = p
  BY <1>1 DEF Stands, Attesting
<1>10. \A q \in Handles \ {p} : LeftAlone(q)
  BY <1>1, <1>2, <1>3, <1>9 DEF LeftAlone, Adopting
<1>11. Founded(p)'
  BY <1>1, <1>2, <1>3, <1>5 DEF Stands, Founded, Created, Recorded, Guarded, Linking
<1>12. Attesting(p)'
  BY <1>1, <1>2, <1>3 DEF Stands, Attesting, PinOf, HasPinned, Guarded
<1> QED BY <1>2, <1>6, <1>7, <1>8, <1>10, <1>11, <1>12, OneMoves DEF Stands

LEMMA CreateRunStep ==
    ASSUME Bootstrap!BootstrapAssumption, BootstrapInvariant,
           NEW p \in Handles, Bootstrap!CreateRun(p)
    PROVE  BootstrapInvariant'
<1> SUFFICES ASSUME ~Bootstrap!Refuse(p) PROVE BootstrapInvariant'
  BY CallRefused DEF Bootstrap!CreateRun
<1>1. /\ adoption[p] \in Adoptions /\ Stands(p) /\ Rows
      /\ adoption[p].at = "run" /\ adoption[p].checks = <<>>
  BY DEF BootstrapInvariant, Adopting, Bootstrap!CreateRun, Bootstrap!Transaction,
    Bootstrap!Ready
<1>2. PICK row : row = Bootstrap!Candidate(p)
  OBVIOUS
<1>3. row # None /\ row.op = adoption[p].op
  BY <1>1, <1>2, CandidateRow DEF Guarded
<1>4. PICK s : s = [adoption[p] EXCEPT !.at = "bootstrap-intent", !.pin = Bootstrap!Idle.pin]
  OBVIOUS
<1>5. /\ adoption' = [adoption EXCEPT ![p] = s]
      /\ UNCHANGED <<workspace, result, writer, quiet, seen>>
      /\ UNCHANGED <<intents, aggregate, inventoried, ready, authority, links>>
      /\ \/ run' = run
         \/ authority = row /\ run' = adoption[p].op
  BY <1>2, <1>4, BootstrapNames DEF Bootstrap!CreateRun, Bootstrap!Released,
    Bootstrap!Proceed, Bootstrap!historyVars, Bootstrap!storeVars
<1>6. /\ s \in Adoptions /\ s.at = "bootstrap-intent" /\ s.checks = <<>>
      /\ s.op = adoption[p].op /\ s.inventory = adoption[p].inventory
      /\ s.ownReceipt = adoption[p].ownReceipt
      /\ s.ownReadiness = adoption[p].ownReadiness
  BY <1>1, <1>4, IdleCall DEF Adoptions, Places, Created, Recorded, Linking
<1>7. adoption'[p] = s
  BY <1>5 DEF BootstrapInvariant, Adopting
<1>8. Rows'
  BY <1>1, <1>3, <1>5 DEF Rows
<1>9. Grown
  BY <1>1, <1>5, LinksHaveLength DEF Rows, Grown
<1>10. Founded(p)'
  BY <1>1, <1>5, <1>6, <1>7 DEF Stands, Founded, Created, Recorded, Guarded, Linking
<1>11. Attesting(p)'
  BY <1>6, <1>7, NothingPinned DEF Linking
<1> QED BY <1>5, <1>6, <1>8, <1>9, <1>10, <1>11, CallGoesOn DEF Stands

LEMMA AppendedTuples ==
    \A a, b, c, d :
        /\ Append(<<a>>, b) = <<a, b>>
        /\ Append(<<a, b>>, c) = <<a, b, c>>
        /\ Append(<<a, b, c>>, d) = <<a, b, c, d>>
<1> TAKE a, b, c, d
<1> DEFINE S == {a, b, c, d}
<1>1. /\ <<a>> \in Seq(S) /\ <<a, b>> \in Seq(S) /\ <<a, b, c>> \in Seq(S)
      /\ <<a, b, c, d>> \in Seq(S)
  OBVIOUS
<1> HIDE DEF S
<1>2. /\ a \in S /\ b \in S /\ c \in S /\ d \in S
  BY DEF S
<1>3. Append(<<a>>, b) = <<a, b>>
  <2>1. Append(<<a>>, b) \in Seq(S) /\ Len(Append(<<a>>, b)) = 2 /\ Len(<<a, b>>) = 2
    BY <1>1, <1>2
  <2>2. \A i \in 1..Len(Append(<<a>>, b)) : Append(<<a>>, b)[i] = <<a, b>>[i]
    BY <1>1, <1>2, <2>1
  <2>3. Len(Append(<<a>>, b)) = Len(<<a, b>>)
    BY <2>1
  <2> QED BY ONLY <1>1, <2>1, <2>2, <2>3, SeqEqual
<1>4. Append(<<a, b>>, c) = <<a, b, c>>
  <2>1. Append(<<a, b>>, c) \in Seq(S) /\ Len(Append(<<a, b>>, c)) = 3 /\ Len(<<a, b, c>>) = 3
    BY <1>1, <1>2
  <2>2. \A i \in 1..Len(Append(<<a, b>>, c)) : Append(<<a, b>>, c)[i] = <<a, b, c>>[i]
    BY <1>1, <1>2, <2>1
  <2>3. Len(Append(<<a, b>>, c)) = Len(<<a, b, c>>)
    BY <2>1
  <2> QED BY ONLY <1>1, <2>1, <2>2, <2>3, SeqEqual
<1>5. Append(<<a, b, c>>, d) = <<a, b, c, d>>
  <2>1. /\ Append(<<a, b, c>>, d) \in Seq(S) /\ Len(Append(<<a, b, c>>, d)) = 4
        /\ Len(<<a, b, c, d>>) = 4
    BY <1>1, <1>2
  <2>2. \A i \in 1..Len(Append(<<a, b, c>>, d)) : Append(<<a, b, c>>, d)[i] = <<a, b, c, d>>[i]
    BY <1>1, <1>2, <2>1
  <2>3. Len(Append(<<a, b, c>>, d)) = Len(<<a, b, c, d>>)
    BY <2>1
  <2> QED BY ONLY <1>1, <2>1, <2>2, <2>3, SeqEqual
<1> QED BY <1>3, <1>4, <1>5

\* The links in order: a link that is wanted is there, or is the next one.
LEMMA NextLink ==
    ASSUME links \in Histories, NEW n \in 1..4, n - 1 <= Len(links)
    PROVE  LET kind == Bootstrap!LinkKinds[n]
               recorded == IF Bootstrap!Contains(links, kind) THEN links
                           ELSE Append(links, kind)
           IN  /\ recorded \in Histories /\ recorded # <<>>
               /\ n <= Len(recorded) /\ Len(links) <= Len(recorded)
               /\ n = 4 /\ Len(links) <= 4 => recorded = Bootstrap!LinkKinds
<1> DEFINE kind == Bootstrap!LinkKinds[n]
<1>1. /\ n = 1 => kind = "bootstrap-intent"
      /\ n = 2 => kind = "workspace-inventory"
      /\ n = 3 => kind = "legacy-index-readiness"
      /\ n = 4 => kind = "generation-zero-authority"
  BY BootstrapNames
<1>2. Bootstrap!Contains(links, kind) <=> \E i \in 1..Len(links) : links[i] = kind
  BY DEF Bootstrap!Contains
<1>3. CASE links = <<>>
  BY <1>1, <1>2, <1>3 DEF Histories
<1>4. CASE links = <<"bootstrap-intent">>
  <2>1. n = 1 \/ n = 2
    BY <1>4
  <2>2. Bootstrap!Contains(links, kind) <=> n = 1
    BY <1>1, <1>2, <1>4, <2>1
  <2>3. Append(<<"bootstrap-intent">>, "workspace-inventory")
          = <<"bootstrap-intent", "workspace-inventory">>
    BY AppendedTuples
  <2>4. n = 2 => Append(links, kind) = <<"bootstrap-intent", "workspace-inventory">>
    BY <1>1, <1>4, <2>3
  <2> QED BY <1>4, <2>1, <2>2, <2>4 DEF Histories
<1>5. CASE links = <<"bootstrap-intent", "workspace-inventory">>
  <2>1. n = 1 \/ n = 2 \/ n = 3
    BY <1>5
  <2>2. /\ Len(links) = 2 /\ links[1] = "bootstrap-intent" /\ links[2] = "workspace-inventory"
    BY <1>5
  <2>3. Bootstrap!Contains(links, kind) <=> n \in {1, 2}
    BY <1>1, <1>2, <2>1, <2>2
  <2>4. Append(<<"bootstrap-intent", "workspace-inventory">>, "legacy-index-readiness")
          = <<"bootstrap-intent", "workspace-inventory", "legacy-index-readiness">>
    BY AppendedTuples
  <2>5. n = 3 => Append(links, kind)
                  = <<"bootstrap-intent", "workspace-inventory", "legacy-index-readiness">>
    BY <1>1, <1>5, <2>4
  <2> QED BY <1>5, <2>1, <2>3, <2>5 DEF Histories
<1>6. CASE links = <<"bootstrap-intent", "workspace-inventory", "legacy-index-readiness">>
  <2>1. /\ Len(links) = 3 /\ links[1] = "bootstrap-intent" /\ links[2] = "workspace-inventory"
        /\ links[3] = "legacy-index-readiness"
    BY <1>6
  <2>2. Bootstrap!Contains(links, kind) <=> n \in {1, 2, 3}
    BY <1>1, <1>2, <2>1
  <2>3. CASE n \in {1, 2, 3}
    BY <1>6, <2>2, <2>3 DEF Histories
  <2>4. CASE n = 4
    <3>1. Append(links, kind) = Bootstrap!LinkKinds
      <4>1. Append(<<"bootstrap-intent", "workspace-inventory", "legacy-index-readiness">>,
                   "generation-zero-authority")
              = <<"bootstrap-intent", "workspace-inventory", "legacy-index-readiness",
                  "generation-zero-authority">>
        BY ONLY AppendedTuples
      <4>2. kind = "generation-zero-authority"
        BY <1>1, <2>4
      <4> QED BY <1>6, <4>1, <4>2, BootstrapNames
    <3>2. Len(Bootstrap!LinkKinds) = 4 /\ Bootstrap!LinkKinds # <<>>
      BY BootstrapNames
    <3> QED BY <2>1, <2>2, <2>4, <3>1, <3>2 DEF Histories
  <2> QED BY <2>3, <2>4
<1>7. CASE links = Bootstrap!LinkKinds
  BY <1>2, <1>7, BootstrapNames DEF Histories
<1>8. CASE links = Append(Bootstrap!LinkKinds, "incoming-source")
  BY <1>2, <1>8, BootstrapNames DEF Histories
<1> QED BY <1>3, <1>4, <1>5, <1>6, <1>7, <1>8 DEF Histories

LEMMA LinkStep ==
    ASSUME Bootstrap!BootstrapAssumption, BootstrapInvariant,
           NEW p \in Handles, Bootstrap!Link(p)
    PROVE  BootstrapInvariant'
<1>1. PICK n \in 1..4 :
        LET kind == Bootstrap!LinkKinds[n]
            recorded == IF Bootstrap!Contains(links, kind) THEN links
                        ELSE Append(links, kind)
        IN  /\ Bootstrap!Transaction(p, kind)
            /\ links' = recorded
            /\ IF n < 4
               THEN Bootstrap!Goto(p, Bootstrap!LinkKinds[n + 1]) /\ Bootstrap!Proceed
               ELSE Bootstrap!End(p, IF recorded = Bootstrap!LinkKinds
                                     THEN "answered" ELSE "refused")
            /\ UNCHANGED <<workspace, intents, aggregate, inventoried, ready, authority, run>>
  <2>1. DOMAIN Bootstrap!LinkKinds = 1..4 /\ Len(Bootstrap!LinkKinds) = 4
    BY BootstrapNames
  <2> QED BY <2>1 DEF Bootstrap!Link
<1>2. adoption[p] \in Adoptions /\ Stands(p) /\ Rows
  BY DEF BootstrapInvariant, Adopting
<1>3. adoption[p].at = Bootstrap!LinkKinds[n] /\ adoption[p].checks = <<>>
  BY <1>1 DEF Bootstrap!Transaction, Bootstrap!Ready
<1>4. /\ n = 1 => adoption[p].at = "bootstrap-intent"
      /\ n = 2 => adoption[p].at = "workspace-inventory"
      /\ n = 3 => adoption[p].at = "legacy-index-readiness"
      /\ n = 4 => adoption[p].at = "generation-zero-authority"
  BY <1>3, BootstrapNames
<1>5. adoption[p].at \in Linking
  BY <1>4 DEF Linking
<1>6. n - 1 <= Len(links)
  <2>1. Len(links) \in Nat
    BY <1>2, LinksHaveLength DEF Rows
  <2> QED BY <1>2, <1>4, <2>1 DEF Stands, Founded
<1>7. links' \in Histories /\ n <= Len(links') /\ Len(links) <= Len(links')
  BY <1>1, <1>2, <1>6, NextLink DEF Rows
<1>8. authority # None
  BY <1>2, <1>5 DEF Stands, Founded
<1>9. Rows'
  BY <1>1, <1>2, <1>7, <1>8 DEF Rows
<1>10. Grown
  BY <1>1, <1>7 DEF Grown
<1>11. CASE n < 4
  <2>1. PICK place : place = Bootstrap!LinkKinds[n + 1]
    OBVIOUS
  <2>2. /\ n = 1 => place = "workspace-inventory"
        /\ n = 2 => place = "legacy-index-readiness"
        /\ n = 3 => place = "generation-zero-authority"
    BY <2>1, BootstrapNames
  <2>3. place \in Linking /\ place \in Places
    BY <1>11, <2>2 DEF Linking, Places, Created, Recorded
  <2>4. PICK s \in Adoptions :
          /\ s = [adoption[p] EXCEPT !.at = place]
          /\ adoption' = [adoption EXCEPT ![p] = s]
          /\ adoption'[p] = s
    BY <1>1, <1>11, <2>1, <2>3, Going
  <2>5. /\ s.at = place /\ s.checks = <<>>
        /\ s.op = adoption[p].op /\ s.inventory = adoption[p].inventory
        /\ s.ownReceipt = adoption[p].ownReceipt
        /\ s.ownReadiness = adoption[p].ownReadiness
    BY <1>2, <1>3, <2>4 DEF Adoptions
  <2>6. Founded(p)'
    <3>1. /\ place = "workspace-inventory" => Len(links') >= 1
          /\ place = "legacy-index-readiness" => Len(links') >= 2
          /\ place = "generation-zero-authority" => Len(links') >= 3
      <4>1. Len(links') \in Nat
        BY <1>9, LinksHaveLength DEF Rows, Histories, Bootstrap!LinkKinds
      <4> QED BY <1>7, <1>11, <2>2, <4>1
    <3>2. UNCHANGED <<intents, aggregate, inventoried, ready, authority>>
      BY <1>1
    <3>3. /\ adoption[p].op \in Names /\ adoption[p].inventory \in FileContents
          /\ Intent(adoption[p].op, adoption[p].inventory) \in intents
          /\ aggregate # None /\ aggregate.op = adoption[p].op
          /\ adoption[p].ownReceipt # None /\ ready[adoption[p].op] # None
          /\ adoption[p].ownReceipt = inventoried[adoption[p].op]
          /\ adoption[p].ownReadiness # None
          /\ adoption[p].ownReadiness = ready[adoption[p].op]
      BY <1>2, <1>5 DEF Stands, Founded, Created, Recorded, Linking
    <3>4. place # "idle"
      BY <2>3 DEF Linking
    <3>5. adoption'[p] = s /\ authority' # None
      BY <1>1, <1>8, <2>4
    <3> QED BY <2>5, <3>1, <3>2, <3>3, <3>4, <3>5 DEF Founded
  <2>7. Attesting(p)'
    BY <2>3, <2>4, <2>5, NothingPinned
  <2> QED BY <1>1, <1>9, <1>10, <1>11, <2>4, <2>6, <2>7, CallGoesOn
    DEF Stands, Bootstrap!Proceed, Bootstrap!historyVars
<1>12. CASE ~(n < 4)
  <2>1. PICK what \in {"answered", "refused"} : Bootstrap!End(p, what)
    BY <1>1, <1>12
  <2> QED BY <1>1, <1>9, <1>10, <2>1, CallEnds
<1> QED BY <1>11, <1>12

LEMMA FailStep ==
    ASSUME BootstrapInvariant, NEW p \in Handles, Bootstrap!Fail(p)
    PROVE  BootstrapInvariant'
BY SameRows, CallEnds DEF BootstrapInvariant, Bootstrap!Fail

LEMMA SaveStep ==
    ASSUME Bootstrap!BootstrapAssumption, BootstrapInvariant,
           NEW f \in Files, NEW c \in FileContents, Bootstrap!Save(f, c)
    PROVE  BootstrapInvariant'
<1>1. /\ Rows /\ Adopting
      /\ workspace \in [Files -> Pinned] /\ adoption \in [Handles -> Adoptions]
  BY DEF BootstrapInvariant, Adopting
<1>2. PICK new : new = [bytes |-> c, stamp |-> workspace[f].stamp + 1]
  OBVIOUS
<1>3. PICK now : now = [[g \in Files |-> workspace[g].bytes] EXCEPT ![f] = c]
  OBVIOUS
<1>4. /\ workspace' = [workspace EXCEPT ![f] = new]
      /\ quiet' = {}
      /\ seen' = [p \in Handles |-> IF seen[p] = {} THEN {} ELSE seen[p] \cup {now}]
      /\ UNCHANGED <<writer, adoption, result>> /\ UNCHANGED Bootstrap!storeVars
  BY <1>2, <1>3, BootstrapNames DEF Bootstrap!Save, Bootstrap!InForce
<1>5. /\ workspace' \in [Files -> Pinned]
      /\ workspace'[f] = new /\ new.stamp = workspace[f].stamp + 1
      /\ workspace[f].stamp \in Nat
      /\ \A g \in Files \ {f} : workspace'[g] = workspace[g]
  BY <1>1, <1>2, <1>4 DEF Pinned
<1>6. now \in [Files -> FileContents]
  BY <1>1, <1>3 DEF Pinned
<1>7. Rows' /\ Grown
  BY <1>1, <1>4, SameRows
<1>8. Adopting'
  BY <1>1, <1>4, <1>5, <1>6 DEF Adopting
<1>9. ASSUME NEW p \in Handles
      PROVE  Stands(p)'
  <2>1. Stands(p) /\ adoption' = adoption /\ UNCHANGED <<intents, aggregate, inventoried,
                                                         ready, authority, links>>
    BY <1>4 DEF BootstrapInvariant, Bootstrap!storeVars
  <2>2. Founded(p)'
    BY <2>1 DEF Stands, Founded
  <2>3. ASSUME NEW g \in Files
        PROVE  PinOf(p, g)'
    <3>1. /\ workspace'[g].stamp \in Nat /\ workspace[g].stamp \in Nat
          /\ workspace[g].stamp <= workspace'[g].stamp
      BY <1>1, <1>5 DEF Pinned
    <3>2. PinOf(p, g)
      BY <2>1 DEF Stands, Attesting
    <3> QED BY <1>4, <2>1, <3>1, <3>2 DEF PinOf, Pinned
  <2>4. ASSUME adoption[p].at = "commit",
               \A g \in ToVerify(adoption[p]) : workspace'[g] = adoption[p].pin[g]
        PROVE  [g \in Files |-> adoption[p].inventory] \in seen'[p]
    <3>1. f \notin ToVerify(adoption[p])
      <4>1. /\ adoption[p].pin[f] \in Pinned
            /\ adoption[p].pin[f].stamp <= workspace[f].stamp
        BY <2>1, <2>4 DEF Stands, Attesting, PinOf, HasPinned, Guarded
      <4>2. adoption[p].pin[f] # new
        BY <1>5, <4>1 DEF Pinned
      <4> QED BY <1>5, <2>4, <4>2
    <3>2. ToVerify(adoption[p]) \subseteq Files
      BY DEF ToVerify, Files
    <3>3. \A g \in ToVerify(adoption[p]) : workspace[g] = adoption[p].pin[g]
      BY <1>5, <2>4, <3>1, <3>2
    <3>4. [g \in Files |-> adoption[p].inventory] \in seen[p]
      BY <2>1, <2>4, <3>3 DEF Stands, Attesting
    <3> QED BY <1>4, <3>4
  <2>5. Attesting(p)'
    BY <1>4, <2>1, <2>3, <2>4 DEF Stands, Attesting
  <2> QED BY <2>2, <2>5 DEF Stands
<1> QED BY <1>7, <1>8, <1>9 DEF BootstrapInvariant

\* A step of the run changes rows and nothing of the calls.
LEMMA RunGoesOn ==
    ASSUME BootstrapInvariant, UNCHANGED <<workspace, writer, adoption, result, quiet, seen>>,
           Rows', Grown
    PROVE  BootstrapInvariant'
<1>1. Adopting'
  BY DEF BootstrapInvariant, Adopting
<1>2. \A q \in Handles : LeftAlone(q)
  BY DEF LeftAlone
<1> QED BY <1>1, <1>2, CallStands DEF BootstrapInvariant

LEMMA StartChangeStep ==
    ASSUME BootstrapInvariant, Bootstrap!StartChange
    PROVE  BootstrapInvariant'
<1>1. /\ links = Bootstrap!LinkKinds /\ links' = Append(links, "incoming-source")
      /\ UNCHANGED <<intents, aggregate, inventoried, ready, authority, run>>
      /\ UNCHANGED <<workspace, writer, adoption, result, quiet, seen>> /\ Rows
  BY DEF Bootstrap!StartChange, Bootstrap!historyVars, BootstrapInvariant
<1>2. links' \in Histories /\ links # <<>> /\ Len(links) <= Len(links')
  BY <1>1, BootstrapNames DEF Histories
<1>3. Rows' /\ Grown
  BY <1>1, <1>2 DEF Rows, Grown
<1> QED BY <1>1, <1>3, RunGoesOn

LEMMA ProposeStep ==
    ASSUME Bootstrap!BootstrapAssumption, BootstrapInvariant, Bootstrap!Propose
    PROVE  BootstrapInvariant'
<1>1. /\ Bootstrap!Contains(links, "incoming-source") /\ aggregate.revision = 1
      /\ aggregate' = [aggregate EXCEPT !.revision = 2]
      /\ UNCHANGED <<intents, inventoried, ready, authority, run, links>>
      /\ UNCHANGED <<workspace, writer, adoption, result, quiet, seen>> /\ Rows
  BY DEF Bootstrap!Propose, Bootstrap!historyVars, BootstrapInvariant
<1>2. links # <<>>
  BY <1>1 DEF Bootstrap!Contains
<1>3. authority # None /\ aggregate # None /\ aggregate \in Bootstrap!Aggregates
  BY <1>1, <1>2 DEF Rows
<1>4. /\ aggregate' \in Bootstrap!Aggregates /\ aggregate'.op = aggregate.op
      /\ aggregate'.content = aggregate.content /\ aggregate' # None
  BY <1>1, <1>3 DEF Bootstrap!Aggregates, Bootstrap!BootstrapAssumption
<1>5. Rows'
  BY <1>1, <1>3, <1>4 DEF Rows
<1>6. Grown
  BY <1>1, <1>4, LinksHaveLength DEF Rows, Grown
<1> QED BY <1>1, <1>5, <1>6, RunGoesOn

LEMMA ActivateRunStep ==
    ASSUME Bootstrap!BootstrapAssumption, BootstrapInvariant, Bootstrap!Activate
    PROVE  BootstrapInvariant'
<1>1. /\ aggregate # None /\ aggregate.revision = 2
      /\ authority' = [authority EXCEPT !.generation = 1]
      /\ UNCHANGED <<intents, aggregate, inventoried, ready, run, links>>
      /\ UNCHANGED <<workspace, writer, adoption, result, quiet, seen>> /\ Rows
  BY DEF Bootstrap!Activate, Bootstrap!historyVars, BootstrapInvariant
<1>2. authority # None /\ authority \in Bootstrap!Authorities
  BY <1>1 DEF Rows
<1>3. /\ authority' \in Bootstrap!Authorities /\ authority'.op = authority.op
      /\ authority'.receipt = authority.receipt /\ authority'.readiness = authority.readiness
      /\ authority' # None
  BY <1>1, <1>2 DEF Bootstrap!Authorities, Bootstrap!BootstrapAssumption
<1>4. Rows'
  BY <1>1, <1>2, <1>3 DEF Rows
<1>5. Grown
  BY <1>1, <1>3, LinksHaveLength DEF Rows, Grown
<1> QED BY <1>1, <1>4, <1>5, RunGoesOn

LEMMA BootstrapInit ==
    ASSUME Bootstrap!BootstrapAssumption, Bootstrap!Init
    PROVE  BootstrapInvariant
<1>1. Rows
  BY DEF Bootstrap!Init, Rows, Histories
<1>2. Adopting
  BY BootstrapNames, IdleCall DEF Bootstrap!Init, Adopting, Pinned
<1>3. ASSUME NEW p \in Handles
      PROVE  Stands(p)
  <2>1. adoption[p] = Bootstrap!Idle
    BY DEF Bootstrap!Init
  <2> QED BY <2>1, IdleCall DEF Stands, Founded, Attesting, PinOf, HasPinned, Created,
        Recorded, Guarded, Linking
<1> QED BY <1>1, <1>2, <1>3 DEF BootstrapInvariant

LEMMA BootstrapKept ==
    ASSUME Bootstrap!BootstrapAssumption, BootstrapInvariant, [Bootstrap!Next]_bootstrapVars
    PROVE  BootstrapInvariant'
<1>1. ASSUME NEW p \in Handles, NEW op \in Names, Bootstrap!Resolve(p, op)
      PROVE  BootstrapInvariant'
  BY <1>1, ResolveStep
<1>2. ASSUME NEW p \in Handles, NEW time \in Times,
             Bootstrap!RecordInventory(p, time) \/ Bootstrap!RecordReadiness(p, time)
      PROVE  BootstrapInvariant'
  BY <1>2, RecordInventoryStep, RecordReadinessStep
<1>3. ASSUME NEW p \in Handles,
             \/ Bootstrap!Attest(p) \/ Bootstrap!Claim(p) \/ Bootstrap!Create(p)
             \/ Bootstrap!PinWorkspace(p) \/ Bootstrap!PinIndex(p) \/ Bootstrap!Verify(p)
      PROVE  BootstrapInvariant'
  BY <1>3, AttestStep, ClaimStep, CreateStep, PinWorkspaceStep, PinIndexStep, VerifyStep
<1>4. ASSUME NEW p \in Handles,
             \/ Bootstrap!Reopen(p) \/ Bootstrap!BeginHandoff(p) \/ Bootstrap!Stage(p)
             \/ Bootstrap!Commit(p) \/ Bootstrap!CreateRun(p) \/ Bootstrap!Link(p)
             \/ Bootstrap!Fail(p)
      PROVE  BootstrapInvariant'
  BY <1>4, ReopenStep, BeginHandoffStep, StageStep, CommitStep, CreateRunStep, LinkStep,
    FailStep
<1>5. ASSUME NEW f \in Files, NEW c \in FileContents, Bootstrap!Save(f, c)
      PROVE  BootstrapInvariant'
  BY <1>5, SaveStep
<1>6. CASE Bootstrap!StartChange \/ Bootstrap!Propose \/ Bootstrap!Activate
  BY <1>6, StartChangeStep, ProposeStep, ActivateRunStep
<1>7. CASE UNCHANGED bootstrapVars
  BY <1>7 DEF bootstrapVars, BootstrapInvariant, Rows, Adopting, Stands, Founded, Attesting,
    PinOf
<1> QED BY <1>1, <1>2, <1>3, <1>4, <1>5, <1>6, <1>7, BootstrapNames DEF Bootstrap!Next

\* Nobody but initialize_workspace_generation_zero writes the first row of the authority.
LEMMA AuthorityIsCommitted ==
    ASSUME Bootstrap!BootstrapAssumption, BootstrapInvariant, Bootstrap!Next,
           authority = None, authority' # None
    PROVE  \E p \in Handles : Bootstrap!Commit(p)
<1>1. ~Bootstrap!Activate
  BY DEF Bootstrap!Activate, BootstrapInvariant, Rows
<1>2. ASSUME NEW p \in Handles,
             \/ \E op \in Names : Bootstrap!Resolve(p, op)
             \/ \E time \in Times : Bootstrap!RecordInventory(p, time)
                                      \/ Bootstrap!RecordReadiness(p, time)
             \/ Bootstrap!Attest(p) \/ Bootstrap!Claim(p) \/ Bootstrap!Create(p)
             \/ Bootstrap!PinWorkspace(p) \/ Bootstrap!PinIndex(p) \/ Bootstrap!Verify(p)
             \/ Bootstrap!Reopen(p) \/ Bootstrap!BeginHandoff(p) \/ Bootstrap!Stage(p)
             \/ Bootstrap!CreateRun(p) \/ Bootstrap!Link(p) \/ Bootstrap!Fail(p)
      PROVE  UNCHANGED authority
  BY <1>2 DEF Bootstrap!Resolve, Bootstrap!RecordInventory, Bootstrap!RecordReadiness,
    Bootstrap!Attest, Bootstrap!Claim, Bootstrap!Create, Bootstrap!PinWorkspace,
    Bootstrap!PinIndex, Bootstrap!Verify, Bootstrap!Reopen, Bootstrap!BeginHandoff,
    Bootstrap!Stage, Bootstrap!CreateRun, Bootstrap!Link, Bootstrap!Fail, Bootstrap!Refuse,
    Bootstrap!storeVars
<1>3. ASSUME \/ \E f \in Files, c \in FileContents : Bootstrap!Save(f, c)
             \/ Bootstrap!StartChange \/ Bootstrap!Propose
      PROVE  UNCHANGED authority
  BY <1>3 DEF Bootstrap!Save, Bootstrap!StartChange, Bootstrap!Propose, Bootstrap!storeVars
<1> QED BY <1>1, <1>2, <1>3, BootstrapNames DEF Bootstrap!Next

\* bootstrap of application.py, at each of its transactions: the rows rest on each other, a
\* call holds the receipts that are durable, and its pins are of the adopted files for as
\* long as nobody saves them; for any processes, operation ids, contents and saves.
THEOREM AdoptionInvariant == RecordsSpec => []BootstrapInvariant
<1>1. RecordsInit => BootstrapInvariant
  BY RecordsAssumption, BootstrapInit DEF RecordsInit, RecordsAssumption
<1>2. BootstrapInvariant /\ [RecordsNext]_allVars => BootstrapInvariant'
  <2>1. [RecordsNext]_allVars => [Bootstrap!Next]_bootstrapVars
    BY DEF RecordsNext, allVars
  <2> QED BY <2>1, RecordsAssumption, BootstrapKept DEF RecordsAssumption
<1> QED BY <1>1, <1>2, PTL DEF RecordsSpec

\* initialize_workspace_generation_zero and its guards: when the row of generation zero
\* appears, the vault and the index were the adopted ones together at a moment since it was
\* staged; whoever saves them, for any number of processes, operation ids and saves.
THEOREM AuthorityIsBacked == RecordsSpec => AuthorityHadItsEvidence
<1>1. Bootstrap!BootstrapAssumption
  BY RecordsAssumption DEF RecordsAssumption
<1>2. ASSUME BootstrapInvariant, Bootstrap!Next, NEW p \in Handles,
             authority = None, authority' # None, writer = p
      PROVE  Bootstrap!Exactly(adoption[p].inventory) \in seen[p]
  <2>1. PICK q \in Handles : Bootstrap!Commit(q)
    BY <1>1, <1>2, AuthorityIsCommitted
  <2>2. adoption[q].at = "commit" /\ adoption[q].checks = <<>> /\ Attesting(q)
    BY <1>2, <2>1 DEF Bootstrap!Commit, Bootstrap!Ready, BootstrapInvariant, Stands
  <2>3. q = p /\ ToVerify(adoption[q]) = {}
    BY <1>2, <2>2 DEF Attesting, ToVerify
  <2> QED BY <2>2, <2>3, BootstrapNames DEF Attesting, Bootstrap!Exactly
<1>3. BootstrapInvariant /\ [RecordsNext]_allVars =>
        [\A p \in Handles : authority = None /\ authority' # None /\ writer = p =>
            Bootstrap!Exactly(adoption[p].inventory) \in seen[p]]_Bootstrap!vars
  <2>1. UNCHANGED bootstrapVars => UNCHANGED Bootstrap!vars
    BY DEF bootstrapVars, Bootstrap!vars, Bootstrap!storeVars, Bootstrap!historyVars
  <2>2. [RecordsNext]_allVars => Bootstrap!Next \/ UNCHANGED bootstrapVars
    BY DEF RecordsNext, allVars
  <2> QED BY <1>2, <2>1, <2>2
<1> QED BY <1>3, AdoptionInvariant, PTL
  DEF RecordsSpec, AuthorityHadItsEvidence, Bootstrap!AuthorityHadItsEvidence

\* What ExactRetry says of a call and the rows.
LEMMA ExactRetryMeans ==
    ASSUME BootstrapInvariant, NEW p \in Handles, Bootstrap!ExactRetry(p)
    PROVE  /\ p \in quiet
           /\ \A f \in Files : workspace[f].bytes = adoption[p].inventory
           /\ Intent(adoption[p].op, adoption[p].inventory) \in intents
           /\ aggregate # None => aggregate.op = adoption[p].op /\ aggregate.revision = 1
           /\ authority # None => authority.generation = 0
<1>1. [f \in Files |-> workspace[f].bytes] = [f \in Files |-> adoption[p].inventory]
  BY BootstrapNames DEF Bootstrap!ExactRetry, Bootstrap!InForce, Bootstrap!Exactly
<1>2. \A f \in Files : workspace[f].bytes = adoption[p].inventory
  <2> TAKE f \in Files
  <2>1. /\ [g \in Files |-> workspace[g].bytes][f] = workspace[f].bytes
        /\ [g \in Files |-> adoption[p].inventory][f] = adoption[p].inventory
    OBVIOUS
  <2> QED BY <1>1, <2>1
<1> QED BY <1>2 DEF Bootstrap!ExactRetry, Intent

\* The first places of a retry, before the files are pinned.
LEMMA RetriesRecord ==
    ASSUME Bootstrap!BootstrapAssumption, BootstrapInvariant,
           NEW p \in Handles, Bootstrap!ExactRetry(p),
           \/ Bootstrap!Attest(p) \/ Bootstrap!Claim(p) \/ Bootstrap!Create(p)
           \/ \E time \in Times : Bootstrap!RecordInventory(p, time)
                                    \/ Bootstrap!RecordReadiness(p, time)
    PROVE  adoption'[p].at # "idle"
<1> DEFINE op == adoption[p].op
<1>1. adoption[p] \in Adoptions /\ Founded(p) /\ Rows /\ adoption \in [Handles -> Adoptions]
  BY DEF BootstrapInvariant, Adopting, Stands
<1>2. CASE Bootstrap!Attest(p)
  <2>1. Bootstrap!Goto(p, "claim")
    BY <1>2, ExactRetryMeans DEF Bootstrap!Attest, Bootstrap!Attested, Files
  <2> QED BY <2>1, Going DEF Places, Adoptions
<1>3. CASE Bootstrap!Claim(p)
  BY <1>1, <1>3, ExactRetryMeans DEF Bootstrap!Claim, Intent, Adoptions
<1>4. CASE Bootstrap!Create(p)
  <2>1. Bootstrap!Goto(p, "inventory")
    BY <1>4, ExactRetryMeans DEF Bootstrap!Create
  <2> QED BY <2>1, Going DEF Places, Created, Adoptions
<1>5. ASSUME NEW time \in Times, Bootstrap!RecordInventory(p, time)
      PROVE  adoption'[p].at # "idle"
  <2>1. PICK receipt : receipt = IF adoption[p].ownReceipt # None THEN adoption[p].ownReceipt
              ELSE [inventory |-> adoption[p].inventory, revision |-> 1, time |-> time]
    OBVIOUS
  <2>2. /\ op \in Names /\ aggregate # None /\ aggregate.op = op /\ aggregate.revision = 1
        /\ Intent(op, adoption[p].inventory) \in intents
        /\ adoption[p].ownReceipt # None => adoption[p].ownReceipt = inventoried[op]
    BY <1>1, <1>5, ExactRetryMeans DEF Founded, Created, Bootstrap!RecordInventory,
      Bootstrap!Transaction, Bootstrap!Ready
  <2>3. ASSUME inventoried[op] # None
        PROVE  Bootstrap!SameInputs(receipt, inventoried[op])
    <3>1. inventoried[op] \in Bootstrap!Receipts
      BY <1>1, <2>2, <2>3 DEF Rows
    <3>2. inventoried[op].inventory = adoption[p].inventory
      BY <1>1, <2>2, <2>3 DEF Rows, Intent
    <3> QED BY <2>1, <2>2, <3>1, <3>2 DEF Bootstrap!SameInputs, Bootstrap!Receipts
  <2>4. \/ adoption' = [adoption EXCEPT ![p].ownReceipt = receipt, ![p].at = "readiness"]
        \/ adoption' = [adoption EXCEPT ![p].ownReceipt = inventoried[op],
                           ![p].ownReadiness = ready[op], ![p].at = "readiness"]
    BY <1>5, <2>1, <2>2, <2>3 DEF Bootstrap!RecordInventory
  <2> QED BY <1>1, <2>4 DEF Adoptions
<1>6. ASSUME NEW time \in Times, Bootstrap!RecordReadiness(p, time)
      PROVE  adoption'[p].at # "idle"
  <2>1. PICK receipt : receipt = IF adoption[p].ownReadiness # None
              THEN adoption[p].ownReadiness
              ELSE [binds |-> adoption[p].ownReceipt, time |-> time]
    OBVIOUS
  <2>2. /\ op \in Names /\ adoption[p].ownReceipt = inventoried[op]
        /\ adoption[p].ownReadiness # None => adoption[p].ownReadiness = ready[op]
    BY <1>1, <1>6 DEF Founded, Bootstrap!RecordReadiness, Bootstrap!Transaction,
      Bootstrap!Ready
  <2>3. ready[op] = None => receipt.binds = inventoried[op]
    BY <2>1, <2>2
  <2>4. ASSUME ready[op] # None
        PROVE  Bootstrap!SameInputs(receipt, ready[op])
    <3>1. ready[op] \in Bootstrap!Readinesses /\ ready[op].binds = inventoried[op]
      BY <1>1, <2>2, <2>4 DEF Rows
    <3> QED BY <2>1, <2>2, <3>1 DEF Bootstrap!SameInputs, Bootstrap!Readinesses
  <2>5. Bootstrap!Goto(p, "pinWorkspace")
    BY <1>6, <2>1, <2>3, <2>4 DEF Bootstrap!RecordReadiness
  <2> QED BY <2>5, Going DEF Places, Created, Recorded, Adoptions
<1> QED BY <1>2, <1>3, <1>4, <1>5, <1>6

\* The places of a retry where the files are pinned.
LEMMA RetriesHandOver ==
    ASSUME Bootstrap!BootstrapAssumption, BootstrapInvariant,
           NEW p \in Handles, Bootstrap!ExactRetry(p),
           \/ Bootstrap!PinWorkspace(p) \/ Bootstrap!PinIndex(p) \/ Bootstrap!Verify(p)
           \/ Bootstrap!Reopen(p) \/ Bootstrap!BeginHandoff(p) \/ Bootstrap!Stage(p)
           \/ Bootstrap!Commit(p) \/ Bootstrap!CreateRun(p)
    PROVE  adoption'[p].at # "idle"
<1> DEFINE op == adoption[p].op
<1>1. /\ adoption[p] \in Adoptions /\ Founded(p) /\ Attesting(p) /\ Rows
      /\ adoption \in [Handles -> Adoptions]
  BY DEF BootstrapInvariant, Adopting, Stands
<1>2. CASE Bootstrap!PinWorkspace(p)
  BY <1>1, <1>2 DEF Bootstrap!PinWorkspace, Adoptions
<1>3. CASE Bootstrap!PinIndex(p)
  <2>1. adoption[p].pin["vault"] = workspace["vault"]
    BY <1>1, <1>3, ExactRetryMeans DEF Attesting, PinOf, HasPinned, Files,
      Bootstrap!PinIndex, Bootstrap!Ready
  <2>2. workspace["index"].bytes = adoption[p].pin["vault"].bytes
    BY <2>1, ExactRetryMeans DEF Files
  <2> QED BY <1>1, <1>3, <2>2 DEF Bootstrap!PinIndex, Bootstrap!Attested, Adoptions
<1>4. CASE Bootstrap!Verify(p)
  <2>1. adoption[p].checks # <<>>
    BY <1>4 DEF Bootstrap!Verify
  <2>2. adoption[p].at \in Guarded
    BY <1>1, <2>1 DEF Attesting
  <2>3. Head(adoption[p].checks) \in Files
    <3>1. /\ adoption[p].checks = <<"vault", "index">> \/ adoption[p].checks = <<"index">>
          /\ Head(<<"vault", "index">>) = "vault" /\ Head(<<"index">>) = "index"
      BY <1>1, <2>1 DEF Adoptions
    <3> QED BY <3>1 DEF Files
  <2>4. workspace[Head(adoption[p].checks)] = adoption[p].pin[Head(adoption[p].checks)]
    BY <1>1, <2>2, <2>3, ExactRetryMeans DEF Attesting, PinOf, HasPinned
  <2>5. adoption' = [adoption EXCEPT ![p].checks = Tail(@)]
    BY <1>4, <2>4 DEF Bootstrap!Verify, Bootstrap!Unchanged
  <2>6. adoption'[p].at = adoption[p].at
    BY <1>1, <2>5 DEF Adoptions
  <2> QED BY <2>2, <2>6 DEF Guarded
<1>5. CASE Bootstrap!Reopen(p)
  <2>1. /\ op \in Names /\ aggregate # None /\ aggregate.op = op
        /\ Intent(op, adoption[p].inventory) \in intents /\ aggregate.revision = 1
        /\ inventoried[op] # None /\ ready[op] # None
    BY <1>1, <1>5, ExactRetryMeans DEF Founded, Created, Recorded, Rows, Bootstrap!Reopen,
      Bootstrap!Transaction, Bootstrap!Ready
  <2>2. aggregate.content = adoption[p].inventory
    BY <1>1, <2>1 DEF Rows, Intent
  <2>3. adoption[p].pin["vault"].bytes = adoption[p].inventory
    BY <1>1, <1>5, ExactRetryMeans DEF Attesting, PinOf, HasPinned, Files,
      Bootstrap!Reopen, Bootstrap!Transaction, Bootstrap!Ready
  <2>4. adoption' = [adoption EXCEPT ![p].at = "handoff", ![p].checks = Bootstrap!Evidence,
                        ![p].ownReceipt = inventoried[op], ![p].ownReadiness = ready[op]]
    BY <1>5, <2>1, <2>2, <2>3 DEF Bootstrap!Reopen
  <2> QED BY <1>1, <2>4 DEF Adoptions
<1>6. CASE Bootstrap!BeginHandoff(p)
  <2>1. inventoried[op] = adoption[p].ownReceipt /\ ready[op] = adoption[p].ownReadiness
    BY <1>1, <1>6 DEF Founded, Recorded, Guarded, Bootstrap!BeginHandoff,
      Bootstrap!Transaction, Bootstrap!Ready
  <2>2. Bootstrap!GuardedGoto(p, "stage")
    BY <1>6, <2>1 DEF Bootstrap!BeginHandoff
  <2> QED BY <2>2, GuardedGoing DEF Guarded
<1>7. CASE Bootstrap!Stage(p)
  <2>1. adoption[p].at \in Guarded
    BY <1>7 DEF Bootstrap!Stage, Bootstrap!Ready, Guarded
  <2>2. authority \in {None, Bootstrap!Candidate(p)}
    BY <2>1, CandidateRow, ExactRetryMeans
  <2>3. Bootstrap!GuardedGoto(p, "commit")
    BY <1>7, <2>2 DEF Bootstrap!Stage
  <2> QED BY <2>3, GuardedGoing DEF Guarded
<1>8. CASE Bootstrap!Commit(p)
  <2>1. Bootstrap!GuardedGoto(p, "run")
    BY <1>8 DEF Bootstrap!Commit
  <2> QED BY <2>1, GuardedGoing DEF Guarded
<1>9. CASE Bootstrap!CreateRun(p)
  <2>1. adoption[p].at = "run" /\ adoption[p].at \in Guarded
    BY <1>9 DEF Bootstrap!CreateRun, Bootstrap!Transaction, Bootstrap!Ready, Guarded
  <2>2. authority # None
    BY <1>1, <2>1 DEF Founded
  <2>3. authority = Bootstrap!Candidate(p) /\ authority.op = op
    BY <2>1, <2>2, CandidateRow, ExactRetryMeans
  <2>4. run = op \/ run = None
    BY <1>1, <2>3 DEF Rows
  <2>5. Bootstrap!Released(p)
    BY <1>9, <2>3, <2>4 DEF Bootstrap!CreateRun
  <2> QED BY <1>1, <2>5, BootstrapNames DEF Bootstrap!Released, Adoptions
<1> QED BY <1>2, <1>3, <1>4, <1>5, <1>6, <1>7, <1>8, <1>9

\* Where the last link is recorded, the call holds the durable receipts, and it is refused
\* only if the run has more links than these.
LEMMA LastLink ==
    ASSUME Bootstrap!BootstrapAssumption, BootstrapInvariant, NEW p \in Handles,
           Bootstrap!Link(p), adoption'[p] = Bootstrap!Idle
    PROVE  /\ adoption[p].ownReceipt = inventoried[adoption[p].op]
           /\ adoption[p].ownReadiness = ready[adoption[p].op]
           /\ Len(links) <= 4 => result'[p] # "refused"
<1>1. PICK n \in 1..4 :
        LET kind == Bootstrap!LinkKinds[n]
            recorded == IF Bootstrap!Contains(links, kind) THEN links
                        ELSE Append(links, kind)
        IN  /\ Bootstrap!Transaction(p, kind)
            /\ IF n < 4
               THEN Bootstrap!Goto(p, Bootstrap!LinkKinds[n + 1])
               ELSE Bootstrap!End(p, IF recorded = Bootstrap!LinkKinds
                                     THEN "answered" ELSE "refused")
  <2>1. DOMAIN Bootstrap!LinkKinds = 1..4 /\ Len(Bootstrap!LinkKinds) = 4
    BY BootstrapNames
  <2> QED BY <2>1 DEF Bootstrap!Link
<1>2. /\ adoption[p] \in Adoptions /\ Founded(p) /\ Rows /\ adoption \in [Handles -> Adoptions]
      /\ result \in [Handles -> {"none", "refused", "answered"}]
  BY DEF BootstrapInvariant, Adopting, Stands
<1>3. n = 4
  <2>1. SUFFICES ASSUME n < 4 PROVE adoption'[p].at # "idle"
    BY IdleCall
  <2>2. PICK place : place = Bootstrap!LinkKinds[n + 1]
    OBVIOUS
  <2>3. /\ n = 1 => place = "workspace-inventory"
        /\ n = 2 => place = "legacy-index-readiness"
        /\ n = 3 => place = "generation-zero-authority"
    BY <2>2, BootstrapNames
  <2>4. place # "idle" /\ place \in Places
    BY <2>1, <2>3 DEF Linking, Places, Created, Recorded
  <2>5. Bootstrap!Goto(p, place)
    BY <1>1, <2>1, <2>2
  <2> QED BY <1>2, <2>4, <2>5, Going DEF Adoptions
<1>4. adoption[p].at = "generation-zero-authority"
  BY <1>1, <1>3, BootstrapNames DEF Bootstrap!Transaction, Bootstrap!Ready
<1>5. /\ adoption[p].ownReceipt = inventoried[adoption[p].op]
      /\ adoption[p].ownReadiness = ready[adoption[p].op]
  BY <1>2, <1>4 DEF Founded, Recorded, Linking
<1>6. ASSUME Len(links) <= 4
      PROVE  result'[p] # "refused"
  <2>1. Len(links) \in Nat /\ n - 1 <= Len(links)
    BY <1>2, <1>3, <1>4, LinksHaveLength DEF Rows, Founded
  <2>2. Bootstrap!End(p, "answered")
    BY <1>1, <1>2, <1>3, <1>6, <2>1, NextLink DEF Rows
  <2> QED BY <1>2, <2>2 DEF Bootstrap!End
<1> QED BY <1>5, <1>6

\* Only a step of its own ends a call.
LEMMA CallsEndThemselves ==
    ASSUME Bootstrap!BootstrapAssumption, BootstrapInvariant, Bootstrap!Next,
           NEW p \in Handles, adoption[p] # Bootstrap!Idle, adoption'[p] = Bootstrap!Idle
    PROVE  \/ Bootstrap!Attest(p) \/ Bootstrap!Claim(p) \/ Bootstrap!Create(p)
           \/ \E time \in Times : Bootstrap!RecordInventory(p, time)
                                    \/ Bootstrap!RecordReadiness(p, time)
           \/ Bootstrap!PinWorkspace(p) \/ Bootstrap!PinIndex(p) \/ Bootstrap!Verify(p)
           \/ Bootstrap!Reopen(p) \/ Bootstrap!BeginHandoff(p) \/ Bootstrap!Stage(p)
           \/ Bootstrap!Commit(p) \/ Bootstrap!CreateRun(p)
           \/ Bootstrap!Link(p) \/ Bootstrap!Fail(p)
<1>1. adoption \in [Handles -> Adoptions]
  BY DEF BootstrapInvariant, Adopting
<1>2. ASSUME NEW q \in Handles \ {p},
             \/ \E op \in Names : Bootstrap!Resolve(q, op)
             \/ \E time \in Times : Bootstrap!RecordInventory(q, time)
                                      \/ Bootstrap!RecordReadiness(q, time)
             \/ Bootstrap!Attest(q) \/ Bootstrap!Claim(q) \/ Bootstrap!Create(q)
             \/ Bootstrap!PinWorkspace(q) \/ Bootstrap!PinIndex(q) \/ Bootstrap!Verify(q)
      PROVE  adoption'[p] = adoption[p]
  BY <1>1, <1>2 DEF Bootstrap!Resolve, Bootstrap!RecordInventory, Bootstrap!RecordReadiness,
    Bootstrap!Attest, Bootstrap!Claim, Bootstrap!Create, Bootstrap!PinWorkspace,
    Bootstrap!PinIndex, Bootstrap!Verify, Bootstrap!Refuse, Bootstrap!End, Bootstrap!Goto
<1>3. ASSUME NEW q \in Handles \ {p},
             \/ Bootstrap!Reopen(q) \/ Bootstrap!BeginHandoff(q) \/ Bootstrap!Stage(q)
             \/ Bootstrap!Commit(q) \/ Bootstrap!CreateRun(q) \/ Bootstrap!Link(q)
             \/ Bootstrap!Fail(q)
      PROVE  adoption'[p] = adoption[p]
  BY <1>1, <1>3 DEF Bootstrap!Reopen, Bootstrap!BeginHandoff, Bootstrap!Stage,
    Bootstrap!Commit, Bootstrap!CreateRun, Bootstrap!Link, Bootstrap!Fail, Bootstrap!Refuse,
    Bootstrap!End, Bootstrap!Goto, Bootstrap!GuardedGoto, Bootstrap!Released
<1>4. ASSUME \/ \E f \in Files, c \in FileContents : Bootstrap!Save(f, c)
             \/ Bootstrap!StartChange \/ Bootstrap!Propose \/ Bootstrap!Activate
      PROVE  adoption' = adoption
  BY <1>4 DEF Bootstrap!Save, Bootstrap!StartChange, Bootstrap!Propose, Bootstrap!Activate
<1>5. \A op \in Names : ~Bootstrap!Resolve(p, op)
  BY DEF Bootstrap!Resolve
<1> QED BY <1>2, <1>3, <1>4, <1>5, BootstrapNames DEF Bootstrap!Next

\* A receipt is inserted where there is none, and nothing else is written to the tables.
LEMMA ReceiptsAreKept ==
    ASSUME BootstrapInvariant, Bootstrap!Next, NEW op \in Names
    PROVE  /\ inventoried[op] # None => inventoried'[op] = inventoried[op]
           /\ ready[op] # None => ready'[op] = ready[op]
<1>1. Rows
  BY DEF BootstrapInvariant
<1>2. ASSUME NEW p \in Handles,
             \/ \E o \in Names : Bootstrap!Resolve(p, o)
             \/ Bootstrap!Attest(p) \/ Bootstrap!Claim(p) \/ Bootstrap!Create(p)
             \/ Bootstrap!PinWorkspace(p) \/ Bootstrap!PinIndex(p) \/ Bootstrap!Verify(p)
             \/ Bootstrap!Reopen(p) \/ Bootstrap!BeginHandoff(p) \/ Bootstrap!Stage(p)
             \/ Bootstrap!Commit(p) \/ Bootstrap!CreateRun(p) \/ Bootstrap!Link(p)
             \/ Bootstrap!Fail(p)
      PROVE  UNCHANGED <<inventoried, ready>>
  BY <1>2 DEF Bootstrap!Resolve, Bootstrap!Attest, Bootstrap!Claim, Bootstrap!Create,
    Bootstrap!PinWorkspace, Bootstrap!PinIndex, Bootstrap!Verify, Bootstrap!Reopen,
    Bootstrap!BeginHandoff, Bootstrap!Stage, Bootstrap!Commit, Bootstrap!CreateRun,
    Bootstrap!Link, Bootstrap!Fail, Bootstrap!Refuse, Bootstrap!storeVars
<1>3. ASSUME \/ \E f \in Files, c \in FileContents : Bootstrap!Save(f, c)
             \/ Bootstrap!StartChange \/ Bootstrap!Propose \/ Bootstrap!Activate
      PROVE  UNCHANGED <<inventoried, ready>>
  BY <1>3 DEF Bootstrap!Save, Bootstrap!StartChange, Bootstrap!Propose, Bootstrap!Activate,
    Bootstrap!storeVars
<1>4. ASSUME NEW p \in Handles, NEW time \in Times, Bootstrap!RecordInventory(p, time)
      PROVE  /\ inventoried[op] # None => inventoried'[op] = inventoried[op]
             /\ UNCHANGED ready
  BY <1>1, <1>4 DEF Bootstrap!RecordInventory, Bootstrap!Refuse, Bootstrap!storeVars, Rows
<1>5. ASSUME NEW p \in Handles, NEW time \in Times, Bootstrap!RecordReadiness(p, time)
      PROVE  /\ ready[op] # None => ready'[op] = ready[op]
             /\ UNCHANGED inventoried
  BY <1>1, <1>5 DEF Bootstrap!RecordReadiness, Bootstrap!Refuse, Bootstrap!storeVars, Rows
<1> QED BY <1>2, <1>3, <1>4, <1>5, BootstrapNames DEF Bootstrap!Next

\* A bootstrap of application.py that is repeated over unchanged evidence is not refused
\* before the run has links of its own, and what it answers is durable and stays; whatever
\* rivals and processes that died have left at any of its places.
THEOREM RetriesConverge == RecordsSpec => ExactRetriesConverge
<1>1. Bootstrap!BootstrapAssumption
  BY RecordsAssumption DEF RecordsAssumption
<1>2. ASSUME BootstrapInvariant, Bootstrap!Next, NEW p \in Handles
      PROVE  /\ Bootstrap!Became(p, "answered") =>
                  /\ adoption[p].ownReceipt = inventoried[adoption[p].op]
                  /\ adoption[p].ownReadiness = ready[adoption[p].op]
             /\ Bootstrap!Became(p, "refused") =>
                  ~(Bootstrap!ExactRetry(p) /\ Bootstrap!IsPrefix(links, Bootstrap!LinkKinds))
  <2>1. ASSUME Bootstrap!Became(p, "answered")
        PROVE  /\ adoption[p].ownReceipt = inventoried[adoption[p].op]
               /\ adoption[p].ownReadiness = ready[adoption[p].op]
    <3>1. /\ adoption[p] # Bootstrap!Idle /\ adoption'[p] = Bootstrap!Idle
          /\ result'[p] = "answered"
      BY <2>1 DEF Bootstrap!Became
    <3>2. CASE Bootstrap!Link(p)
      BY <1>1, <1>2, <3>1, <3>2, LastLink
    <3>3. CASE ~Bootstrap!Link(p)
      <4>1. adoption \in [Handles -> Adoptions] /\ adoption'[p].at = "idle"
        BY <1>2, <3>1, IdleCall DEF BootstrapInvariant, Adopting
      <4>2. result \in [Handles -> {"none", "refused", "answered"}]
        BY <1>2 DEF BootstrapInvariant, Adopting
      <4>3. ASSUME Bootstrap!Refuse(p) \/ Bootstrap!Fail(p)
            PROVE  FALSE
        BY <3>1, <4>2, <4>3 DEF Bootstrap!Refuse, Bootstrap!Fail, Bootstrap!End
      <4>4. ASSUME NEW place \in Guarded, Bootstrap!GuardedGoto(p, place)
            PROVE  FALSE
        BY <1>2, <4>1, <4>4, GuardedGoing DEF Guarded
      <4>5. ASSUME NEW place \in Created, Bootstrap!Goto(p, place) \/ Bootstrap!Goto(p, "claim")
            PROVE  FALSE
        <5>1. place # "idle"
          BY DEF Created, Recorded, Guarded, Linking
        <5> QED BY <4>1, <4>5, <5>1 DEF Bootstrap!Goto, Adoptions
      <4>6. CASE \/ Bootstrap!Attest(p) \/ Bootstrap!Claim(p) \/ Bootstrap!Create(p)
                 \/ \E time \in Times : Bootstrap!RecordInventory(p, time)
                                          \/ Bootstrap!RecordReadiness(p, time)
        <5>1. /\ ~Bootstrap!Goto(p, "claim") /\ ~Bootstrap!Goto(p, "inventory")
              /\ ~Bootstrap!Goto(p, "pinWorkspace")
          BY <4>5 DEF Created, Recorded
        <5>2. CASE Bootstrap!Attest(p) \/ Bootstrap!Create(p)
                   \/ \E time \in Times : Bootstrap!RecordReadiness(p, time)
          BY <4>3, <5>1, <5>2 DEF Bootstrap!Attest, Bootstrap!Create,
            Bootstrap!RecordReadiness
        <5>3. CASE Bootstrap!Claim(p)
          BY <4>1, <4>3, <5>3 DEF Bootstrap!Claim, Adoptions
        <5>4. ASSUME NEW time \in Times, Bootstrap!RecordInventory(p, time)
              PROVE  FALSE
          BY <4>1, <4>3, <5>4 DEF Bootstrap!RecordInventory, Adoptions
        <5> QED BY <4>6, <5>2, <5>3, <5>4
      <4>7. CASE Bootstrap!PinWorkspace(p) \/ Bootstrap!PinIndex(p)
        BY <4>1, <4>3, <4>7 DEF Bootstrap!PinWorkspace, Bootstrap!PinIndex, Adoptions
      <4>8. CASE Bootstrap!Verify(p)
        <5>1. adoption[p].at \in Guarded
          BY <1>2, <4>8 DEF BootstrapInvariant, Stands, Attesting, Bootstrap!Verify
        <5>2. adoption' = [adoption EXCEPT ![p].checks = Tail(@)]
          BY <4>3, <4>8 DEF Bootstrap!Verify
        <5>3. adoption'[p].at = adoption[p].at
          BY <4>1, <5>2 DEF Adoptions
        <5> QED BY <4>1, <5>1, <5>3 DEF Guarded
      <4>9. CASE Bootstrap!Reopen(p) \/ Bootstrap!CreateRun(p)
        BY <4>1, <4>3, <4>9, BootstrapNames DEF Bootstrap!Reopen, Bootstrap!CreateRun,
          Bootstrap!Released, Adoptions
      <4>10. CASE Bootstrap!BeginHandoff(p) \/ Bootstrap!Stage(p) \/ Bootstrap!Commit(p)
        BY <4>3, <4>4, <4>10 DEF Bootstrap!BeginHandoff, Bootstrap!Stage, Bootstrap!Commit,
          Guarded
      <4> QED BY <1>1, <1>2, <3>1, <3>3, <4>3, <4>6, <4>7, <4>8, <4>9, <4>10,
            CallsEndThemselves
    <3> QED BY <3>2, <3>3
  <2>2. ASSUME Bootstrap!Became(p, "refused"), Bootstrap!ExactRetry(p),
               Bootstrap!IsPrefix(links, Bootstrap!LinkKinds)
        PROVE  FALSE
    <3>1. /\ adoption[p] # Bootstrap!Idle /\ adoption'[p] = Bootstrap!Idle
          /\ result'[p] = "refused" /\ adoption'[p].at = "idle"
      BY <2>2, IdleCall DEF Bootstrap!Became
    <3>2. Len(links) <= 4
      BY <2>2, BootstrapNames DEF Bootstrap!IsPrefix
    <3>3. ~Bootstrap!Link(p)
      BY <1>1, <1>2, <3>1, <3>2, LastLink
    <3>4. ~Bootstrap!Fail(p)
      BY <1>2, <3>1 DEF Bootstrap!Fail, Bootstrap!End, BootstrapInvariant, Adopting
    <3> QED BY <1>1, <1>2, <2>2, <3>1, <3>3, <3>4, CallsEndThemselves, RetriesRecord,
          RetriesHandOver
  <2> QED BY <2>1, <2>2
<1>3. BootstrapInvariant /\ [RecordsNext]_allVars =>
        [/\ \A p \in Handles :
               /\ Bootstrap!Became(p, "answered") =>
                    /\ adoption[p].ownReceipt = inventoried[adoption[p].op]
                    /\ adoption[p].ownReadiness = ready[adoption[p].op]
               /\ Bootstrap!Became(p, "refused") =>
                    ~(Bootstrap!ExactRetry(p)
                        /\ Bootstrap!IsPrefix(links, Bootstrap!LinkKinds))
         /\ \A op \in Names :
               /\ inventoried[op] # None => inventoried'[op] = inventoried[op]
               /\ ready[op] # None => ready'[op] = ready[op]]_Bootstrap!vars
  <2>1. UNCHANGED bootstrapVars => UNCHANGED Bootstrap!vars
    BY DEF bootstrapVars, Bootstrap!vars, Bootstrap!storeVars, Bootstrap!historyVars
  <2>2. [RecordsNext]_allVars => Bootstrap!Next \/ UNCHANGED bootstrapVars
    BY DEF RecordsNext, allVars
  <2> QED BY <1>2, <2>1, <2>2, ReceiptsAreKept
<1> QED BY <1>3, AdoptionInvariant, PTL
  DEF RecordsSpec, ExactRetriesConverge, Bootstrap!ExactRetriesConverge

=============================================================================
