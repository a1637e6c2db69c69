------------------------------ MODULE VaultSync ------------------------------
(* Synchronising the vault's notes into the SQLite index: sync/indexer.py,    *)
(* the transactions of storage/sqlite.py that it runs and, for the demo data, *)
(* the import of vectors of sync/load.py.                                     *)
(*                                                                            *)
(* Any process may run a sync at any time: nothing but the database's         *)
(* transactions keeps two apart.  An editor saves notes at any time, and a    *)
(* sync dies, or its embedder fails, between any two of its steps.  A hash is *)
(* the content it was taken of.  The rows that hang on a document (chunks,    *)
(* aliases, full text) are functions of its row; "records" are its claims,    *)
(* which tables key by the id that the note gives them, and its chunks.       *)
EXTENDS Integers, FiniteSets, FiniteSetsExt

CONSTANTS
    Syncs,        \* processes that run syncs
    NumNotes,     \* the vault's paths are 1 .. NumNotes, in walk order
    Contents,     \* what a file may hold that passes the gates of a note
    Kind,         \* Kind[c]: type and domain, which make the document's id
    Records,      \* Records[c]: the text of each record of the note, by id
    Saves,        \* Saves[p][c]: what an editor may make of file p when it holds c
    Sidecar,      \* Sidecar[r]: the vector of record r that the demo ships, [doc, text]
    Initial,      \* what the files hold at first, indexed before migration 003
    Absent,       \* no file
    Broken        \* what a file holds that fails the gates

Paths == 1..NumNotes

SyncAssumption == NumNotes \in Nat /\ {Absent, Broken} \cap Contents = {}

\* What the edits may be that a sync by hashes converges under.  Of each file, by age:
\* no content comes back once it was left.  Of what the files may hold: no two have a
\* record in common, and the sidecar's rows belong to the notes of their records.
EditsGoForward(age, held) ==
    LET Files == Contents \cup {Absent, Broken} IN
    /\ Initial \in [Paths -> Files] /\ held \in [Paths -> SUBSET Files]
    /\ age \in [Paths -> [Files -> Nat]]
    /\ \A p \in Paths :
        /\ Initial[p] \in held[p]
        /\ \A c \in held[p] : \A to \in Saves[p][c] :
            /\ to \in held[p] /\ age[p][c] <= age[p][to]
            /\ c \in Contents /\ to # c => age[p][c] < age[p][to]
    /\ \A p, q \in Paths : \A c \in held[p] \cap Contents, d \in held[q] \cap Contents :
        p # q => DOMAIN Records[c] \cap DOMAIN Records[d] = {}
    /\ \A r \in DOMAIN Sidecar :
        /\ Sidecar[r] = [doc |-> Sidecar[r].doc, text |-> Sidecar[r].text]
        /\ \A p \in Paths : \A c \in held[p] \cap Contents :
            r \in DOMAIN Records[c] => Sidecar[r].doc[2] = p

VARIABLES
    vault,        \* the files
    documents,    \* documents: [path, content, hash] by document id
    structural,   \* structural_records: the content they were derived from
    vectors,      \* embeddings and vec_records: [doc, text] by record id
    sync,         \* what each process does
    alone         \* history: nobody has written since it began its sync

vars == <<vault, documents, structural, vectors, sync, alone>>

IsNote(c) == c \in Contents

\* doc_id_for: a note that moves, or changes its type, is another document.
Doc(path, c) == <<Kind[c], path>>

Idle == [at |-> "idle", mode |-> "changed"]

\* A table with rows added or replaced, or without some.
Put(table, key, row) ==
    [k \in DOMAIN table \cup {key} |-> IF k = key THEN row ELSE table[k]]
Drop(table, keys) == [k \in DOMAIN table \ keys |-> table[k]]

Init ==
    /\ vault = Initial
    /\ documents = [d \in {Doc(p, vault[p]) : p \in {q \in Paths : IsNote(vault[q])}} |->
                        [path |-> d[2], content |-> vault[d[2]], hash |-> vault[d[2]]]]
    /\ structural = <<>>
    /\ vectors = <<>>
    /\ sync = [s \in Syncs |-> Idle]
    /\ alone = [s \in Syncs |-> FALSE]

-----------------------------------------------------------------------------
(* The world around the syncs.                                                *)

Save(p) ==
    /\ \E c \in Saves[p][vault[p]] : vault' = [vault EXCEPT ![p] = c]
    /\ alone' = [s \in Syncs |-> FALSE]
    /\ UNCHANGED <<documents, structural, vectors, sync>>

\* "done", "refused" by a constraint of a table, or "idle" after any other error.
End(s, at) ==
    sync' = [sync EXCEPT ![s] = IF at = "idle" THEN Idle ELSE [at |-> at, mode |-> @.mode]]

Running(s) == sync[s].at \notin {"idle", "done", "refused"}

\* The process dies, or the embedder, the disk or the lock timeout raises.
Crash(s) ==
    /\ Running(s)
    /\ End(s, "idle")
    /\ UNCHANGED <<vault, documents, structural, vectors, alone>>

-----------------------------------------------------------------------------
(* sync_vault: the walk hashes every file, then every note is read again.     *)

\* "load" is the demo's: a full sync without vectors, which come from a sidecar.
Begin(s, mode) ==
    /\ ~Running(s)
    /\ sync' = [sync EXCEPT ![s] = [at |-> "walk", mode |-> mode, next |-> 1,
                    todo |-> {}, kept |-> {}, hash |-> [p \in Paths |-> Absent],
                    note |-> [p \in Paths |-> Absent]]]
    /\ alone' = [t \in Syncs |-> t = s /\ \A u \in Syncs \ {s} : ~Running(u)]
    /\ UNCHANGED <<vault, documents, structural, vectors>>

Advance(s, state, here, there) ==
    sync' = [sync EXCEPT ![s] =
        IF state.next < NumNotes THEN [state EXCEPT !.at = here, !.next = @ + 1]
        ELSE [state EXCEPT !.at = there, !.next = 1]]

\* Files that fail the gate are skipped, as if they were not there.
Walk(s) ==
    /\ sync[s].at = "walk"
    /\ LET p == sync[s].next
           seen == IF IsNote(vault[p]) THEN vault[p] ELSE Absent
       IN  Advance(s, [sync[s] EXCEPT !.hash[p] = seen], "walk", "read")
    /\ UNCHANGED <<vault, documents, structural, vectors, alone>>

\* The file is opened again: it may be another one by now, or gone, which raises.
Read(s) ==
    /\ sync[s].at = "read"
    /\ LET p == sync[s].next IN
       IF sync[s].hash[p] # Absent /\ vault[p] = Absent THEN End(s, "idle")
       ELSE LET seen == IF sync[s].hash[p] # Absent /\ IsNote(vault[p])
                        THEN vault[p] ELSE Absent
            IN  Advance(s, [sync[s] EXCEPT !.note[p] = seen], "read", "compare")
    /\ UNCHANGED <<vault, documents, structural, vectors, alone>>

Prepared(s) == {p \in Paths : sync[s].note[p] # Absent}

\* The identity is the walk's, the rows are of what was read.
DocOf(s, p) == Doc(p, sync[s].hash[p])

Changed(s) ==
    {p \in Prepared(s) :
        \/ sync[s].mode # "changed"
        \/ DocOf(s, p) \notin DOMAIN documents
        \/ documents[DocOf(s, p)].hash # sync[s].hash[p]}

Compare(s) ==
    /\ sync[s].at = "compare"
    /\ sync[s].mode # "import"
    /\ sync' = [sync EXCEPT ![s].at = "upsert", ![s].todo = Changed(s),
                    ![s].kept = Prepared(s) \ Changed(s)]
    /\ UNCHANGED <<vault, documents, structural, vectors, alone>>

-----------------------------------------------------------------------------
(* upsert_document_with_structural, one transaction for each changed note.    *)

\* documents.rel_path is unique and claims.claim_id a key, whichever document the
\* row belongs to.
Constrained(d, p, c) ==
    \E e \in DOMAIN documents \ {d} :
        \/ documents[e].path = p
        \/ DOMAIN Records[documents[e].content] \cap DOMAIN Records[c] # {}

\* _drop_orphan_record_vectors
Orphans(d, c) ==
    {r \in DOMAIN vectors : vectors[r].doc = d /\ r \notin DOMAIN Records[c]}

Upsert(s) ==
    /\ sync[s].at = "upsert" /\ sync[s].todo # {}
    /\ LET p == Min(sync[s].todo)
           d == DocOf(s, p)
           c == sync[s].note[p]
       IN  IF Constrained(d, p, c)
           THEN End(s, "refused") /\ UNCHANGED <<documents, structural, vectors>>
           ELSE /\ documents' = Put(documents, d,
                        [path |-> p, content |-> c, hash |-> sync[s].hash[p]])
                /\ structural' = Put(structural, d, c)
                /\ vectors' = Drop(vectors, Orphans(d, c))
                /\ sync' = [sync EXCEPT ![s].todo = @ \ {p}]
    /\ UNCHANGED <<vault, alone>>

\* delete_documents_not_in; what belongs to a document goes with it.  Then come the
\* notes that had not changed.
Prune(s) ==
    /\ sync[s].at = "upsert" /\ sync[s].todo = {}
    /\ LET gone == {d \in DOMAIN documents : documents[d].path \notin Prepared(s)}
       IN  /\ documents' = Drop(documents, gone)
           /\ structural' = Drop(structural, gone)
           /\ vectors' = Drop(vectors, {r \in DOMAIN vectors : vectors[r].doc \in gone})
    /\ sync' = [sync EXCEPT ![s].at = "restructure", ![s].todo = sync[s].kept]
    /\ UNCHANGED <<vault, alone>>

\* replace_structural_records, a transaction each; a document that another sync has
\* deleted meanwhile fails its foreign key.
Restructure(s) ==
    /\ sync[s].at = "restructure" /\ sync[s].todo # {}
    /\ LET p == Min(sync[s].todo) IN
       IF DocOf(s, p) \in DOMAIN documents
       THEN /\ structural' = Put(structural, DocOf(s, p), sync[s].note[p])
            /\ sync' = [sync EXCEPT ![s].todo = @ \ {p}]
       ELSE End(s, "idle") /\ UNCHANGED structural
    /\ UNCHANGED <<vault, documents, vectors, alone>>

-----------------------------------------------------------------------------
(* Vectors, gated by the hash of each record's text.                          *)

\* Mutant of Units: only the notes that had changed are looked at.
UnitsOfChanged(s) ==
    [p \in Prepared(s) \ sync[s].kept |-> DOMAIN Records[sync[s].note[p]]]

\* Every current record, whatever had changed.
Units(s) == [p \in Prepared(s) |-> DOMAIN Records[sync[s].note[p]]]

UnitIds(s) == UNION {Units(s)[p] : p \in DOMAIN Units(s)}

\* A record that two notes have is the first one's.
Unit(s, r) ==
    LET p == Min({q \in DOMAIN Units(s) : r \in Units(s)[q]})
    IN  [doc |-> DocOf(s, p), text |-> Records[sync[s].note[p]][r]]

Fresh(s, r) == r \in DOMAIN vectors /\ vectors[r].text = Unit(s, r).text

\* needs_embedding; a metadata-only sync ends here and prepares the vault again, for
\* the hashes that a sidecar's rows must have.
Scan(s) ==
    /\ sync[s].at = "restructure" /\ sync[s].todo = {}
    /\ LET stale == {r \in UnitIds(s) : ~Fresh(s, r)} IN
       \/ /\ sync[s].mode = "load"
          /\ sync' = [sync EXCEPT ![s].mode = "import", ![s].at = "walk"]
       \/ /\ sync[s].mode # "load" /\ stale # {}
          /\ sync' = [sync EXCEPT ![s].at = "embed", ![s].todo = stale]
       \/ /\ sync[s].mode # "load" /\ stale = {}
          /\ End(s, "done")
    /\ UNCHANGED <<vault, documents, structural, vectors, alone>>

\* upsert_embeddings: one transaction, in which every document must exist.
Embed(s) ==
    /\ sync[s].at = "embed"
    /\ LET rows == [r \in sync[s].todo |-> Unit(s, r)] IN
       IF \A r \in DOMAIN rows : rows[r].doc \in DOMAIN documents
       THEN /\ vectors' = [r \in DOMAIN vectors \cup DOMAIN rows |->
                    IF r \in DOMAIN rows THEN rows[r] ELSE vectors[r]]
            /\ End(s, "done")
       ELSE End(s, "idle") /\ UNCHANGED vectors
    /\ UNCHANGED <<vault, documents, structural, alone>>

\* Mutant of Matching: the rows are imported blind.
MatchingAny(s) == DOMAIN Sidecar \cap UnitIds(s)

\* load_embeddings: rows of other texts, and of records that are gone, are skipped.
Matching(s) == {r \in DOMAIN Sidecar \cap UnitIds(s) : Sidecar[r].text = Unit(s, r).text}

Select(s) ==
    /\ sync[s].at = "compare" /\ sync[s].mode = "import"
    /\ sync' = [sync EXCEPT ![s].at = "import", ![s].todo = Matching(s)]
    /\ UNCHANGED <<vault, documents, structural, vectors, alone>>

\* Batches, here of one row, are transactions of their own.
Import(s) ==
    /\ sync[s].at = "import"
    /\ \/ /\ sync[s].todo = {}
          /\ End(s, "done")
          /\ UNCHANGED vectors
       \/ \E r \in sync[s].todo :
            IF Sidecar[r].doc \in DOMAIN documents
            THEN /\ vectors' = Put(vectors, r, Sidecar[r])
                 /\ sync' = [sync EXCEPT ![s].todo = @ \ {r}]
            ELSE End(s, "idle") /\ UNCHANGED vectors
    /\ UNCHANGED <<vault, documents, structural, alone>>

-----------------------------------------------------------------------------
Next ==
    \/ \E p \in Paths : Save(p)
    \/ \E s \in Syncs :
        \/ \E mode \in {"changed", "full", "load"} : Begin(s, mode)
        \/ Walk(s) \/ Read(s) \/ Compare(s) \/ Upsert(s) \/ Prune(s) \/ Restructure(s)
        \/ Scan(s) \/ Embed(s) \/ Select(s) \/ Import(s) \/ Crash(s)

Spec == Init /\ [][Next]_vars

-----------------------------------------------------------------------------
(* Properties.                                                                *)

Notes == {p \in Paths : IsNote(vault[p])}

\* The documents and their structural rows are those of the notes.
MirrorsNotes ==
    /\ documents = [d \in {Doc(p, vault[p]) : p \in Notes} |->
                        [path |-> d[2], content |-> vault[d[2]], hash |-> vault[d[2]]]]
    /\ structural = [d \in DOMAIN documents |-> documents[d].content]

\* Every record of every note has the vector of its text.
HasVectors ==
    \A p \in Notes : \A r \in DOMAIN Records[vault[p]] :
        r \in DOMAIN vectors
        /\ vectors[r] = [doc |-> Doc(p, vault[p]), text |-> Records[vault[p]][r]]

\* A sync that nobody disturbs ends with the documents of the notes and, unless it was
\* a metadata-only one, with their vectors: whichever syncs died before it, wherever,
\* whatever other syncs wrote out of old views of the vault, and however many notes
\* were edited under them.
UndisturbedSyncConverges ==
    \A s \in Syncs : sync[s].at = "done" /\ alone[s] =>
        MirrorsNotes /\ (sync[s].mode # "import" => HasVectors)

\* ARCHITECTURE.md's "without ever risking a stale vector silently entering the index":
\* a vector that an undisturbed sync writes is of the live text of a note that has a
\* document, whether it was computed or came from a sidecar of older texts.
NoStaleVectorEnters ==
    [][\A s \in Syncs : alone[s] => \A r \in DOMAIN vectors' :
        r \notin DOMAIN vectors \/ vectors'[r] # vectors[r] =>
            \E p \in Notes : /\ r \in DOMAIN Records[vault[p]]
                             /\ vectors'[r].text = Records[vault[p]][r]
                             /\ vectors'[r].doc \in DOMAIN documents]_vars

\* _drop_orphan_record_vectors is there because the vectors of records that a document
\* no longer has "occupy k-NN slots forever and hydrate to nothing": after an
\* incremental sync that nobody disturbs, there is none.  (A full sync and a load upsert
\* every note, changed or not, and so they drop the vectors that are left.)
NoOrphanVectors ==
    \A s \in Syncs : sync[s].at = "done" /\ alone[s] /\ sync[s].mode = "changed" =>
        DOMAIN vectors \subseteq UNION {DOMAIN Records[vault[p]] : p \in Notes}

\* docs/ARCHITECTURE.md says of the index that it is "rebuildable at any time from the
\* files with `mvault sync --full`": a full sync that nobody disturbs is not refused.
RebuildableFromFiles ==
    \A s \in Syncs :
        ~(sync[s].at = "refused" /\ alone[s] /\ sync[s].mode = "full")

=============================================================================
