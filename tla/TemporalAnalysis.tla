-------------------------- MODULE TemporalAnalysis --------------------------
(***************************************************************************)
(* What one change is analysed, reviewed and followed up as: the pipeline  *)
(* of application_start_lifecycle.py and application_downstream.py from    *)
(* the analysis aggregate (revision 2) over the proposal (3) and the       *)
(* review (4) to the questions about its impact, with the rules of         *)
(* discovery, classification, dependency analysis, temporal proposal,      *)
(* temporal resolution and impact analysis.                                *)
(*                                                                         *)
(* The answers of the model that classifies pairs and dependencies are any *)
(* that validate, and the reviewer may decide every subject either way.    *)
(* Files, batches and crashes are those of EvidenceBatches and             *)
(* StartLifecycle: here a stage that refuses refuses on every retry, since *)
(* it finds the same evidence.                                             *)
(***************************************************************************)
EXTENDS Naturals, FiniteSets

CONSTANTS
    Workspaces,     \* the documents, dates and claims a run can start from
    Incoming,       \* the incoming document of the change
    Rationales,     \* what may be said of a dependency
    MaxHops,        \* MAX_RELATION_HOPS_V1
    MaxDepth,       \* MAX_DEPENDENCY_DEPTH_V1
    MaxCandidates,  \* MAX_DEPENDENCY_CANDIDATES_V1
    MaxShards,      \* MAX_DEPENDENCY_DOCUMENT_SHARDS_V1
    MaxQuestions,   \* MAX_IMPACT_QUESTIONS_V1
    MaxTargets      \* MAX_IMPACT_DOCUMENT_SHARDS_V1

VARIABLES
    workspace,  \* documents and claims, the incoming ones among them
    phase,      \* how far the run has come
    graph,      \* the assessment of each pair of a changed and another claim
    answers,    \* what was said of each dependency candidate
    status,     \* of the proposed replacement and temporal constraints
    workload    \* the impact questions and the pairs that are excluded

vars == <<workspace, phase, graph, answers, status, workload>>

-----------------------------------------------------------------------------
(* Documents, claims and dates.                                            *)

Documents == DOMAIN workspace.family
Claims == DOMAIN workspace.owner
Doc(c) == workspace.owner[c]
ClaimsOf(d) == {c \in Claims : Doc(c) = d}
From(d) == workspace.from[d]
SameFamily(d, e) == workspace.family[d] = workspace.family[e]

Changed == ClaimsOf(Incoming)

\* The analysis is made as of the day the incoming document takes effect.
AsOf == From(Incoming)

Scopes(c) == {workspace.family[Doc(c)]} \cup workspace.affects[c]

\* A workspace dates its documents, days being numbered, and every claim has its
\* document.
AnalysisAssumption ==
    /\ \A w \in Workspaces :
        /\ IsFiniteSet(DOMAIN w.family) /\ Incoming \in DOMAIN w.family
        /\ DOMAIN w.from = DOMAIN w.family /\ DOMAIN w.to = DOMAIN w.family
        /\ DOMAIN w.logical = DOMAIN w.family
        /\ \A d \in DOMAIN w.family :
            /\ w.from[d] \in Nat /\ Cardinality(w.to[d]) <= 1
            /\ \A t \in w.to[d] : t \in Nat /\ t > w.from[d]
        /\ \A c \in DOMAIN w.owner : w.owner[c] \in DOMAIN w.family
        /\ DOMAIN w.affects = DOMAIN w.owner
    /\ MaxDepth \in Nat \ {0} /\ MaxHops \in Nat

\* Mutant of Resolve: a declared end goes before an inferred one.
ResolveDeclaredFirst(d, bounds) ==
    LET ends == IF workspace.to[d] # {} THEN workspace.to[d] ELSE bounds
    IN IF AsOf < From(d) THEN "future"
       ELSE IF \E e \in ends : e <= AsOf
            THEN IF bounds # {} THEN "historical" ELSE "expired"
       ELSE "current"

\* The state of document d, or of a claim of it, with the ends that accepted
\* constraints infer for it.  Claims have the dates of their document, and of
\* a document that declares no end, the set of its ends is empty.
Resolve(d, bounds) ==
    LET declared == workspace.to[d]
    IN IF \/ Cardinality(bounds) > 1
          \/ \E b \in bounds : b <= From(d)
          \/ bounds # {} /\ declared # {} /\ bounds # declared
       THEN "unresolved"
       ELSE IF AsOf < From(d) THEN "future"
       ELSE IF \E e \in bounds \cup declared : e <= AsOf
            THEN IF bounds # {} THEN "historical" ELSE "expired"
       ELSE "current"

\* The documents that the incoming one can replace.
Predecessors ==
    {d \in Documents \ {Incoming} :
        SameFamily(d, Incoming) /\ Resolve(d, {}) = "current"}

-----------------------------------------------------------------------------
(* Relations between claims.                                               *)

\* generate_relationship_candidates pairs every changed claim with every other.
Pairs == Changed \X (Claims \ Changed)

\* What a pair may be assessed as: an edge only within a family, SUPERSEDES
\* only from strictly newer to older.  Pairs of a family share its scope, so
\* they are always selected; of the others some stay open, because they are
\* not selected or because what is said of them is advice only.
Assessments(p) ==
    IF SameFamily(Doc(p[1]), Doc(p[2]))
    THEN {"contradicts", "none"} \cup
            {s \in {"supersedes"} : From(Doc(p[1])) # From(Doc(p[2]))}
    ELSE {"none", "open"}

Edges == {p \in Pairs : graph[p] \in {"supersedes", "contradicts"}}

\* The changed claims' edges to older ones, which may close what they replace.
Governing ==
    {p \in Pairs : graph[p] = "supersedes" /\ From(Doc(p[1])) > From(Doc(p[2]))}

-----------------------------------------------------------------------------
(* Dependencies of documents on claims.                                    *)

\* Every document but the incoming one is asked about every governing edge,
\* unless the older claim is its own.
Candidates ==
    {k \in (Documents \ {Incoming}) \X Governing : k[1] # Doc(k[2][2])}

\* Quotes, implementations and summaries are treated alike.
Kinds == {"operative", "historical-reference"}

NotDependent == [kind |-> "not-dependent"]
Answers(d) ==
    {NotDependent} \cup
        [kind : Kinds, exposed : SUBSET ClaimsOf(d), rationale : Rationales]

\* One semantic dependency for each document, older claim and kind.
Dependencies ==
    {[doc |-> k[1], upstream |-> k[2][2], answer |-> answers[k]] :
        k \in {j \in DOMAIN answers : answers[j] # NotDependent}}

Conflicting(x, y) ==
    /\ x.doc = y.doc /\ x.upstream = y.upstream
    /\ x.answer.kind = y.answer.kind /\ x.answer # y.answer

-----------------------------------------------------------------------------
(* The aggregate of revision 4.                                            *)

Statuses == {"accepted", "rejected"}
Accepted == {g \in DOMAIN status.claims : status.claims[g] = "accepted"}

\* An accepted constraint infers the day the newer claim takes effect.
ClaimState(c) == Resolve(Doc(c), {From(Doc(g[1])) : g \in {h \in Accepted : h[2] = c}})
DocumentState(d) ==
    Resolve(d, {AsOf : x \in {p \in Predecessors : p = d /\ status.document = "accepted"}})

-----------------------------------------------------------------------------
(* Which documents a change reaches.                                       *)

Edge(c, e) == IF c \in Changed THEN <<c, e>> ELSE <<e, c>>

\* The claims within so many hops of claim start, each with the edges of one
\* shortest path to it (the code takes the least, by content hashes).
RelationPaths(start, hops) ==
    LET Within[n \in 0..hops] ==
        IF n = 0 THEN [c \in {start} |-> {}]
        ELSE LET last == Within[n - 1]
                 Before(e) == {c \in DOMAIN last : Edge(c, e) \in Edges}
                 next == {e \in Claims \ DOMAIN last : Before(e) # {}}
             IN [e \in DOMAIN last \cup next |->
                    IF e \in next
                    THEN LET c == CHOOSE c \in Before(e) : TRUE
                         IN last[c] \cup {Edge(c, e)}
                    ELSE last[e]]
    IN Within[hops]

\* A changed claim, and the incumbent of an open pair that shares a scope.
Anchors ==
    {[changed |-> c, start |-> c] : c \in Changed} \cup
    {[changed |-> p[1], start |-> p[2]] :
        p \in {q \in Pairs : graph[q] = "open" /\ Scopes(q[1]) \cap Scopes(q[2]) # {}}}

\* The claims that so many steps from dependency to dependent expose.
Exposed(c, steps) ==
    LET Within[n \in 0..steps] ==
        IF n = 0 THEN {c}
        ELSE Within[n - 1] \cup
                UNION {x.answer.exposed : x \in {y \in Dependencies : y.upstream \in Within[n - 1]}}
    IN Within[steps]

AttentionPaths ==
    UNION {LET paths == RelationPaths(a.start, MaxHops) IN
        {[changed |-> a.changed, relations |-> paths[l[1]], from |-> l[1], dependency |-> l[2]] :
            l \in {m \in (DOMAIN paths) \X Dependencies :
                    m[2].upstream \in Exposed(m[1], MaxDepth - 1)}} : a \in Anchors}

\* Ranking refuses what lies beyond its limits, rather than to cut it off.
BeyondLimits ==
    \E a \in Anchors :
        LET paths == RelationPaths(a.start, MaxHops) IN
        \/ DOMAIN RelationPaths(a.start, MaxHops + 1) # DOMAIN paths
        \/ \E c \in DOMAIN paths, x \in Dependencies :
            x.upstream \in Exposed(c, MaxDepth) \ Exposed(c, MaxDepth - 1)

Relevant(path, g) ==
    /\ path.changed = g[1]
    /\ (g \in path.relations \/ path.from \in {g[1], g[2]})

Attention(g, d) ==
    LET kinds == {path.dependency.answer.kind : path \in
                    {p \in AttentionPaths : p.dependency.doc = d /\ Relevant(p, g)}}
    IN IF kinds = {} THEN "unreached"
       ELSE IF "operative" \in kinds THEN "ranked" ELSE "discovery-excluded"

-----------------------------------------------------------------------------
(* The questions about the impact of what was accepted.                    *)

\* Mutant of Excluded: the changed document is a target like any other.
ExcludedByState(g, d) == d = Doc(g[2]) \/ DocumentState(d) # "current"

Excluded(g, d) == d = Incoming \/ d = Doc(g[2]) \/ DocumentState(d) # "current"

Asked == {k \in Accepted \X Documents : ~Excluded(k[1], k[2])}
Targets == {k[2] : k \in Asked}

\* Why build_impact_workload raises.
CannotBuild ==
    \/ \E g \in Accepted : ClaimState(g[1]) # "current" \/ ClaimState(g[2]) # "historical"
    \/ BeyondLimits
    \/ Cardinality(Asked) > MaxQuestions \/ Cardinality(Targets) > MaxTargets
    \/ \E d, e \in Targets : d # e /\ workspace.logical[d] = workspace.logical[e]

-----------------------------------------------------------------------------
(* The run.                                                                *)

NoStatus == [replacement |-> "absent", document |-> "absent", claims |-> <<>>]
NoWorkload == [questions |-> {}, excluded |-> {}]

Init ==
    /\ workspace \in Workspaces
    /\ phase = "analysis" /\ graph = <<>> /\ answers = <<>>
    /\ status = NoStatus /\ workload = NoWorkload

Classify ==
    /\ phase = "analysis"
    /\ graph' \in {g \in [Pairs -> UNION {Assessments(p) : p \in Pairs}] :
                    \A p \in Pairs : g[p] \in Assessments(p)}
    /\ phase' = "classified"
    /\ UNCHANGED <<workspace, answers, status, workload>>

\* Without a governing edge the run ends with its evidence.
EndUnchanged ==
    /\ phase = "classified"
    /\ Cardinality(Predecessors) = 1 /\ Governing = {}
    /\ phase' = "no-change"
    /\ UNCHANGED <<workspace, graph, answers, status, workload>>

Analysable ==
    /\ Cardinality(Predecessors) = 1
    /\ Cardinality(Candidates) <= MaxCandidates
    /\ Cardinality({k[1] : k \in Candidates}) <= MaxShards

Analyse ==
    /\ phase = "classified" /\ Governing # {} /\ Analysable
    /\ answers' \in {a \in [Candidates -> UNION {Answers(d) : d \in Documents}] :
                        \A k \in Candidates : a[k] \in Answers(k[1])}
    /\ phase' = "analysed"
    /\ UNCHANGED <<workspace, graph, status, workload>>

\* The replacement needs an edge to the very document it replaces, and two
\* answers about one semantic dependency have to be the same.
Proposable ==
    /\ \E g \in Governing : Doc(g[2]) \in Predecessors
    /\ \A x, y \in Dependencies : ~Conflicting(x, y)

Propose ==
    /\ phase = "analysed" /\ Proposable
    /\ status' = [replacement |-> "proposed", document |-> "proposed",
                  claims |-> [g \in Governing |-> "proposed"]]
    /\ phase' = "proposed"
    /\ UNCHANGED <<workspace, graph, answers, workload>>

\* A stage before the review raises, and so does every retry of it.
Refuse ==
    /\ \/ phase = "classified" /\ ~Analysable
       \/ phase = "analysed" /\ ~Proposable
    /\ phase' = "refused"
    /\ UNCHANGED <<workspace, graph, answers, status, workload>>

\* The bound of the document is accepted with its replacement only.
Decide ==
    /\ phase = "proposed"
    /\ \E r, d \in Statuses, c \in [Governing -> Statuses] :
        /\ d = "accepted" => r = "accepted"
        /\ status' = [replacement |-> r, document |-> d, claims |-> c]
    /\ phase' = "decided"
    /\ UNCHANGED <<workspace, graph, answers, workload>>

\* Work goes on downstream if anything was accepted.
AnyAccepted == status.replacement = "accepted" \/ Accepted # {}

BuildImpact ==
    /\ phase = "decided" /\ AnyAccepted
    /\ IF CannotBuild
       THEN phase' = "stuck" /\ UNCHANGED workload
       ELSE /\ phase' = "built"
            /\ workload' =
                [questions |-> {[change |-> k[1], target |-> k[2],
                                 attention |-> Attention(k[1], k[2])] : k \in Asked},
                 excluded |-> (Accepted \X Documents) \ Asked]
    /\ UNCHANGED <<workspace, graph, answers, status>>

Next ==
    \/ Classify \/ EndUnchanged \/ Analyse \/ Propose \/ Refuse \/ Decide \/ BuildImpact

Spec == Init /\ [][Next]_vars

-----------------------------------------------------------------------------
(* Properties.                                                             *)

\* Every question of the impact was put to the dependency analysis before the
\* review, so the limit that the analysis kept is kept by the questions; and a
\* current document that was found to depend on a claim whose supersession was
\* accepted is asked about it, whichever way attention reached it, and ranked
\* unless it only refers to it as history.
QuestionsMatchTheAnalysis ==
    phase = "built" =>
        /\ \A q \in workload.questions : <<q.target, q.change>> \in DOMAIN answers
        /\ \A x \in Dependencies, g \in Accepted :
            x.upstream = g[2] /\ DocumentState(x.doc) = "current" =>
                \E q \in workload.questions :
                    /\ q.change = g /\ q.target = x.doc
                    /\ q.attention # "unreached"
                    /\ x.answer.kind = "operative" => q.attention = "ranked"

\* What was superseded with the reviewer's consent is never current beside what
\* supersedes it, and what the reviewer did not touch is what its dates say.
StatesFollowTheDecision ==
    /\ \A g \in Accepted : ClaimState(g[1]) = "current" /\ ClaimState(g[2]) # "current"
    /\ \A c \in Claims : ClaimState(c) # Resolve(Doc(c), {}) =>
        \E g \in Accepted : g[2] = c /\ graph[g] = "supersedes" /\ From(Doc(c)) < AsOf
    /\ \A d \in Documents : DocumentState(d) # Resolve(d, {}) =>
        status.replacement = "accepted" /\ SameFamily(d, Incoming) /\ From(d) < AsOf

\* "Every accepted governing change is crossed with every revision-4 document,
\* leaving each pair either selected or ledgered" (change_control/README.md).
AcceptedChangesAreCrossed ==
    phase \in {"built", "stuck"} =>
        Accepted \X Documents \subseteq
            workload.excluded \cup {<<q.change, q.target>> : q \in workload.questions}

=============================================================================
