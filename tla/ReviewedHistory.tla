-------------------------- MODULE ReviewedHistory --------------------------
(***************************************************************************)
(* What the change-control store promises its callers, without tables:     *)
(* every aggregate is a growing sequence of contents, an operation id      *)
(* takes effect at most once, and the status of a subject leaves           *)
(* "proposed" only by the judgement of a reviewer, and never again.        *)
(***************************************************************************)
EXTENDS Naturals, Sequences

CONSTANTS Aggregates, Operations, Subjects, SubjectStates, Absent

VARIABLES
    history,    \* the contents of every aggregate, oldest first
    used        \* the operation ids that have taken effect

vars == <<history, used>>

Contents == [Subjects -> SubjectStates]

Reviewed(s) == s.status \in {"accepted", "rejected"}

Latest(a) ==
    IF history[a] = <<>> THEN [s \in Subjects |-> Absent]
                         ELSE history[a][Len(history[a])]

Init ==
    /\ history = [a \in Aggregates |-> <<>>]
    /\ used = {}

Extend(op, a, content) ==
    /\ op \notin used
    /\ used' = used \cup {op}
    /\ history' = [history EXCEPT ![a] = Append(@, content)]

\* An ordinary write adds content of its own and respects every review.
Propose(op, a, content) ==
    /\ Extend(op, a, content)
    /\ \A s \in Subjects :
        (Reviewed(content[s]) \/ Reviewed(Latest(a)[s])) => content[s] = Latest(a)[s]

\* A decision reviews some proposals and leaves everything else as it was.
Review(op, a, content) ==
    /\ Extend(op, a, content)
    /\ content # Latest(a)
    /\ \A s \in Subjects :
        \/ content[s] = Latest(a)[s]
        \/ Latest(a)[s].status = "proposed" /\ Reviewed(content[s])

\* An operation that records itself and changes no content.
Observe(op) ==
    /\ op \notin used
    /\ used' = used \cup {op}
    /\ UNCHANGED history

\* In a step that does anything, one more operation takes effect.
Next ==
    \E op \in Operations \cap (used' \ used) :
        \/ Observe(op)
        \/ \E a \in Aggregates, content \in Contents :
            Propose(op, a, content) \/ Review(op, a, content)

Spec == Init /\ [][Next]_vars

=============================================================================
