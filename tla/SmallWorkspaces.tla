--------------------------- MODULE SmallWorkspaces ---------------------------
(* Small workspaces for TemporalAnalysis.  Document n comes on day 2 and can  *)
(* replace p of its family, there since day 1; d, e and h are of families of  *)
(* their own.  Every document but e and h has one claim, named after it with  *)
(* a digit, and n may have two.                                               *)
EXTENDS Naturals, FiniteSets, TLC

Owners == "n1" :> "n" @@ "n2" :> "n" @@ "p1" :> "p" @@ "q1" :> "q" @@ "f1" :> "f"
            @@ "d1" :> "d"

Days == "n" :> 2 @@ "p" :> 1 @@ "q" :> 0 @@ "f" :> 3 @@ "d" :> 1 @@ "e" :> 0 @@ "h" :> 0

Over(docs, claims, ends) ==
    [family |-> [d \in docs |-> IF d \in {"n", "p", "q", "f"} THEN "policy" ELSE d],
     logical |-> [d \in docs |-> d],
     from |-> [d \in docs |-> Days[d]],
     to |-> [d \in docs |-> IF d \in DOMAIN ends THEN {ends[d]} ELSE {}],
     owner |-> [c \in claims |-> Owners[c]],
     affects |-> [c \in claims |-> IF c \in {"n1", "n2"} THEN {"d"} ELSE {}]]

NoEnds == <<>>

\* Two claims of the incoming document on one older claim.
TwoClaims == Over({"n", "p", "d"}, {"n1", "n2", "p1", "d1"}, NoEnds)
Reaching(docs) == Over({"n", "p"} \cup docs, {"n1", "p1", "d1"}, NoEnds)
TwoVersions == [Reaching({"d", "e"}) EXCEPT !.logical["e"] = "d"]
TooMany == Over({"n", "p", "d", "e"}, {"n1", "n2", "p1", "d1"}, NoEnds)

\* The family has a version that p replaced, or one that is still to come.
WithOlder(ends) == Over({"n", "p", "q"}, {"n1", "p1", "q1"}, ends)
WithFuture == Over({"n", "p", "f"}, {"n1", "p1", "f1"}, NoEnds)

\* What p says ends on the day that n comes, or later.
Ending(day) == Over({"n", "p", "d"}, {"n1", "p1", "d1"}, "p" :> day)

SmallWorkspaces ==
    {TwoClaims, Reaching({"d"}), Reaching({"d", "e"}), Reaching({"d", "e", "h"}), TwoVersions,
     TooMany, WithOlder("q" :> 1), WithOlder("q" :> 2), WithFuture, Ending(2), Ending(3)}
=============================================================================
