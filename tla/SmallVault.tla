----------------------------- MODULE SmallVault -----------------------------
(* A vault of two notes for VaultSync: the first is edited forward, broken,   *)
(* deleted or moved, the second comes.                                        *)
EXTENDS TLC

SmallContents == {"a1", "a2", "b1"}
SmallKind == [c \in SmallContents |-> "source"]

\* a2 has another text for r1, and r2 no more.
SmallRecords ==
    "a1" :> ("r1" :> "old" @@ "r2" :> "lost") @@ "a2" :> ("r1" :> "new")
        @@ "b1" :> ("r3" :> "text")
SmallSidecar ==
    "r1" :> [doc |-> <<"source", 1>>, text |-> "old"]
        @@ "r3" :> [doc |-> <<"source", 2>>, text |-> "text"]

Files == SmallContents \cup {"absent", "broken"}
Forward ==
    <<[c \in Files |-> CASE c = "a1" -> {"a2", "broken"}
                        [] c = "broken" -> {"a2", "absent"}
                        [] OTHER -> {}],
      [c \in Files |-> IF c = "absent" THEN {"b1"} ELSE {}]>>

\* Why the edits of Forward go forward: contents by age, and what each file may hold.
ForwardAge ==
    <<"a1" :> 0 @@ "broken" :> 1 @@ "a2" :> 3 @@ "absent" :> 2 @@ "b1" :> 0,
      "absent" :> 0 @@ "b1" :> 1 @@ [c \in {"a1", "a2", "broken"} |-> 0]>>
ForwardHeld == <<{"a1", "a2", "broken", "absent"}, {"absent", "b1"}>>

Moved ==
    <<[c \in Files |-> IF c = "a1" THEN {"absent"} ELSE {}],
      [c \in Files |-> IF c = "absent" THEN {"a1"} ELSE {}]>>
FirstOnly == <<"a1", "absent">>
=============================================================================
