---------------------- MODULE DownstreamLifecycleProofs ----------------------
(* What TLAPS proves of DownstreamLifecycle: for any clients, documents and    *)
(* crashes, the status of a run can always be read and a listing except        *)
(* between an activation's receipt and its link, the first decision stands,    *)
(* phases only move forward and a rejection has no effects.  The argument:     *)
(* rows and links only grow, every one of them rests on an earlier one, and a  *)
(* client that still has writes to do submitted the decision that allows them. *)
EXTENDS DownstreamLifecycle, SequenceTheorems, TLAPS

Recordings(stage) ==
    {<<"ask", stage>>, <<"record", stage>>, <<stage, "evidence">>, <<stage, "index">>,
     <<"link", stage>>}

\* The writes after an accepted temporal decision.
Advances ==
    Recordings("impact") \cup Recordings("planning")
        \cup (IF NoWork THEN {} ELSE {<<"open", "managed">>, <<"link", "managed-request">>})
Steps ==
    Recordings("impact") \cup Recordings("planning")
        \cup {<<"open", "managed">>, <<"activate", "run">>,
              <<"decide", "temporal">>, <<"decide", "managed">>}
        \cup ({"link"} \X Kinds)
Elements(s) == {s[i] : i \in 1..Len(s)}

TypeInv ==
    /\ work \in Works
    /\ decided \in [{"temporal", "managed"} -> Documents \cup {None}]
    /\ \A s \in {"temporal", "managed"} : decided[s] # None => decided[s].stage = s
    /\ opened \in BOOLEAN
    /\ receipt \in {d.op : d \in Documents} \cup {None}
    /\ links \subseteq Kinds /\ files \subseteq Evidence
    /\ call \in [Stages -> {"free", "claimed", "recorded"}]
    /\ noops \subseteq {d.op : d \in Documents}
    /\ client \in [Clients -> [document : Documents \cup {None}, todo : Seq(Steps)]]
    /\ crashes \in 0..MaxCrashes

\* Work was asked for, recorded, linked or opened for review.
Advanced ==
    \/ links \cap {"impact", "planning", "managed-request"} # {}
    \/ opened \/ files # {} \/ \E s \in Stages : call[s] # "free"

\* What every row and link rests on.
Founded ==
    /\ "temporal-decision" \in links => decided["temporal"] # None
    /\ Advanced => "temporal-decision" \in links /\ Accepted("temporal")
    /\ opened => ~NoWork
    /\ "managed-request" \in links => opened
    /\ decided["managed"] # None => opened /\ "managed-request" \in links
    /\ "managed-decision" \in links => decided["managed"] # None
    /\ receipt # None => Accepted("managed")
    /\ "activation" \in links => receipt # None

\* An operation was claimed for a run that ended without effects.
Ended ==
    \/ NoWork
    \/ \E s \in {"temporal", "managed"} : decided[s] # None /\ ~Accepted(s)

Reviewing(d, todo) ==
    \/ todo = Plan(d)
    \/ decided["temporal"] = d /\ todo = Tail(Plan(d))
    \/ /\ decided["temporal"] = d /\ d.accept /\ "temporal-decision" \in links
       /\ Elements(todo) \subseteq Advances
Approving(d, todo) ==
    /\ opened /\ "managed-request" \in links
    /\ \/ todo = Plan(d)
       \/ decided["managed"] = d /\ todo = Tail(Plan(d))
Activating(d, todo) ==
    \/ todo = Plan(d) /\ Accepted("managed")
    \/ receipt # None /\ todo = Tail(Plan(d))

\* A client that has writes left submitted a document that allows them.
AtPlace(d, todo) ==
    /\ d \in Documents /\ todo # <<>>
    /\ d.stage = "temporal" => Reviewing(d, todo)
    /\ d.stage = "managed" => Approving(d, todo)
    /\ d.stage = "activate" => Activating(d, todo)
AtItsPlace(c) == client[c] # Idle => AtPlace(client[c].document, client[c].todo)

Inv ==
    /\ TypeInv
    /\ Founded
    /\ noops # {} => Ended
    /\ \A c \in Clients : AtItsPlace(c)

-----------------------------------------------------------------------------
(* Sequences of writes.                                                      *)

LEMMA RestOf ==
    ASSUME NEW S, NEW s \in Seq(S), s # <<>>
    PROVE  /\ Len(s) \in Nat \ {0} /\ Head(s) = s[1] /\ Tail(s) \in Seq(S)
           /\ Len(Tail(s)) = Len(s) - 1
           /\ \A i \in 1..Len(s) - 1 : Tail(s)[i] = s[i + 1]
           /\ Len(s) # 1 => Tail(s) # <<>>
<1>1. Len(<<>>) = 0
  OBVIOUS
<1>2. /\ Len(s) \in Nat \ {0} /\ Head(s) = s[1] /\ Tail(s) \in Seq(S)
      /\ Len(Tail(s)) = Len(s) - 1
      /\ \A i \in 1..Len(Tail(s)) : Tail(s)[i] = s[i + 1]
  OBVIOUS
<1>3. \A i \in 1..Len(s) - 1 : Tail(s)[i] = s[i + 1]
  BY <1>2
<1>4. Len(s) # 1 => Tail(s) # <<>>
  BY <1>1, <1>2
<1> QED BY <1>2, <1>3, <1>4

LEMMA TwoAndMore ==
    ASSUME NEW S, NEW two \in Seq(S), Len(two) = 2, NEW more \in Seq(S)
    PROVE  LET s == two \o more
           IN  /\ s \in Seq(S) /\ s # <<>> /\ Head(s) = two[1]
               /\ Tail(s) \in Seq(S) /\ Tail(s) # <<>> /\ Head(Tail(s)) = two[2]
               /\ Len(s) = Len(more) + 2 /\ Len(Tail(s)) = Len(more) + 1
               /\ Tail(Tail(s)) \in Seq(S)
               /\ Elements(Tail(Tail(s))) \subseteq Elements(more)
<1> DEFINE s == two \o more
           t == Tail(s)
           u == Tail(t)
<1>1. /\ s \in Seq(S) /\ Len(s) = Len(more) + 2 /\ Len(more) \in Nat
      /\ \A i \in 1..Len(more) + 2 : s[i] = IF i <= 2 THEN two[i] ELSE more[i - 2]
  <2>1. /\ two \o more \in Seq(S) /\ Len(two \o more) = Len(two) + Len(more)
        /\ \A i \in 1..Len(two) + Len(more) :
             (two \o more)[i] = IF i <= Len(two) THEN two[i] ELSE more[i - Len(two)]
    BY ConcatProperties
  <2>2. Len(more) \in Nat /\ Len(two) + Len(more) = Len(more) + 2
    OBVIOUS
  <2> QED BY <2>1, <2>2
<1> HIDE DEF s
<1>2. Len(<<>>) = 0
  OBVIOUS
<1>3. s # <<>>
  BY <1>1, <1>2
<1>4. /\ t \in Seq(S) /\ Len(t) = Len(s) - 1 /\ Head(s) = s[1]
      /\ \A i \in 1..Len(s) - 1 : t[i] = s[i + 1]
  BY <1>1, <1>3, RestOf
<1> HIDE DEF t
<1>5. t # <<>>
  BY <1>1, <1>2, <1>4
<1>6. /\ u \in Seq(S) /\ Len(u) = Len(t) - 1 /\ Head(t) = t[1]
      /\ \A i \in 1..Len(t) - 1 : u[i] = t[i + 1]
  BY <1>4, <1>5, RestOf
<1> HIDE DEF u
<1>7. Len(s) - 1 = Len(more) + 1 /\ Len(t) - 1 = Len(more)
  BY <1>1, <1>4
<1>8. s[1] = two[1] /\ t[1] = two[2]
  BY <1>1, <1>4, <1>7
<1>9. ASSUME NEW i \in 1..Len(more)
      PROVE  u[i] = more[i]
  <2>1. u[i] = t[i + 1] /\ t[i + 1] = s[i + 2]
    BY <1>1, <1>4, <1>6, <1>7
  <2>2. s[i + 2] = more[i]
    BY <1>1
  <2> QED BY <2>1, <2>2
<1>10. Elements(u) \subseteq Elements(more)
  BY <1>6, <1>7, <1>9 DEF Elements
<1> QED BY <1>1, <1>3, <1>4, <1>5, <1>6, <1>7, <1>8, <1>10 DEF u, t, s

LEMMA ElementsOf ==
    ASSUME NEW S, NEW s \in Seq(S)
    PROVE  Elements(s) \subseteq S
BY DEF Elements

LEMMA FirstAndRest ==
    ASSUME NEW S, NEW s \in Seq(S), s # <<>>
    PROVE  /\ Head(s) \in Elements(s) /\ Head(s) \in S
           /\ Tail(s) \in Seq(S) /\ Elements(Tail(s)) \subseteq Elements(s)
           /\ Len(s) # 1 => Tail(s) # <<>>
<1>1. /\ Len(s) \in Nat \ {0} /\ Head(s) = s[1] /\ Tail(s) \in Seq(S)
      /\ Len(Tail(s)) = Len(s) - 1
      /\ \A i \in 1..Len(Tail(s)) : Tail(s)[i] = s[i + 1] /\ i + 1 \in 1..Len(s)
  OBVIOUS
<1>2. s[1] \in S
  BY <1>1
<1>3. Len(<<>>) = 0
  OBVIOUS
<1> QED BY <1>1, <1>2, <1>3 DEF Elements

LEMMA OneAndRest ==
    ASSUME NEW S, NEW one \in Seq(S), Len(one) = 1, NEW s \in Seq(S)
    PROVE  /\ one \o s \in Seq(S) /\ one \o s # <<>>
           /\ Elements(one \o s) \subseteq Elements(s) \cup {one[1]}
<1> DEFINE t == one \o s
<1>1. /\ t \in Seq(S) /\ Len(t) = Len(s) + 1 /\ Len(s) \in Nat
      /\ \A i \in 1..Len(s) + 1 : t[i] = IF i <= 1 THEN one[i] ELSE s[i - 1]
  <2>1. /\ one \o s \in Seq(S) /\ Len(one \o s) = Len(one) + Len(s)
        /\ \A i \in 1..Len(one) + Len(s) :
             (one \o s)[i] = IF i <= Len(one) THEN one[i] ELSE s[i - Len(one)]
    BY ConcatProperties
  <2>2. Len(s) \in Nat /\ Len(one) + Len(s) = Len(s) + 1
    OBVIOUS
  <2> QED BY <2>1, <2>2
<1> HIDE DEF t
<1>2. Len(<<>>) = 0
  OBVIOUS
<1>3. t # <<>>
  BY <1>1, <1>2
<1>4. Elements(t) \subseteq Elements(s) \cup {one[1]}
  BY <1>1 DEF Elements
<1> QED BY <1>1, <1>3, <1>4 DEF t

-----------------------------------------------------------------------------
(* The writes of a document.                                                 *)

LEMMA AdvancesAreSteps == Advances \subseteq Steps
BY DEF Advances, Steps, Recordings, Kinds

LEMMA RecordedSequence ==
    ASSUME NEW stage
    PROVE  /\ Recorded(stage) \in Seq(Recordings(stage))
           /\ Tail(Recorded(stage)) \in Seq(Recordings(stage))
BY DEF Recorded, Recordings

LEMMA AdvanceSequence ==
    ASSUME NEW d
    PROVE  /\ Advance(d) \in Seq(Advances)
           /\ ~d.accept => Advance(d) = <<>>
<1>1. <<>> \in Seq(Advances)
  OBVIOUS
<1>2. \A s \in Seq(Recordings("impact")) : s \in Seq(Advances)
  BY DEF Advances
<1>3. \A s \in Seq(Recordings("planning")) : s \in Seq(Advances)
  BY DEF Advances
<1>4. ~NoWork => ManagedRequest \in Seq(Advances)
  BY DEF ManagedRequest, Advances
<1> DEFINE one == IF work.questions THEN Recorded("impact") ELSE <<>>
           two == IF work.subjects THEN Recorded("planning") ELSE Tail(Recorded("planning"))
           three == IF NoWork THEN <<>> ELSE ManagedRequest
<1>5. one \in Seq(Advances)
  BY <1>1, <1>2, RecordedSequence
<1>6. two \in Seq(Advances)
  BY <1>3, RecordedSequence
<1>7. three \in Seq(Advances)
  BY <1>1, <1>4
<1>8. Advance(d) = IF ~d.accept THEN <<>> ELSE one \o two \o three
  BY DEF Advance
<1> HIDE DEF one, two, three
<1>9. one \o two \o three \in Seq(Advances)
  BY <1>5, <1>6, <1>7
<1> QED BY <1>1, <1>8, <1>9

\* The first two writes of every document, and the ones that may follow them.
First(stage) == IF stage = "activate" THEN <<"activate", "run">> ELSE <<"decide", stage>>
Second(stage) ==
    <<"link", IF stage = "temporal" THEN "temporal-decision"
              ELSE IF stage = "managed" THEN "managed-decision" ELSE "activation">>

LEMMA PlanSequence ==
    ASSUME DownstreamAssumption, NEW d \in Documents
    PROVE  LET p == Plan(d)
           IN  /\ p \in Seq(Steps) /\ p # <<>> /\ Head(p) = First(d.stage) /\ Len(p) # 1
               /\ Tail(p) \in Seq(Steps) /\ Tail(p) # <<>> /\ Head(Tail(p)) = Second(d.stage)
               /\ d.stage # "temporal" \/ ~d.accept => Len(Tail(p)) = 1
               /\ d.stage = "temporal" =>
                    Tail(Tail(p)) \in Seq(Steps) /\ Elements(Tail(Tail(p))) \subseteq Advances
<1> DEFINE p == Plan(d)
           more == IF d.stage = "temporal" THEN Advance(d) ELSE <<>>
           a == First(d.stage)
           b == Second(d.stage)
<1>1. d.stage \in {"temporal", "managed", "activate"} /\ d.accept \in BOOLEAN
  BY DEF DownstreamAssumption
<1>2. a \in Steps /\ b \in Steps
  BY <1>1 DEF First, Second, Steps, Kinds
<1>3. more \in Seq(Advances) /\ more \in Seq(Steps)
  BY AdvanceSequence, AdvancesAreSteps
<1>4. d.stage # "temporal" \/ ~d.accept => more = <<>>
  BY AdvanceSequence
<1>5. <<a, b>> \in Seq(Steps)
  BY <1>2
<1>6. <<a, b>> \o <<>> = <<a, b>>
  BY <1>5
<1>7. p = <<a, b>> \o more
  BY <1>1, <1>6 DEF Plan, Decision, Activation, First, Second
<1>8. Len(<<>>) = 0
  OBVIOUS
<1> HIDE DEF p, more, a, b
<1>9. /\ p \in Seq(Steps) /\ p # <<>> /\ Head(p) = a
      /\ Tail(p) \in Seq(Steps) /\ Tail(p) # <<>> /\ Head(Tail(p)) = b
      /\ Len(p) = Len(more) + 2 /\ Len(Tail(p)) = Len(more) + 1
      /\ Tail(Tail(p)) \in Seq(Steps)
      /\ Elements(Tail(Tail(p))) \subseteq Elements(more)
  <2> DEFINE two == <<a, b>>
  <2>1. two \in Seq(Steps) /\ two[1] = a /\ two[2] = b /\ Len(two) = 2
    BY <1>5
  <2>2. p = two \o more
    BY <1>7
  <2> HIDE DEF two
  <2> QED BY <1>3, <2>1, <2>2, TwoAndMore
<1>10. Len(p) # 1 /\ (d.stage # "temporal" \/ ~d.accept => Len(Tail(p)) = 1)
  BY <1>3, <1>4, <1>8, <1>9
<1>11. Elements(Tail(Tail(p))) \subseteq Advances
  BY <1>3, <1>9, ElementsOf
<1> QED BY <1>9, <1>10, <1>11 DEF p, a, b

-----------------------------------------------------------------------------
(* Rows and links only grow, so what allowed a write still allows it.        *)

Grows ==
    /\ work' = work
    /\ \A s \in {"temporal", "managed"} : decided[s] # None => decided'[s] = decided[s]
    /\ opened => opened'
    /\ receipt # None => receipt' = receipt
    /\ links \subseteq links'

LEMMA PlanStays ==
    ASSUME work' = work, NEW d
    PROVE  Plan(d)' = Plan(d) /\ Advances' = Advances /\ NoWork' = NoWork
<1>1. NoWork' = NoWork
  BY DEF NoWork
<1>2. Advance(d)' = Advance(d)
  BY <1>1 DEF Advance
<1> QED BY <1>1, <1>2 DEF Plan, Advances

LEMMA PlaceStays ==
    ASSUME DownstreamAssumption, Grows, NEW d, NEW todo, AtPlace(d, todo)
    PROVE  AtPlace(d, todo)'
<1>1. d # None
  BY DEF DownstreamAssumption, AtPlace
<1>2. work' = work
  BY DEF Grows
<1>3. Plan(d)' = Plan(d) /\ Advances' = Advances
  BY <1>2, PlanStays
<1>4. Accepted("managed") => Accepted("managed")'
  BY DEF Grows, Accepted
<1>5. \A s \in {"temporal", "managed"} : decided[s] = d => decided'[s] = d
  BY <1>1 DEF Grows
<1>6. Reviewing(d, todo) => Reviewing(d, todo)'
  BY <1>3, <1>5 DEF Reviewing, Grows
<1>7. Approving(d, todo) => Approving(d, todo)'
  BY <1>3, <1>5 DEF Approving, Grows
<1>8. Activating(d, todo) => Activating(d, todo)'
  BY <1>3, <1>4 DEF Activating, Grows
<1> QED BY <1>6, <1>7, <1>8 DEF AtPlace

LEMMA EndedStays ==
    ASSUME Grows, Ended
    PROVE  Ended'
BY DEF Grows, Ended, NoWork, Accepted

\* The call ends, or it goes on: every client is at its place.
LEMMA CallEnds ==
    ASSUME DownstreamAssumption, Grows, TypeInv, \A e \in Clients : AtItsPlace(e),
           NEW c \in Clients, client' = [client EXCEPT ![c] = Idle]
    PROVE  /\ client' \in [Clients -> [document : Documents \cup {None}, todo : Seq(Steps)]]
           /\ \A e \in Clients : AtItsPlace(e)'
<1>1. Idle \in [document : Documents \cup {None}, todo : Seq(Steps)]
  BY DEF Idle
<1>2. client \in [Clients -> [document : Documents \cup {None}, todo : Seq(Steps)]]
  BY DEF TypeInv
<1>3. ASSUME NEW e \in Clients
      PROVE  AtItsPlace(e)'
  <2>1. CASE e = c
    BY <1>2, <2>1 DEF AtItsPlace, Idle
  <2>2. CASE e # c
    <3>1. client'[e] = client[e]
      BY <1>2, <2>2
    <3> SUFFICES ASSUME NEW d, NEW todo, d = client[e].document, todo = client[e].todo,
                        client[e] # Idle
                 PROVE  AtPlace(d, todo)'
      BY <3>1 DEF AtItsPlace, Idle
    <3>2. AtPlace(d, todo)
      BY <1>3 DEF AtItsPlace
    <3> QED BY <3>2, PlaceStays
  <2> QED BY <2>1, <2>2
<1> QED BY <1>1, <1>2, <1>3

LEMMA CallGoesOn ==
    ASSUME DownstreamAssumption, Grows, TypeInv, \A e \in Clients : AtItsPlace(e),
           NEW c \in Clients, NEW d \in Documents, NEW todo \in Seq(Steps),
           client' = [client EXCEPT ![c] = [document |-> d, todo |-> todo]],
           AtPlace(d, todo)'
    PROVE  /\ client' \in [Clients -> [document : Documents \cup {None}, todo : Seq(Steps)]]
           /\ \A e \in Clients : AtItsPlace(e)'
<1>2. client \in [Clients -> [document : Documents \cup {None}, todo : Seq(Steps)]]
  BY DEF TypeInv
<1>3. ASSUME NEW e \in Clients
      PROVE  AtItsPlace(e)'
  <2>1. CASE e = c
    <3>1. client'[e].document = d /\ client'[e].todo = todo
      BY <1>2, <2>1
    <3> QED BY <3>1 DEF AtItsPlace
  <2>2. CASE e # c
    <3>1. client'[e] = client[e]
      BY <1>2, <2>2
    <3> SUFFICES ASSUME NEW f, NEW left, f = client[e].document, left = client[e].todo,
                        client[e] # Idle
                 PROVE  AtPlace(f, left)'
      BY <3>1 DEF AtItsPlace, Idle
    <3>2. AtPlace(f, left)
      BY <1>3 DEF AtItsPlace
    <3> QED BY <3>2, PlaceStays
  <2> QED BY <2>1, <2>2
<1> QED BY <1>2, <1>3

-----------------------------------------------------------------------------
(* Where a client is in its document's writes.                               *)

LEMMA WhereItIs ==
    ASSUME DownstreamAssumption, NEW d, NEW todo, AtPlace(d, todo), todo \in Seq(Steps)
    PROVE  LET x == Head(todo)
           IN  \/ /\ x = First(d.stage) /\ todo = Plan(d)
                  /\ d.stage = "managed" => opened /\ "managed-request" \in links
                  /\ d.stage = "activate" => Accepted("managed")
               \/ /\ x = Second(d.stage) /\ todo = Tail(Plan(d))
                  /\ d.stage \in {"temporal", "managed"} => decided[d.stage] = d
                  /\ d.stage = "managed" => opened /\ "managed-request" \in links
                  /\ d.stage = "activate" => receipt # None
               \/ /\ x \in Advances /\ Elements(todo) \subseteq Advances
                  /\ d.stage = "temporal" /\ decided["temporal"] = d /\ d.accept
                  /\ "temporal-decision" \in links
<1>1. d \in Documents /\ todo # <<>> /\ d.stage \in {"temporal", "managed", "activate"}
  BY DEF AtPlace, DownstreamAssumption
<1>2. Head(Plan(d)) = First(d.stage) /\ Head(Tail(Plan(d))) = Second(d.stage)
  BY <1>1, PlanSequence
<1>3. Head(todo) \in Elements(todo)
  BY <1>1, FirstAndRest
<1>4. CASE d.stage = "temporal"
  BY <1>2, <1>3, <1>4 DEF AtPlace, Reviewing
<1>5. CASE d.stage = "managed"
  BY <1>2, <1>5 DEF AtPlace, Approving
<1>6. CASE d.stage = "activate"
  BY <1>2, <1>6 DEF AtPlace, Activating
<1> QED BY <1>1, <1>4, <1>5, <1>6

LEMMA RestKeepsPlace ==
    ASSUME DownstreamAssumption, Grows, NEW d, NEW todo, AtPlace(d, todo), todo \in Seq(Steps),
           Len(todo) # 1,
           Head(todo) = <<"decide", d.stage>> => decided'[d.stage] = d,
           Head(todo) = <<"link", "temporal-decision">> => "temporal-decision" \in links',
           Head(todo) = <<"activate", "run">> => receipt' # None
    PROVE  Tail(todo) \in Seq(Steps) /\ AtPlace(d, Tail(todo))'
<1> DEFINE x == Head(todo)
           rest == Tail(todo)
<1>1. /\ d \in Documents /\ todo # <<>> /\ d # None
      /\ d.stage \in {"temporal", "managed", "activate"} /\ d.accept \in BOOLEAN
  BY DEF AtPlace, DownstreamAssumption
<1>2. /\ rest \in Seq(Steps) /\ rest # <<>> /\ Elements(rest) \subseteq Elements(todo)
  BY <1>1, FirstAndRest
<1>3. Plan(d)' = Plan(d) /\ Advances' = Advances
  BY PlanStays DEF Grows
<1>4. d.stage # "temporal" \/ ~d.accept => Len(Tail(Plan(d))) = 1
  BY <1>1, PlanSequence
<1>5. d.stage = "temporal" => Elements(Tail(Tail(Plan(d)))) \subseteq Advances
  BY <1>1, PlanSequence
<1>6. \A s \in {"temporal", "managed"} : decided[s] = d => decided'[s] = d
  BY <1>1 DEF Grows
<1> SUFFICES AtPlace(d, rest)'
  BY <1>2
<1>7. CASE x = First(d.stage) /\ todo = Plan(d)
  <2>1. CASE d.stage = "temporal"
    <3>1. decided'["temporal"] = d /\ rest = Tail(Plan(d))'
      BY <1>3, <1>7, <2>1 DEF First
    <3> QED BY <1>1, <1>2, <2>1, <3>1 DEF AtPlace, Reviewing
  <2>2. CASE d.stage = "managed"
    <3>1. decided'["managed"] = d /\ rest = Tail(Plan(d))'
      BY <1>3, <1>7, <2>2 DEF First
    <3>2. opened' /\ "managed-request" \in links'
      BY <2>2 DEF AtPlace, Approving, Grows
    <3> QED BY <1>1, <1>2, <2>2, <3>1, <3>2 DEF AtPlace, Approving
  <2>3. CASE d.stage = "activate"
    <3>1. receipt' # None /\ rest = Tail(Plan(d))'
      BY <1>3, <1>7, <2>3 DEF First
    <3> QED BY <1>1, <1>2, <2>3, <3>1 DEF AtPlace, Activating
  <2> QED BY <1>1, <2>1, <2>2, <2>3
<1>8. CASE x = Second(d.stage) /\ todo = Tail(Plan(d))
           /\ (d.stage = "temporal" => decided[d.stage] = d)
  <2>1. d.stage = "temporal" /\ d.accept
    BY <1>4, <1>8
  <2>2. decided'["temporal"] = d /\ "temporal-decision" \in links'
    BY <1>6, <1>8, <2>1 DEF Second
  <2>3. Elements(rest) \subseteq Advances'
    BY <1>3, <1>5, <1>8, <2>1
  <2> QED BY <1>1, <1>2, <2>1, <2>2, <2>3 DEF AtPlace, Reviewing
<1>9. CASE /\ Elements(todo) \subseteq Advances
           /\ d.stage = "temporal" /\ decided["temporal"] = d /\ d.accept
           /\ "temporal-decision" \in links
  <2>1. decided'["temporal"] = d /\ "temporal-decision" \in links'
    BY <1>6, <1>9 DEF Grows
  <2>2. Elements(rest) \subseteq Advances'
    BY <1>2, <1>3, <1>9
  <2> QED BY <1>1, <1>2, <1>9, <2>1, <2>2 DEF AtPlace, Reviewing
<1> QED BY <1>7, <1>8, <1>9, WhereItIs

\* A write is done: the client goes on with the next one, or its call is over.
LEMMA WriteDone ==
    ASSUME DownstreamAssumption, Grows, TypeInv, \A e \in Clients : AtItsPlace(e),
           NEW c \in Clients, client[c] # Idle, Done(c),
           LET d == client[c].document
           IN  /\ Doing(c) = <<"decide", d.stage>> => decided'[d.stage] = d
               /\ Doing(c) = <<"link", "temporal-decision">> => "temporal-decision" \in links'
               /\ Doing(c) = <<"activate", "run">> => receipt' # None
    PROVE  /\ client' \in [Clients -> [document : Documents \cup {None}, todo : Seq(Steps)]]
           /\ \A e \in Clients : AtItsPlace(e)'
<1>1. client \in [Clients -> [document : Documents \cup {None}, todo : Seq(Steps)]]
  BY DEF TypeInv
<1> SUFFICES ASSUME NEW d, NEW todo, d = client[c].document, todo = client[c].todo
             PROVE  /\ client' \in [Clients -> [document : Documents \cup {None}, todo : Seq(Steps)]]
                    /\ \A e \in Clients : AtItsPlace(e)'
  OBVIOUS
<1>2. AtPlace(d, todo) /\ todo \in Seq(Steps)
  BY <1>1 DEF AtItsPlace
<1>3. d \in Documents /\ todo # <<>>
  BY <1>2 DEF AtPlace
<1>4. Doing(c) = Head(todo)
  BY <1>3 DEF Doing
<1>5. client[c] = [document |-> d, todo |-> todo]
  BY <1>1
<1>6. CASE Len(todo) = 1
  <2>1. client' = [client EXCEPT ![c] = Idle]
    BY <1>1, <1>6 DEF Done
  <2> QED BY <2>1, CallEnds
<1>7. CASE Len(todo) # 1
  <2>1. client' = [client EXCEPT ![c] = [document |-> d, todo |-> Tail(todo)]]
    BY <1>1, <1>5, <1>7 DEF Done
  <2>2. Tail(todo) \in Seq(Steps) /\ AtPlace(d, Tail(todo))'
    BY <1>2, <1>4, <1>7, RestKeepsPlace
  <2>3. PICK rest \in Seq(Steps) : rest = Tail(todo) /\ AtPlace(d, rest)'
    BY <2>2
  <2>4. client' = [client EXCEPT ![c] = [document |-> d, todo |-> rest]]
    BY <2>1, <2>3
  <2> QED BY <1>3, <2>3, <2>4, CallGoesOn
<1> QED BY <1>6, <1>7

-----------------------------------------------------------------------------
(* One lemma per write.                                                      *)

LEMMA AdvanceIs ==
    ASSUME NEW x \in Advances
    PROVE  /\ x[1] \in {"ask", "record", "impact", "planning", "link", "open"}
           /\ x[1] \in {"ask", "record"} => x[2] \in Stages
           /\ x[1] = "open" => ~NoWork
           /\ x[1] = "link" =>
                x[2] \in {"impact", "planning"} \/ (x[2] = "managed-request" /\ ~NoWork)
           /\ x # <<"activate", "run">> /\ x # <<"link", "temporal-decision">>
           /\ \A s : x # <<"decide", s>>
<1>1. \/ \E s \in Stages : x \in Recordings(s)
      \/ ~NoWork /\ x \in {<<"open", "managed">>, <<"link", "managed-request">>}
  BY DEF Advances, Stages
<1>2. ASSUME NEW s \in Stages, x \in Recordings(s)
      PROVE  /\ x[1] \in {"ask", "record", "impact", "planning", "link"}
             /\ x[1] \in {"ask", "record", "link"} => x[2] = s
  BY <1>2 DEF Recordings, Stages
<1>3. ASSUME ~NoWork, x \in {<<"open", "managed">>, <<"link", "managed-request">>}
      PROVE  /\ x[1] \in {"open", "link"}
             /\ x[1] = "link" => x[2] = "managed-request"
  BY <1>3
<1>4. /\ x[1] \in {"ask", "record", "impact", "planning", "link", "open"}
      /\ x[1] \in {"ask", "record"} => x[2] \in Stages
      /\ x[1] = "open" => ~NoWork
      /\ x[1] = "link" =>
           x[2] \in {"impact", "planning"} \/ (x[2] = "managed-request" /\ ~NoWork)
  BY <1>1, <1>2, <1>3 DEF Stages
<1>5. x # <<"activate", "run">> /\ \A s : x # <<"decide", s>>
  BY <1>4
<1>6. x # <<"link", "temporal-decision">>
  BY <1>4
<1> QED BY <1>4, <1>5, <1>6

\* A call that has a write to do is one of a document that allows it.
LEMMA DoingIs ==
    ASSUME DownstreamAssumption, Inv, NEW c \in Clients, Doing(c) # <<"nothing", "left">>
    PROVE  LET d == client[c].document
               x == Doing(c)
           IN  /\ client[c] # Idle /\ d \in Documents /\ x \in Steps
               /\ \/ x = <<"decide", "temporal">> /\ d.stage = "temporal"
                  \/ /\ x = <<"decide", "managed">> /\ d.stage = "managed"
                     /\ opened /\ "managed-request" \in links
                  \/ x = <<"activate", "run">> /\ Accepted("managed")
                  \/ x = <<"link", "temporal-decision">>
                  \/ x = <<"link", "managed-decision">>
                  \/ x = <<"link", "activation">>
                  \/ /\ x \in Advances /\ d.stage = "temporal"
                     /\ "temporal-decision" \in links /\ Accepted("temporal")
<1>1. client \in [Clients -> [document : Documents \cup {None}, todo : Seq(Steps)]]
  BY DEF Inv, TypeInv
<1> SUFFICES ASSUME NEW d, NEW todo, d = client[c].document, todo = client[c].todo
             PROVE  /\ client[c] # Idle /\ d \in Documents /\ Doing(c) \in Steps
                    /\ \/ Doing(c) = <<"decide", "temporal">> /\ d.stage = "temporal"
                       \/ /\ Doing(c) = <<"decide", "managed">> /\ d.stage = "managed"
                          /\ opened /\ "managed-request" \in links
                       \/ Doing(c) = <<"activate", "run">> /\ Accepted("managed")
                       \/ Doing(c) = <<"link", "temporal-decision">>
                       \/ Doing(c) = <<"link", "managed-decision">>
                       \/ Doing(c) = <<"link", "activation">>
                       \/ /\ Doing(c) \in Advances /\ d.stage = "temporal"
                          /\ "temporal-decision" \in links /\ Accepted("temporal")
  OBVIOUS
<1>2. todo # <<>> /\ Doing(c) = Head(todo) /\ client[c] # Idle
  BY DEF Doing, Idle
<1>3. AtPlace(d, todo) /\ todo \in Seq(Steps)
  BY <1>1, <1>2 DEF AtItsPlace, Inv
<1>4. d \in Documents /\ d # None /\ d.stage \in {"temporal", "managed", "activate"}
  BY <1>3 DEF AtPlace, DownstreamAssumption
<1>5. Head(todo) \in Steps
  BY <1>2, <1>3, FirstAndRest
<1>6. \/ /\ Head(todo) = First(d.stage)
         /\ d.stage = "managed" => opened /\ "managed-request" \in links
         /\ d.stage = "activate" => Accepted("managed")
      \/ Head(todo) = Second(d.stage)
      \/ /\ Head(todo) \in Advances
         /\ d.stage = "temporal" /\ decided["temporal"] = d /\ d.accept
         /\ "temporal-decision" \in links
  BY <1>3, WhereItIs
<1>7. CASE /\ Head(todo) = First(d.stage)
           /\ d.stage = "managed" => opened /\ "managed-request" \in links
           /\ d.stage = "activate" => Accepted("managed")
  BY <1>2, <1>4, <1>5, <1>7 DEF First
<1>8. CASE Head(todo) = Second(d.stage)
  BY <1>2, <1>4, <1>5, <1>8 DEF Second
<1>9. CASE /\ Head(todo) \in Advances
           /\ d.stage = "temporal" /\ decided["temporal"] = d /\ d.accept
           /\ "temporal-decision" \in links
  BY <1>2, <1>4, <1>5, <1>9 DEF Accepted
<1> QED BY <1>6, <1>7, <1>8, <1>9

LEMMA DecideStep ==
    ASSUME DownstreamAssumption, Inv, NEW c \in Clients, Decide(c)
    PROVE  Inv' /\ Grows
<1> DEFINE d == client[c].document
           stage == Doing(c)[2]
<1>1. /\ client[c] # Idle /\ d \in Documents /\ d # None
      /\ stage \in {"temporal", "managed"} /\ d.stage = stage
      /\ Doing(c) = <<"decide", stage>>
      /\ stage = "managed" => opened /\ "managed-request" \in links
  BY DoingIs, AdvanceIs DEF Decide, DownstreamAssumption
<1>2. UNCHANGED <<work, opened, receipt, links, files, call, noops, crashes>>
  BY DEF Decide
<1>3. CASE ~MayDecide(decided[stage], d) /\ Raise(c) /\ UNCHANGED decided
  <2>1. Grows
    BY <1>2, <1>3 DEF Grows
  <2>2. /\ client' \in [Clients -> [document : Documents \cup {None}, todo : Seq(Steps)]]
        /\ \A e \in Clients : AtItsPlace(e)'
    BY <1>3, <2>1, CallEnds DEF Raise, Inv
  <2> QED BY <1>2, <1>3, <2>1, <2>2 DEF Inv, TypeInv, Founded, Advanced, Accepted, NoWork, Ended
<1>4. CASE MayDecide(decided[stage], d) /\ decided' = [decided EXCEPT ![stage] = d] /\ Done(c)
  <2>1. decided \in [{"temporal", "managed"} -> Documents \cup {None}]
    BY DEF Inv, TypeInv
  <2>2. /\ decided' \in [{"temporal", "managed"} -> Documents \cup {None}]
        /\ decided'[stage] = d
        /\ \A s \in {"temporal", "managed"} : s # stage => decided'[s] = decided[s]
        /\ \A s \in {"temporal", "managed"} : decided[s] # None => decided'[s] = decided[s]
    BY <1>1, <1>4, <2>1 DEF MayDecide
  <2>3. Grows
    BY <1>2, <2>2 DEF Grows
  <2>4. /\ client' \in [Clients -> [document : Documents \cup {None}, todo : Seq(Steps)]]
        /\ \A e \in Clients : AtItsPlace(e)'
    BY <1>1, <1>4, <2>2, <2>3, WriteDone DEF Inv
  <2>5. TypeInv'
    BY <1>1, <1>2, <2>2, <2>4 DEF Inv, TypeInv
  <2>6. Founded'
    <3>1. \A s \in {"temporal", "managed"} : Accepted(s) => Accepted(s)'
      BY <2>2 DEF Accepted
    <3>2. Advanced' = Advanced /\ NoWork' = NoWork
      BY <1>2 DEF Advanced, NoWork
    <3> QED BY <1>1, <1>2, <2>2, <3>1, <3>2 DEF Inv, Founded
  <2>7. noops' # {} => Ended'
    BY <1>2, <2>3, EndedStays DEF Inv
  <2> QED BY <2>3, <2>4, <2>5, <2>6, <2>7 DEF Inv
<1> QED BY <1>3, <1>4 DEF Decide

LEMMA AskProviderStep ==
    ASSUME DownstreamAssumption, Inv, NEW c \in Clients, AskProvider(c)
    PROVE  Inv' /\ Grows
<1> DEFINE stage == Doing(c)[2]
<1>1. /\ client[c] # Idle /\ Doing(c) \in Advances /\ stage \in Stages
      /\ Doing(c)[1] = "ask" /\ Doing(c) = <<"ask", stage>>
      /\ client[c].document.stage = "temporal"
      /\ "temporal-decision" \in links /\ Accepted("temporal")
  <2>1. Doing(c)[1] = "ask"
    BY DEF AskProvider
  <2>2. /\ client[c] # Idle /\ Doing(c) \in Advances
        /\ client[c].document.stage = "temporal"
        /\ "temporal-decision" \in links /\ Accepted("temporal")
    BY <2>1, DoingIs
  <2>3. Doing(c)[2] \in Stages /\ Doing(c) = <<"ask", Doing(c)[2]>>
    BY <2>1, <2>2, AdvanceIs DEF Advances, Recordings
  <2> QED BY <2>1, <2>2, <2>3
<1>2. UNCHANGED <<work, decided, opened, receipt, links, files, noops, crashes>>
  BY DEF AskProvider
<1>3. Grows
  BY <1>2 DEF Grows
<1>4. \/ call' = call
      \/ call' = [call EXCEPT ![stage] = "claimed"]
  BY DEF AskProvider
<1>5. /\ client' \in [Clients -> [document : Documents \cup {None}, todo : Seq(Steps)]]
      /\ \A e \in Clients : AtItsPlace(e)'
  <2>1. CASE Raise(c)
    BY <1>3, <2>1, CallEnds DEF Raise, Inv
  <2>2. CASE Done(c)
    BY <1>1, <1>3, <2>2, AdvanceIs, WriteDone DEF Inv
  <2>3. CASE client' = [client EXCEPT ![c].todo = <<<<"record", stage>>>> \o Tail(@)]
    <3>1. client \in [Clients -> [document : Documents \cup {None}, todo : Seq(Steps)]]
      BY DEF Inv, TypeInv
    <3>2. PICK d, todo : d = client[c].document /\ todo = client[c].todo
      OBVIOUS
    <3>3. AtPlace(d, todo) /\ todo \in Seq(Steps)
      BY <1>1, <3>1, <3>2 DEF Inv, AtItsPlace
    <3>4. d \in Documents /\ todo # <<>> /\ Doing(c) = Head(todo) /\ d.stage = "temporal"
      BY <1>1, <3>2, <3>3 DEF AtPlace, Doing
    <3>5. /\ Elements(todo) \subseteq Advances
          /\ decided["temporal"] = d /\ d.accept
      BY <1>1, <3>3, <3>4, WhereItIs, AdvanceIs DEF First, Second
    <3>6. Tail(todo) \in Seq(Steps) /\ Elements(Tail(todo)) \subseteq Advances
      BY <3>3, <3>4, <3>5, FirstAndRest
    <3>7. <<"record", stage>> \in Advances /\ <<"record", stage>> \in Steps
      BY <1>1 DEF Stages, Advances, Steps, Recordings
    <3>13. PICK w \in Steps : w = <<"record", stage>> /\ w \in Advances
      BY <3>7
    <3>14. PICK rest \in Seq(Steps) : rest = Tail(todo) /\ Elements(rest) \subseteq Advances
      BY <3>6
    <3>8. PICK left : left = <<w>> \o rest
      OBVIOUS
    <3>9. left \in Seq(Steps) /\ left # <<>> /\ Elements(left) \subseteq Advances
      <4> DEFINE one == <<w>>
      <4>1. one \in Seq(Steps) /\ Len(one) = 1 /\ one[1] = w
        OBVIOUS
      <4>2. left = one \o rest
        BY <3>8
      <4> HIDE DEF one
      <4>3. left \in Seq(Steps) /\ left # <<>> /\ Elements(left) \subseteq Elements(rest) \cup {w}
        BY <4>1, <4>2, OneAndRest
      <4> QED BY <3>13, <3>14, <4>3
    <3>10. client' = [client EXCEPT ![c] = [document |-> d, todo |-> left]]
      <4>1. client[c] = [document |-> d, todo |-> todo]
        BY <3>1, <3>2
      <4>2. client' = [client EXCEPT ![c] = [client[c] EXCEPT !.todo = <<<<"record", stage>>>> \o Tail(client[c].todo)]]
        BY <2>3
      <4>3. [client[c] EXCEPT !.todo = left] = [document |-> d, todo |-> left]
        BY <4>1
      <4>4. <<<<"record", stage>>>> \o Tail(client[c].todo) = left
        BY <3>2, <3>13, <3>14, <3>8
      <4> QED BY <4>2, <4>3, <4>4
    <3>11. Advances' = Advances
      BY <1>2, PlanStays
    <3>12. AtPlace(d, left)'
      BY <1>1, <1>2, <3>4, <3>5, <3>9, <3>11 DEF AtPlace, Reviewing
    <3> QED BY <1>3, <3>4, <3>9, <3>10, <3>12, CallGoesOn DEF Inv
  <2> QED BY <2>1, <2>2, <2>3 DEF AskProvider
<1>6. TypeInv'
  <2>1. call \in [Stages -> {"free", "claimed", "recorded"}]
    BY DEF Inv, TypeInv
  <2>2. call' \in [Stages -> {"free", "claimed", "recorded"}]
    BY <1>1, <1>4, <2>1
  <2> QED BY <1>2, <1>5, <2>2 DEF Inv, TypeInv
<1>7. Founded'
  BY <1>1, <1>2 DEF Inv, Founded, Advanced, Accepted, NoWork
<1>8. noops' # {} => Ended'
  BY <1>2, <1>3, EndedStays DEF Inv
<1> QED BY <1>3, <1>5, <1>6, <1>7, <1>8 DEF Inv

LEMMA RecordResultStep ==
    ASSUME DownstreamAssumption, Inv, NEW c \in Clients, RecordResult(c)
    PROVE  Inv' /\ Grows
<1> DEFINE stage == Doing(c)[2]
<1>1. /\ client[c] # Idle /\ Doing(c) \in Advances /\ stage \in Stages
      /\ "temporal-decision" \in links /\ Accepted("temporal")
  <2>1. Doing(c)[1] = "record"
    BY DEF RecordResult
  <2>2. /\ client[c] # Idle /\ Doing(c) \in Advances
        /\ "temporal-decision" \in links /\ Accepted("temporal")
    BY <2>1, DoingIs
  <2> QED BY <2>1, <2>2, AdvanceIs
<1>2. UNCHANGED <<work, decided, opened, receipt, links, files, noops, crashes>>
  BY DEF RecordResult
<1>3. Grows
  BY <1>2 DEF Grows
<1>4. /\ client' \in [Clients -> [document : Documents \cup {None}, todo : Seq(Steps)]]
      /\ \A e \in Clients : AtItsPlace(e)'
  <2>1. CASE Raise(c)
    BY <1>3, <2>1, CallEnds DEF Raise, Inv
  <2>2. CASE Done(c)
    BY <1>1, <1>3, <2>2, AdvanceIs, WriteDone DEF Inv
  <2> QED BY <2>1, <2>2 DEF RecordResult
<1>5. TypeInv'
  <2>1. call \in [Stages -> {"free", "claimed", "recorded"}]
    BY DEF Inv, TypeInv
  <2>2. call' \in [Stages -> {"free", "claimed", "recorded"}]
    BY <1>1, <2>1 DEF RecordResult
  <2> QED BY <1>2, <1>4, <2>2 DEF Inv, TypeInv
<1>6. Founded'
  BY <1>1, <1>2 DEF Inv, Founded, Advanced, Accepted, NoWork
<1>7. noops' # {} => Ended'
  BY <1>2, <1>3, EndedStays DEF Inv
<1> QED BY <1>3, <1>4, <1>5, <1>6, <1>7 DEF Inv

LEMMA PersistStageStep ==
    ASSUME DownstreamAssumption, Inv, NEW c \in Clients, PersistStage(c)
    PROVE  Inv' /\ Grows
<1>1. /\ client[c] # Idle /\ Doing(c) \in Advances /\ Doing(c) \in Evidence
      /\ "temporal-decision" \in links /\ Accepted("temporal")
  <2>1. Doing(c) \in Evidence /\ Doing(c)[1] \in {"impact", "planning"}
    BY DEF PersistStage, Evidence, Stages
  <2> QED BY <2>1, DoingIs
<1>2. UNCHANGED <<work, decided, opened, receipt, links, call, noops, crashes>>
  BY DEF PersistStage
<1>3. Grows
  BY <1>2 DEF Grows
<1>4. /\ client' \in [Clients -> [document : Documents \cup {None}, todo : Seq(Steps)]]
      /\ \A e \in Clients : AtItsPlace(e)'
  BY <1>1, <1>3, AdvanceIs, WriteDone DEF PersistStage, Inv
<1>5. TypeInv'
  <2>1. files' \subseteq Evidence
    BY <1>1 DEF Inv, TypeInv, PersistStage
  <2> QED BY <1>2, <1>4, <2>1 DEF Inv, TypeInv
<1>6. Founded'
  BY <1>1, <1>2 DEF Inv, Founded, Advanced, Accepted, NoWork
<1>7. noops' # {} => Ended'
  BY <1>2, <1>3, EndedStays DEF Inv
<1> QED BY <1>3, <1>4, <1>5, <1>6, <1>7 DEF Inv

LEMMA OpenManagedReviewStep ==
    ASSUME DownstreamAssumption, Inv, NEW c \in Clients, OpenManagedReview(c)
    PROVE  Inv' /\ Grows
<1>1. /\ client[c] # Idle /\ Doing(c) \in Advances /\ ~NoWork
      /\ "temporal-decision" \in links /\ Accepted("temporal")
  <2>1. Doing(c)[1] = "open"
    BY DEF OpenManagedReview
  <2> QED BY <2>1, DoingIs, AdvanceIs
<1>2. UNCHANGED <<work, decided, receipt, links, files, call, noops, crashes>> /\ opened' = TRUE
  BY DEF OpenManagedReview
<1>3. Grows
  BY <1>2 DEF Grows
<1>4. /\ client' \in [Clients -> [document : Documents \cup {None}, todo : Seq(Steps)]]
      /\ \A e \in Clients : AtItsPlace(e)'
  BY <1>1, <1>3, AdvanceIs, WriteDone DEF OpenManagedReview, Inv
<1>5. TypeInv'
  BY <1>2, <1>4 DEF Inv, TypeInv
<1>6. Founded'
  BY <1>1, <1>2 DEF Inv, Founded, Advanced, Accepted, NoWork
<1>7. noops' # {} => Ended'
  BY <1>2, <1>3, EndedStays DEF Inv
<1> QED BY <1>3, <1>4, <1>5, <1>6, <1>7 DEF Inv

LEMMA ActivateGenerationStep ==
    ASSUME DownstreamAssumption, Inv, NEW c \in Clients, ActivateGeneration(c)
    PROVE  Inv' /\ Grows
<1> DEFINE op == client[c].document.op
<1>1. /\ client[c] # Idle /\ Doing(c) = <<"activate", "run">> /\ Accepted("managed")
      /\ op \in {d.op : d \in Documents} /\ op # None
  <2>1. Doing(c)[1] = "activate"
    BY DEF ActivateGeneration
  <2>2. /\ client[c] # Idle /\ Doing(c) = <<"activate", "run">> /\ Accepted("managed")
        /\ client[c].document \in Documents
    BY <2>1, DoingIs, AdvanceIs
  <2> QED BY <2>2 DEF DownstreamAssumption
<1>2. UNCHANGED <<work, decided, opened, links, files, call, noops, crashes>>
  BY DEF ActivateGeneration
<1>3. \/ Raise(c) /\ receipt' = receipt
      \/ Done(c) /\ receipt' = op /\ receipt \in {None, op}
  BY DEF ActivateGeneration
<1>4. Grows
  BY <1>2, <1>3 DEF Grows
<1>5. /\ client' \in [Clients -> [document : Documents \cup {None}, todo : Seq(Steps)]]
      /\ \A e \in Clients : AtItsPlace(e)'
  <2>1. CASE Raise(c)
    BY <1>4, <2>1, CallEnds DEF Raise, Inv
  <2>2. CASE Done(c) /\ receipt' = op
    <3>1. Doing(c) # <<"link", "temporal-decision">> /\ \A s : Doing(c) # <<"decide", s>>
      BY <1>1
    <3> QED BY <1>1, <1>4, <2>2, <3>1, WriteDone DEF Inv
  <2> QED BY <1>3, <2>1, <2>2
<1>6. TypeInv'
  BY <1>1, <1>2, <1>3, <1>5 DEF Inv, TypeInv
<1>7. Founded'
  BY <1>1, <1>2, <1>3 DEF Inv, Founded, Advanced, Accepted, NoWork
<1>8. noops' # {} => Ended'
  BY <1>2, <1>4, EndedStays DEF Inv
<1> QED BY <1>4, <1>5, <1>6, <1>7, <1>8 DEF Inv

LEMMA LinkStep ==
    ASSUME DownstreamAssumption, Inv, NEW c \in Clients, Link(c)
    PROVE  Inv' /\ Grows
<1> DEFINE kind == Doing(c)[2]
<1>1. /\ client[c] # Idle /\ Doing(c) \in Steps /\ Doing(c)[1] = "link"
      /\ \/ kind = "temporal-decision" \/ kind = "managed-decision" \/ kind = "activation"
         \/ /\ kind \in {"impact", "planning", "managed-request"}
            /\ kind = "managed-request" => ~NoWork
            /\ "temporal-decision" \in links /\ Accepted("temporal")
  <2>1. Doing(c)[1] = "link"
    BY DEF Link
  <2> QED BY <2>1, DoingIs, AdvanceIs
<1>2. UNCHANGED <<work, decided, opened, receipt, files, call, noops, crashes>>
  BY DEF Link
<1>3. \/ Raise(c) /\ links' = links
      \/ Done(c) /\ TargetExists(kind) /\ links' = links \cup {kind}
  BY DEF Link
<1>4. Grows
  BY <1>2, <1>3 DEF Grows
<1>5. /\ client' \in [Clients -> [document : Documents \cup {None}, todo : Seq(Steps)]]
      /\ \A e \in Clients : AtItsPlace(e)'
  <2>1. CASE Raise(c)
    BY <1>4, <2>1, CallEnds DEF Raise, Inv
  <2>2. CASE Done(c) /\ links' = links \cup {kind}
    <3>1. Doing(c) # <<"activate", "run">> /\ \A s : Doing(c) # <<"decide", s>>
      BY <1>1
    <3>2. Doing(c) = <<"link", "temporal-decision">> => "temporal-decision" \in links'
      BY <2>2
    <3> QED BY <1>1, <1>4, <2>2, <3>1, <3>2, WriteDone DEF Inv
  <2> QED BY <1>3, <2>1, <2>2
<1>6. TypeInv'
  <2>1. links' \subseteq Kinds
    BY <1>1, <1>3 DEF Inv, TypeInv, Kinds
  <2> QED BY <1>2, <1>5, <2>1 DEF Inv, TypeInv
<1>7. Founded'
  <2>1. CASE links' = links
    BY <1>2, <2>1 DEF Inv, Founded, Advanced, Accepted, NoWork
  <2>2. CASE TargetExists(kind) /\ links' = links \cup {kind}
    <3>1. /\ kind = "temporal-decision" => decided["temporal"] # None
          /\ kind = "managed-request" => opened
          /\ kind = "managed-decision" => decided["managed"] # None
          /\ kind = "activation" => receipt # None
      BY <2>2 DEF TargetExists, Stages
    <3>2. Advanced' => Advanced \/ kind \in {"impact", "planning", "managed-request"}
      BY <1>2, <2>2 DEF Advanced
    <3> QED BY <1>1, <1>2, <2>2, <3>1, <3>2 DEF Inv, Founded, Accepted, NoWork
  <2> QED BY <1>3, <2>1, <2>2
<1>8. noops' # {} => Ended'
  BY <1>2, <1>4, EndedStays DEF Inv
<1> QED BY <1>4, <1>5, <1>6, <1>7, <1>8 DEF Inv

LEMMA CrashStep ==
    ASSUME DownstreamAssumption, Inv, NEW c \in Clients, Crash(c)
    PROVE  Inv' /\ Grows
<1>1. UNCHANGED <<work, decided, opened, receipt, links, files, call, noops>>
  BY DEF Crash
<1>2. Grows
  BY <1>1 DEF Grows
<1>3. /\ client' \in [Clients -> [document : Documents \cup {None}, todo : Seq(Steps)]]
      /\ \A e \in Clients : AtItsPlace(e)'
  BY <1>2, CallEnds DEF Crash, Inv
<1>4. crashes' \in 0..MaxCrashes
  BY DEF Inv, TypeInv, Crash, DownstreamAssumption
<1>5. TypeInv'
  BY <1>1, <1>3, <1>4 DEF Inv, TypeInv
<1>6. Founded'
  BY <1>1 DEF Inv, Founded, Advanced, Accepted, NoWork
<1>7. noops' # {} => Ended'
  BY <1>1, <1>2, EndedStays DEF Inv
<1> QED BY <1>2, <1>3, <1>5, <1>6, <1>7 DEF Inv

-----------------------------------------------------------------------------
(* Calls.                                                                      *)

\* A document that may be submitted has its whole plan to do.
LEMMA Submitted ==
    ASSUME DownstreamAssumption, Inv, NEW c \in Clients, NEW d \in Documents,
           client' = [client EXCEPT ![c] = [document |-> d, todo |-> Plan(d)]],
           UNCHANGED <<work, decided, opened, receipt, links, files, call, noops, crashes>>,
           d.stage = "managed" => opened /\ "managed-request" \in links,
           d.stage = "activate" => Accepted("managed")
    PROVE  Inv' /\ Grows
<1>1. Grows
  BY DEF Grows
<1>2. PICK todo : todo = Plan(d)
  OBVIOUS
<1>3. todo \in Seq(Steps) /\ todo # <<>>
  BY <1>2, PlanSequence
<1>4. Plan(d)' = todo
  BY <1>2, PlanStays
<1>5. AtPlace(d, todo)'
  BY <1>3, <1>4 DEF AtPlace, Reviewing, Approving, Activating, Accepted
<1>6. client' = [client EXCEPT ![c] = [document |-> d, todo |-> todo]]
  BY <1>2
<1>7. /\ client' \in [Clients -> [document : Documents \cup {None}, todo : Seq(Steps)]]
      /\ \A e \in Clients : AtItsPlace(e)'
  BY <1>1, <1>3, <1>5, <1>6, CallGoesOn DEF Inv
<1>8. TypeInv' /\ Founded'
  BY <1>7 DEF Inv, TypeInv, Founded, Advanced, Accepted, NoWork
<1>9. noops' # {} => Ended'
  BY <1>1, EndedStays DEF Inv
<1> QED BY <1>1, <1>7, <1>8, <1>9 DEF Inv

\* What a packet or a phase shown to a caller says of the rows.
LEMMA Shown ==
    ASSUME DownstreamAssumption, Inv
    PROVE  /\ Packet = "managed" => opened /\ "managed-request" \in links
           /\ Status = "ready-to-activate" => Accepted("managed")
           /\ Status \in {"rejected-no-op", "completed-no-op"} => Ended
<1>1. Packet = "managed" => "managed-request" \in links
  BY DEF Packet
<1>2. Status = "ready-to-activate" => Derive \in {"activated", "ready-to-activate"}
  BY DEF Status, Phase
<1>3. Derive \in {"activated", "ready-to-activate"} => receipt # None \/ Accepted("managed")
  BY DEF Derive
<1>4. Status \in {"rejected-no-op", "completed-no-op"} => Derive = Status
  BY DEF Status, Phase
<1>5. Derive \in {"rejected-no-op", "completed-no-op"} => Ended
  BY DEF Derive, Planned, Ended, Inv, Founded
<1> QED BY <1>1, <1>2, <1>3, <1>4, <1>5 DEF Inv, Founded

LEMMA ReviewStep ==
    ASSUME DownstreamAssumption, Inv, NEW c \in Clients, NEW d \in Documents, Review(c, d)
    PROVE  Inv' /\ Grows
<1>1. d.stage = "managed" => Packet = "managed" \/ decided["managed"] = d
  BY DEF Review, Replay
<1>2. d.stage = "managed" => opened /\ "managed-request" \in links
  BY <1>1, Shown DEF Inv, Founded, DownstreamAssumption
<1> QED BY <1>2, Submitted DEF Review

LEMMA ActivateStep ==
    ASSUME DownstreamAssumption, Inv, NEW c \in Clients, NEW d \in Documents, Activate(c, d)
    PROVE  Inv' /\ Grows
BY Shown, Submitted DEF Activate

LEMMA ActivateNoOpStep ==
    ASSUME DownstreamAssumption, Inv, NEW c \in Clients, NEW d \in Documents,
           ActivateNoOp(c, d)
    PROVE  Inv' /\ Grows
<1>1. Ended
  BY Shown DEF ActivateNoOp
<1>2. /\ UNCHANGED <<work, decided, opened, receipt, links, files, call, client, crashes>>
      /\ noops' = noops \cup {d.op}
  BY DEF ActivateNoOp
<1>3. Grows
  BY <1>2 DEF Grows
<1>4. TypeInv' /\ Founded'
  BY <1>2 DEF Inv, TypeInv, Founded, Advanced, Accepted, NoWork
<1>5. Ended'
  BY <1>1, <1>3, EndedStays
<1>6. ASSUME NEW e \in Clients
      PROVE  AtItsPlace(e)'
  <2> SUFFICES ASSUME NEW f, NEW left, f = client[e].document, left = client[e].todo,
                      client[e] # Idle
               PROVE  AtPlace(f, left)'
    BY <1>2 DEF AtItsPlace, Idle
  <2>1. AtPlace(f, left)
    BY DEF AtItsPlace, Inv
  <2> QED BY <1>3, <2>1, PlaceStays
<1> QED BY <1>3, <1>4, <1>5, <1>6 DEF Inv

LEMMA InitInv ==
    ASSUME DownstreamAssumption, Init
    PROVE  Inv
<1>1. client = [c \in Clients |-> Idle]
  BY DEF Init
<1>2. Idle \in [document : Documents \cup {None}, todo : Seq(Steps)]
  BY DEF Idle
<1>3. client \in [Clients -> [document : Documents \cup {None}, todo : Seq(Steps)]]
  BY <1>1, <1>2
<1>4. \A c \in Clients : client[c] = Idle
  BY <1>1
<1>5. /\ decided \in [{"temporal", "managed"} -> Documents \cup {None}]
      /\ decided["temporal"] = None /\ decided["managed"] = None
      /\ call \in [Stages -> {"free", "claimed", "recorded"}]
      /\ \A s \in Stages : call[s] = "free"
  BY DEF Init
<1>6. TypeInv
  <2>1. /\ work \in Works /\ opened \in BOOLEAN /\ receipt = None
        /\ links \subseteq Kinds /\ files \subseteq Evidence
        /\ noops \subseteq {d.op : d \in Documents}
    BY DEF Init
  <2>2. crashes \in 0..MaxCrashes
    BY DEF Init, DownstreamAssumption
  <2> QED BY <1>3, <1>5, <2>1, <2>2 DEF TypeInv
<1>7. Founded
  BY <1>5 DEF Init, Founded, Advanced
<1> QED BY <1>4, <1>6, <1>7 DEF Inv, AtItsPlace, Init

LEMMA NextInv ==
    ASSUME DownstreamAssumption, Inv, [Next]_vars
    PROVE  Inv' /\ Grows
<1>1. ASSUME NEW c \in Clients, Goes(c)
      PROVE  Inv' /\ Grows
  BY <1>1, DecideStep, AskProviderStep, RecordResultStep, PersistStageStep,
     OpenManagedReviewStep, ActivateGenerationStep, LinkStep DEF Goes
<1>2. ASSUME NEW d \in Documents, Submits(d) \/ \E c \in Clients : ActivateNoOp(c, d)
      PROVE  Inv' /\ Grows
  BY <1>2, ReviewStep, ActivateStep, ActivateNoOpStep DEF Submits
<1>3. CASE UNCHANGED vars
  <2>1. UNCHANGED <<work, decided, opened, receipt, links, files, call, noops, client, crashes>>
    BY <1>3 DEF vars
  <2>2. Grows
    BY <2>1 DEF Grows
  <2>3. TypeInv' /\ Founded'
    BY <2>1 DEF Inv, TypeInv, Founded, Advanced, Accepted, NoWork
  <2>4. noops' # {} => Ended'
    BY <2>1, <2>2, EndedStays DEF Inv
  <2>5. ASSUME NEW e \in Clients
        PROVE  AtItsPlace(e)'
    <3> SUFFICES ASSUME NEW f, NEW left, f = client[e].document, left = client[e].todo,
                        client[e] # Idle
                 PROVE  AtPlace(f, left)'
      BY <2>1 DEF AtItsPlace, Idle
    <3>1. AtPlace(f, left)
      BY DEF AtItsPlace, Inv
    <3> QED BY <2>2, <3>1, PlaceStays
  <2> QED BY <2>2, <2>3, <2>4, <2>5 DEF Inv
<1> QED BY <1>1, <1>2, <1>3, CrashStep DEF Next

-----------------------------------------------------------------------------
(* What follows from the invariant.                                          *)

LEMMA TypesHold ==
    ASSUME DownstreamAssumption, Inv
    PROVE  TypeOK
<1>1. \A c \in Clients : client[c] = Idle <=> client[c].todo = <<>>
  BY DEF Inv, AtItsPlace, AtPlace, Idle
<1> QED BY <1>1 DEF Inv, TypeInv, TypeOK

\* The links that a run of the derived phase cannot have yet.
LEMMA LinksFit ==
    ASSUME DownstreamAssumption, Inv
    PROVE  StatusAlwaysReadable
<1>1. /\ links \subseteq Kinds
      /\ opened => "temporal-decision" \in links
      /\ ~opened => {"managed-request", "managed-decision", "activation"} \cap links = {}
      /\ receipt = None => "activation" \notin links
      /\ decided["managed"] = None =>
           {"managed-decision", "activation"} \cap links = {} /\ receipt = None
      /\ "temporal-decision" \notin links => links = {}
      /\ ~Accepted("temporal") => links \subseteq {"temporal-decision"}
    BY DEF Inv, TypeInv, Founded, Advanced, Accepted, Kinds
<1>2. links \subseteq Allowed(Phase)
  <2>1. CASE opened
    BY <1>1, <2>1 DEF Allowed, Phase, Derive, Planned, Kinds
  <2>2. CASE ~opened
    BY <1>1, <2>2 DEF Allowed, Phase, Derive, Planned, Kinds
  <2> QED BY <2>1, <2>2
<1>3. Status = Phase
  BY <1>2 DEF Status
<1>4. Status # "raises"
  BY <1>3 DEF Phase, Derive, Planned
<1>5. Status = "ready-to-activate" => decided["managed"] # None
  BY Shown DEF Accepted
<1>6. Derive = "activated" <=> receipt # None
  BY DEF Derive, Inv, Founded, Accepted
<1>7. Listed = "raises" <=> Phase # Derive
  BY <1>3, <1>4 DEF Listed
<1>8. Listed = "raises" <=> receipt # None /\ "activation" \notin links
  BY <1>6, <1>7 DEF Phase
<1> QED BY <1>4, <1>5, <1>8 DEF StatusAlwaysReadable, Inv, Founded

LEMMA NoEffects ==
    ASSUME DownstreamAssumption, Inv
    PROVE  RejectionHasNoEffects
<1>1. decided["temporal"] # None /\ ~Accepted("temporal") => ~Advanced
  BY DEF Inv, Founded
<1>2. receipt # None => Accepted("managed") /\ opened /\ ~NoWork
  BY DEF Inv, Founded, Accepted
<1>3. receipt # None => Accepted("temporal")
  BY <1>2 DEF Inv, Founded, Advanced
<1>4. receipt # None => ~Ended
  BY <1>2, <1>3 DEF Ended
<1> QED BY <1>1, <1>2, <1>3, <1>4 DEF RejectionHasNoEffects, Inv, Advanced

LEMMA PhaseMovesForward ==
    ASSUME DownstreamAssumption, Inv, Inv', Grows, StatusAlwaysReadable, StatusAlwaysReadable'
    PROVE  Rank(Status') >= Rank(Status) /\ (Rank(Status) = 4 => Status' = Status)
<1>1. Status = Phase /\ Status' = Phase'
  BY DEF StatusAlwaysReadable, Status
<1>2. NoWork' = NoWork
  BY DEF Grows, NoWork
<1>3. \A s \in {"temporal", "managed"} :
          decided[s] # None => decided'[s] # None /\ Accepted(s)' = Accepted(s)
  BY DEF Grows, Accepted
<1> QED BY <1>1, <1>2, <1>3 DEF Inv, Founded, Advanced, Accepted, Grows, Phase, Derive, Planned, Rank

\* The inductive invariant: what rows, links and clients rest on, whatever order
\* the writes of two clients come in and wherever their calls stop
\* (record_change_review and activate_change of application_downstream.py).
THEOREM LifecycleInvariant ==
    ASSUME DownstreamAssumption
    PROVE  Spec => []Inv
<1>1. Inv /\ [Next]_vars => Inv'
  BY NextInv
<1> QED BY <1>1, InitInv, PTL DEF Spec

\* Rows, links, evidence files, calls and clients keep their types.
THEOREM LifecycleTypes ==
    ASSUME DownstreamAssumption
    PROVE  Spec => []TypeOK
<1>1. Inv => TypeOK
  BY TypesHold
<1> QED BY <1>1, LifecycleInvariant, PTL

\* The status of a run can always be read: its links fit the phase that its rows
\* derive (_require_shape of application_read_models.py), a run that may be
\* activated has the link that activation reopens its request by, and list_changes
\* raises on it between the receipt of its activation and the link, and only there.
THEOREM StatusIsReadable ==
    ASSUME DownstreamAssumption
    PROVE  Spec => []StatusAlwaysReadable
<1>1. Inv => StatusAlwaysReadable
  BY LinksFit
<1> QED BY <1>1, LifecycleInvariant, PTL

\* A rejection, or no work, has no effects, whatever was under way when it came.
THEOREM RejectionsAreHarmless ==
    ASSUME DownstreamAssumption
    PROVE  Spec => []RejectionHasNoEffects
<1>1. Inv => RejectionHasNoEffects
  BY NoEffects
<1> QED BY <1>1, LifecycleInvariant, PTL

\* The first decision for a packet stands, the first activation stands, and the
\* phase that callers are shown only moves forward to an end that is one.
THEOREM FirstDecisionIsFinal ==
    ASSUME DownstreamAssumption
    PROVE  Spec => FirstDecisionStands
<1>1. ASSUME Inv, Inv', StatusAlwaysReadable, StatusAlwaysReadable', RejectionHasNoEffects',
             [Next]_vars
      PROVE  /\ \A s \in {"temporal", "managed"} : decided[s] # None => decided'[s] = decided[s]
             /\ receipt # None => receipt' = receipt
             /\ Rank(Status') >= Rank(Status)
             /\ Rank(Status) = 4 => Status' = Status
             /\ RejectionHasNoEffects'
  <2>1. Grows
    BY <1>1, NextInv
  <2> QED BY <1>1, <2>1, PhaseMovesForward DEF Grows
<1> QED BY <1>1, LifecycleInvariant, StatusIsReadable, RejectionsAreHarmless, PTL
        DEF Spec, FirstDecisionStands
=============================================================================
