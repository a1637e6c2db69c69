------------------------- MODULE ProviderCallsProofs -------------------------
(* What TLAPS proves of ProviderCalls: for any number of processes, requests,  *)
(* contracts, crashes and attempts a provider is asked at most once for a      *)
(* request and everyone is answered alike.  The argument: a request is tried   *)
(* by one process from the claim to the end of the attempt, because only an    *)
(* absent claim begins one and a claim, once linked, is never removed; what    *)
(* that process holds is what the claim says; and a pointer is linked by it    *)
(* alone, under the lock, after the result it names.                           *)
EXTENDS ProviderCalls, TLAPS

Places == {"idle", "claiming", "claimed", "leased", "answered", "recording", "linked"}
Locked == {"claiming", "claimed", "recording", "linked"}

\* A directory of the journal: a name is absent, or it is of a file with a value,
\* whose inode has one name or, half-linked, two.
Files(V) == [value : V, names : {1, 2}]
Directories(V) == [Requests -> Files(V) \cup {Absent}]

ProcessStates ==
    [at : Places, request : Requests \cup {None}, claim : Claims \cup {None},
     reply : Replies \cup {None},
     todo : {<<"result", "pointer">>, <<"pointer">>, <<>>}, attempts : Nat]

TypeInv ==
    /\ claim \in Directories(Claims)
    /\ pointer \in Directories(Results)
    /\ lock \in Processes \cup {None}
    /\ process \in [Processes -> ProcessStates]
    /\ asked \in [Requests -> {0, 1}]
    /\ told \subseteq [request : Requests, contract : Contracts, reply : Replies]
    /\ crashes \in Nat

Busy(p) == process[p].at # "idle"

\* What a process that is about a request knows of it.
AtItsPlace(p) ==
    LET s == process[p]
        k == s.request
    IN  Busy(p) =>
          /\ k \in Requests /\ s.claim \in Claims
          /\ s.at \in Locked => lock = p
          /\ s.at = "claiming" => claim[k] = Absent
          /\ s.at # "claiming" => claim[k] # Absent /\ claim[k].value = s.claim
          /\ s.at \in {"claiming", "claimed", "leased"} => asked[k] = 0
          /\ s.at \in {"answered", "recording", "linked"} => s.reply \in Replies
          /\ s.at = "recording" =>
                /\ s.todo # <<>> => pointer[k] = Absent
                /\ s.todo = <<"pointer">> => Completion(p) \in results
          /\ s.at = "linked" => pointer[k] # Absent /\ s.todo = <<"pointer">>

\* Two processes are never about one request.
OneAtATime ==
    \A p, q \in Processes :
        Busy(p) /\ Busy(q) /\ process[p].request = process[q].request => p = q

\* What was asked was claimed, what was completed is the claim's, and what was
\* told is the completion.
Journaled(k) ==
    /\ claim[k] = Absent => asked[k] = 0 /\ pointer[k] = Absent
    /\ pointer[k] # Absent =>
            pointer[k].value \in results /\ pointer[k].value.claim = claim[k].value

AsCompleted(t) ==
    /\ pointer[t.request] # Absent
    /\ t.reply = pointer[t.request].value.reply
    /\ t.contract = pointer[t.request].value.claim.contract

Inv ==
    /\ TypeInv
    /\ \A p \in Processes : AtItsPlace(p)
    /\ OneAtATime
    /\ \A k \in Requests : Journaled(k)
    /\ \A t \in told : AsCompleted(t)

-----------------------------------------------------------------------------
(* The directories.                                                          *)

\* _create_only: the new name gets its value, and no other name is lost or made, or
\* changes what it is of.
LEMMA LinkedDirectory ==
    ASSUME NEW V, NEW dir \in Directories(V), NEW k \in Requests, NEW value \in V
    PROVE  /\ Linked(dir, k, value) \in Directories(V)
           /\ Linked(dir, k, value)[k] = [value |-> value, names |-> 2]
           /\ Linked(dir, k, value)[k] # Absent
           /\ \A j \in Requests : j # k =>
                /\ Linked(dir, k, value)[j].value = dir[j].value
                /\ Linked(dir, k, value)[j] = Absent <=> dir[j] = Absent
<1> DEFINE new == [value |-> value, names |-> 2]
           cleaned(j) == [dir[j] EXCEPT !.names = IF @ = 2 THEN 1 ELSE @]
<1>1. \A j \in Requests :
        /\ cleaned(j) \in Files(V) \cup {Absent}
        /\ cleaned(j).value = dir[j].value
        /\ cleaned(j) = Absent <=> dir[j] = Absent
  <2> SUFFICES ASSUME NEW j \in Requests
               PROVE  /\ cleaned(j) \in Files(V) \cup {Absent}
                      /\ cleaned(j).value = dir[j].value
                      /\ cleaned(j) = Absent <=> dir[j] = Absent
    OBVIOUS
  <2>1. CASE dir[j] = Absent
    BY <2>1 DEF Absent
  <2>2. CASE dir[j] \in Files(V)
    BY <2>2 DEF Files, Absent
  <2> QED BY <2>1, <2>2 DEF Directories
<1>2. new \in Files(V) /\ new # Absent
  BY DEF Files, Absent
<1>3. Linked(dir, k, value) = [j \in Requests |-> IF j = k THEN new ELSE cleaned(j)]
  BY DEF Linked, Cleaned
<1> HIDE DEF new, cleaned
<1>4. /\ Linked(dir, k, value) \in [Requests -> Files(V) \cup {Absent}]
      /\ Linked(dir, k, value)[k] = new
      /\ \A j \in Requests : j # k => Linked(dir, k, value)[j] = cleaned(j)
  BY <1>1, <1>2, <1>3
<1> QED BY <1>1, <1>2, <1>4 DEF Directories, new

\* The pending name is unlinked: the name is of what it was.
LEMMA UnlinkedDirectory ==
    ASSUME NEW V, NEW dir \in Directories(V), NEW k \in Requests, dir[k] # Absent
    PROVE  /\ Unlinked(dir, k) \in Directories(V)
           /\ \A j \in Requests :
                /\ Unlinked(dir, k)[j].value = dir[j].value
                /\ Unlinked(dir, k)[j] = Absent <=> dir[j] = Absent
<1> DEFINE one == [dir[k] EXCEPT !.names = 1]
<1>1. dir[k] \in Files(V)
  BY DEF Directories
<1>2. one \in Files(V) /\ one.value = dir[k].value /\ one # Absent
  BY <1>1 DEF Files, Absent
<1>3. Unlinked(dir, k) = [dir EXCEPT ![k] = one]
  BY DEF Unlinked
<1> HIDE DEF one
<1> QED BY <1>2, <1>3 DEF Directories

-----------------------------------------------------------------------------
(* What a step of one process leaves to the others.                          *)

\* Nothing is known of the request after the step that was not known before.
Untouched(k) ==
    /\ claim'[k] = Absent <=> claim[k] = Absent
    /\ claim'[k].value = claim[k].value
    /\ pointer'[k] = Absent <=> pointer[k] = Absent
    /\ pointer'[k].value = pointer[k].value
    /\ asked'[k] = asked[k]

LEMMA OthersStay ==
    ASSUME NEW q \in Processes, AtItsPlace(q), process'[q] = process[q],
           results \subseteq results', lock = q => lock' = q,
           Busy(q) => Untouched(process[q].request)
    PROVE  AtItsPlace(q)'
BY DEF AtItsPlace, Busy, Untouched, Completion, Locked

LEMMA RequestsStay ==
    ASSUME NEW k, Journaled(k), Untouched(k), results \subseteq results'
    PROVE  Journaled(k)'
BY DEF Journaled, Untouched

LEMMA AnswersStay ==
    ASSUME NEW t, AsCompleted(t), Untouched(t.request)
    PROVE  AsCompleted(t)'
BY DEF AsCompleted, Untouched

LEMMA UnchangedIsUntouched ==
    ASSUME NEW k, UNCHANGED <<claim, pointer, asked>>
    PROVE  Untouched(k)
BY DEF Untouched

\* A process that gives up, or dies, leaves the journal to the others.
LEMMA ProcessReturns ==
    ASSUME Inv, NEW p \in Processes, Return(p), results' = results,
           UNCHANGED <<claim, pointer>>,
           asked' \in [Requests -> {0, 1}],
           \A k \in Requests : ~(Busy(p) /\ k = process[p].request) => asked'[k] = asked[k],
           Busy(p) => claim[process[p].request] # Absent \/ asked' = asked,
           lock' \in {Unlocked(p), lock},
           told' \subseteq [request : Requests, contract : Contracts, reply : Replies],
           \A t \in told' : AsCompleted(t),
           crashes' \in Nat
    PROVE  Inv'
<1>1. TypeInv'
  <2>1. process' \in [Processes -> ProcessStates]
    <3>1. process[p].attempts + 1 \in Nat
      BY DEF Inv, TypeInv, ProcessStates
    <3>2. Idle(process[p].attempts + 1) \in ProcessStates
      BY <3>1 DEF Idle, Places, ProcessStates
    <3> QED BY <3>2 DEF Return, Inv, TypeInv
  <2> QED BY <2>1 DEF Inv, TypeInv, Unlocked
<1>2. ~Busy(p)' /\ \A q \in Processes : q # p => process'[q] = process[q]
  BY DEF Busy, Return, Idle, Inv, TypeInv
<1>3. \A q \in Processes : AtItsPlace(q)'
  <2> SUFFICES ASSUME NEW q \in Processes, q # p
               PROVE  AtItsPlace(q)'
    BY <1>2 DEF AtItsPlace
  <2>1. lock = q => lock' = q
    BY DEF Unlocked
  <2>2. Busy(q) => Untouched(process[q].request)
    BY DEF Inv, OneAtATime, AtItsPlace, Untouched
  <2> QED BY <1>2, <2>1, <2>2, OthersStay DEF Inv
<1>4. OneAtATime'
  BY <1>2 DEF Inv, OneAtATime, Busy
<1>5. \A k \in Requests : Journaled(k)'
  BY DEF Inv, Journaled
<1>6. \A t \in told' : AsCompleted(t)'
  BY DEF AsCompleted
<1> QED BY <1>1, <1>3, <1>4, <1>5, <1>6 DEF Inv

-----------------------------------------------------------------------------
(* The invariant holds at the start, and every step keeps it.                *)

LEMMA InvInit ==
    ASSUME Init
    PROVE  Inv
<1>1. Absent \in Files(Claims) \cup {Absent} /\ Absent \in Files(Results) \cup {Absent}
  OBVIOUS
<1>2. Idle(0) \in ProcessStates
  BY DEF Idle, Places, ProcessStates
<1>3. TypeInv
  BY <1>1, <1>2 DEF Init, TypeInv, Directories
<1>4. \A p \in Processes : ~Busy(p)
  BY DEF Init, Busy, Idle
<1>5. \A k \in Requests : Journaled(k)
  BY DEF Init, Journaled
<1> QED BY <1>3, <1>4, <1>5 DEF Inv, AtItsPlace, OneAtATime, Init

\* A process that goes on with its request has moved, and is still about it.
LEMMA MovedProcess ==
    ASSUME Inv, NEW p \in Processes, Busy(p),
           process'[p].at # "idle", process'[p].request = process[p].request,
           \A q \in Processes : q # p => process'[q] = process[q]
    PROVE  OneAtATime'
BY DEF Inv, OneAtATime, Busy

\* begin: an absent claim means that nobody is about the request.
LEMMA BeginKeepsInv ==
    ASSUME CallsAssumption, Inv, NEW p \in Processes, NEW k \in Requests, NEW c \in Claims,
           Begin(p, k, c)
    PROVE  Inv'
<1>1. ~Busy(p) /\ lock = None /\ lock # p
  BY DEF Begin, Busy, CallsAssumption
<1>2. UNCHANGED <<claim, pointer, results, asked, crashes>>
  BY DEF Begin
<1>3. CASE Fresh(k)
  <2>1. /\ lock' = p /\ told' = told
        /\ process' = [process EXCEPT ![p] =
                [@ EXCEPT !.at = "claiming", !.request = k, !.claim = c]]
    BY <1>3 DEF Begin
  <2>2. TypeInv'
    BY <1>2, <2>1 DEF Inv, TypeInv, Places, ProcessStates
  <2>3. /\ process'[p].at = "claiming" /\ process'[p].request = k /\ process'[p].claim = c
        /\ \A q \in Processes : q # p => process'[q] = process[q]
    BY <2>1 DEF Inv, TypeInv
  <2>4. claim[k] = Absent /\ asked[k] = 0
    BY <1>3 DEF Fresh, Inv, Journaled
  <2>5. \A q \in Processes : Busy(q) => process[q].at \notin Locked
    BY <1>1 DEF Inv, AtItsPlace, CallsAssumption
  <2>6. \A q \in Processes : Busy(q) => process[q].request # k
    BY <2>4, <2>5 DEF Inv, AtItsPlace, Locked
  <2>7. \A q \in Processes : AtItsPlace(q)'
    <3> SUFFICES ASSUME NEW q \in Processes
                 PROVE  AtItsPlace(q)'
      OBVIOUS
    <3>1. CASE q = p
      BY <3>1, <1>2, <2>1, <2>3, <2>4 DEF AtItsPlace, Busy
    <3>2. CASE q # p
      BY <3>2, <1>1, <1>2, <2>3, OthersStay, UnchangedIsUntouched DEF Inv, CallsAssumption
    <3> QED BY <3>1, <3>2
  <2>8. OneAtATime'
    BY <2>3, <2>6 DEF Inv, OneAtATime, Busy
  <2> QED BY <1>2, <2>1, <2>2, <2>7, <2>8 DEF Inv, Journaled, AsCompleted
<1>4. CASE ~Fresh(k) /\ Completed(k, c)
  <2> DEFINE t == [request |-> k, contract |-> c.contract, reply |-> pointer[k].value.reply]
  <2>1. told' = told \cup {t} /\ Return(p) /\ lock' = lock
    BY <1>4 DEF Begin, Answer
  <2>2. /\ pointer[k] # Absent /\ pointer[k].value.claim = claim[k].value
        /\ claim[k].value.contract = c.contract
    BY <1>4 DEF Completed, SameSemantics
  <2>3. pointer[k] \in Files(Results)
    BY <2>2 DEF Inv, TypeInv, Directories
  <2>4. pointer[k].value.reply \in Replies /\ c.contract \in Contracts
    BY <2>3 DEF Files, Results, Claims
  <2>5. t \in [request : Requests, contract : Contracts, reply : Replies] /\ AsCompleted(t)
    BY <2>2, <2>4 DEF AsCompleted
  <2> HIDE DEF t
  <2>6. /\ told' \subseteq [request : Requests, contract : Contracts, reply : Replies]
        /\ \A u \in told' : AsCompleted(u)
    BY <2>1, <2>5 DEF Inv, TypeInv
  <2> QED BY <1>1, <1>2, <2>1, <2>6, ProcessReturns DEF Inv, TypeInv
<1>5. CASE ~Fresh(k) /\ ~Completed(k, c)
  <2>1. Return(p) /\ lock' = lock /\ told' = told
    BY <1>5 DEF Begin
  <2> QED BY <1>1, <1>2, <2>1, ProcessReturns DEF Inv, TypeInv
<1> QED BY <1>3, <1>4, <1>5

LEMMA LinkClaimKeepsInv ==
    ASSUME CallsAssumption, Inv, NEW p \in Processes, LinkClaim(p)
    PROVE  Inv'
<1> DEFINE k == process[p].request
           c == process[p].claim
<1>1. /\ process[p].at = "claiming" /\ Busy(p)
      /\ claim' = Linked(claim, k, c)
      /\ process' = [process EXCEPT ![p].at = "claimed"]
      /\ UNCHANGED <<pointer, results, lock, asked, told, crashes>>
  BY DEF LinkClaim, Busy
<1>2. k \in Requests /\ c \in Claims /\ lock = p /\ claim[k] = Absent /\ asked[k] = 0
  BY <1>1 DEF Inv, AtItsPlace, Locked
<1>3. claim \in Directories(Claims)
  BY DEF Inv, TypeInv
<1> HIDE DEF k, c
<1>4. /\ claim' \in Directories(Claims)
      /\ claim'[k] = [value |-> c, names |-> 2] /\ claim'[k] # Absent
      /\ \A j \in Requests : j # k => claim'[j].value = claim[j].value
      /\ \A j \in Requests : j # k => (claim'[j] = Absent <=> claim[j] = Absent)
  BY <1>1, <1>2, <1>3, LinkedDirectory
<1>5. TypeInv'
  BY <1>1, <1>4 DEF Inv, TypeInv, Places, ProcessStates
<1>6. /\ process'[p].at = "claimed" /\ process'[p].request = k /\ process'[p].claim = c
      /\ \A q \in Processes : q # p => process'[q] = process[q]
  BY <1>1 DEF Inv, TypeInv, k, c
<1>7. \A j \in Requests : j # k => Untouched(j)
  BY <1>1, <1>4 DEF Untouched
<1>8. \A q \in Processes : AtItsPlace(q)'
  <2> SUFFICES ASSUME NEW q \in Processes
               PROVE  AtItsPlace(q)'
    OBVIOUS
  <2>1. CASE q = p
    BY <2>1, <1>1, <1>2, <1>4, <1>6 DEF AtItsPlace, Busy
  <2>2. CASE q # p
    <3>1. Busy(q) => process[q].request \in Requests /\ process[q].request # k
      BY <2>2, <1>1 DEF Inv, OneAtATime, AtItsPlace, k
    <3> QED BY <2>2, <3>1, <1>1, <1>6, <1>7, OthersStay DEF Inv
  <2> QED BY <2>1, <2>2
<1>9. OneAtATime'
  BY <1>1, <1>6, MovedProcess DEF k
<1>10. pointer[k] = Absent
  BY <1>2 DEF Inv, Journaled
<1>11. \A j \in Requests : Journaled(j)'
  <2>1. ASSUME NEW j \in Requests, j = k
        PROVE  Journaled(j)'
    BY <2>1, <1>1, <1>4, <1>10 DEF Journaled
  <2> QED BY <2>1, <1>1, <1>7, RequestsStay DEF Inv
<1>12. \A t \in told' : AsCompleted(t)'
  BY <1>1 DEF Inv, AsCompleted
<1> QED BY <1>5, <1>8, <1>9, <1>11, <1>12 DEF Inv

LEMMA LeaseFreshKeepsInv ==
    ASSUME CallsAssumption, Inv, NEW p \in Processes, LeaseFresh(p)
    PROVE  Inv'
<1> DEFINE k == process[p].request
<1>1. /\ process[p].at = "claimed" /\ Busy(p)
      /\ claim' = Unlinked(claim, k)
      /\ process' = [process EXCEPT ![p].at = "leased"]
      /\ lock' = Unlocked(p)
      /\ UNCHANGED <<pointer, results, asked, told, crashes>>
  BY DEF LeaseFresh, Busy
<1>2. /\ k \in Requests /\ process[p].claim \in Claims /\ lock = p
      /\ claim[k] # Absent /\ claim[k].value = process[p].claim /\ asked[k] = 0
  BY <1>1 DEF Inv, AtItsPlace, Locked
<1>3. claim \in Directories(Claims)
  BY DEF Inv, TypeInv
<1> HIDE DEF k
<1>4. /\ claim' \in Directories(Claims)
      /\ \A j \in Requests : claim'[j].value = claim[j].value
      /\ \A j \in Requests : claim'[j] = Absent <=> claim[j] = Absent
  BY <1>1, <1>2, <1>3, UnlinkedDirectory
<1>5. TypeInv'
  BY <1>1, <1>4 DEF Inv, TypeInv, Places, ProcessStates, Unlocked
<1>6. /\ process'[p].at = "leased" /\ process'[p].request = k
      /\ process'[p].claim = process[p].claim
      /\ \A q \in Processes : q # p => process'[q] = process[q]
  BY <1>1 DEF Inv, TypeInv, k
<1>7. \A j \in Requests : Untouched(j)
  BY <1>1, <1>4 DEF Untouched
<1>8. \A q \in Processes : AtItsPlace(q)'
  <2> SUFFICES ASSUME NEW q \in Processes
               PROVE  AtItsPlace(q)'
    OBVIOUS
  <2>1. CASE q = p
    BY <2>1, <1>1, <1>2, <1>4, <1>6 DEF AtItsPlace, Busy, Locked
  <2>2. CASE q # p
    <3>1. Busy(q) => process[q].request \in Requests
      BY DEF Inv, AtItsPlace
    <3> QED BY <2>2, <3>1, <1>1, <1>2, <1>6, <1>7, OthersStay DEF Inv
  <2> QED BY <2>1, <2>2
<1>9. OneAtATime'
  BY <1>1, <1>6, MovedProcess DEF k
<1>10. \A j \in Requests : Journaled(j)'
  BY <1>1, <1>7, RequestsStay DEF Inv
<1>11. \A t \in told' : AsCompleted(t)'
  BY <1>1 DEF Inv, AsCompleted
<1> QED BY <1>5, <1>8, <1>9, <1>10, <1>11 DEF Inv

\* The one process that is about the request has not asked for it yet.
LEMMA AskProviderKeepsInv ==
    ASSUME CallsAssumption, Inv, NEW p \in Processes, AskProvider(p)
    PROVE  Inv'
<1> DEFINE k == process[p].request
<1>1. /\ process[p].at = "leased" /\ Busy(p)
      /\ asked' = [asked EXCEPT ![k] = @ + 1]
      /\ UNCHANGED <<claim, pointer, results, lock, told, crashes>>
  BY DEF AskProvider, Busy
<1>2. /\ k \in Requests /\ process[p].claim \in Claims
      /\ claim[k] # Absent /\ claim[k].value = process[p].claim /\ asked[k] = 0
  BY <1>1 DEF Inv, AtItsPlace
<1> HIDE DEF k
<1>3. asked' \in [Requests -> {0, 1}] /\ \A j \in Requests : j # k => asked'[j] = asked[j]
  BY <1>1, <1>2 DEF Inv, TypeInv
<1>4. \A j \in Requests : j # k => Untouched(j)
  BY <1>1, <1>3 DEF Untouched
<1>5. \A t \in told' : AsCompleted(t)'
  BY <1>1 DEF Inv, AsCompleted
<1>6. ASSUME NEW reply \in Replies,
             process' = [process EXCEPT ![p].at = "answered", ![p].reply = reply]
      PROVE  Inv'
  <2>1. TypeInv'
    <3>1. process' = [process EXCEPT ![p] = [process[p] EXCEPT !.at = "answered", !.reply = reply]]
      BY <1>6 DEF Inv, TypeInv
    <3> QED BY <3>1, <1>1, <1>3 DEF Inv, TypeInv, Places, ProcessStates
  <2>2. /\ process'[p].at = "answered" /\ process'[p].request = k
        /\ process'[p].claim = process[p].claim /\ process'[p].reply = reply
        /\ \A q \in Processes : q # p => process'[q] = process[q]
    BY <1>6 DEF Inv, TypeInv, k
  <2>3. \A q \in Processes : AtItsPlace(q)'
    <3> SUFFICES ASSUME NEW q \in Processes
                 PROVE  AtItsPlace(q)'
      OBVIOUS
    <3>1. CASE q = p
      BY <3>1, <1>1, <1>2, <2>2 DEF AtItsPlace, Busy, Locked
    <3>2. CASE q # p
      <4>1. Busy(q) => process[q].request \in Requests /\ process[q].request # k
        BY <3>2, <1>1 DEF Inv, OneAtATime, AtItsPlace, k
      <4> QED BY <3>2, <4>1, <1>1, <2>2, <1>4, OthersStay DEF Inv
    <3> QED BY <3>1, <3>2
  <2>4. OneAtATime'
    BY <1>1, <2>2, MovedProcess DEF k
  <2>5. \A j \in Requests : Journaled(j)'
    <3>1. ASSUME NEW j \in Requests, j = k
          PROVE  Journaled(j)'
      BY <3>1, <1>1, <1>2 DEF Inv, Journaled
    <3> QED BY <3>1, <1>1, <1>4, RequestsStay DEF Inv
  <2> QED BY <1>5, <2>1, <2>3, <2>4, <2>5 DEF Inv
<1>7. ASSUME Return(p)
      PROVE  Inv'
  <2>1. TypeInv /\ \A t \in told' : AsCompleted(t)
    BY <1>1 DEF Inv
  <2> QED BY <1>1, <1>2, <1>3, <1>7, <2>1, ProcessReturns DEF TypeInv, k
<1> QED BY <1>6, <1>7 DEF AskProvider

LEMMA RefuseAnswerKeepsInv ==
    ASSUME CallsAssumption, Inv, NEW p \in Processes, RefuseAnswer(p)
    PROVE  Inv'
BY ProcessReturns DEF RefuseAnswer, Inv, TypeInv

LEMMA CrashKeepsInv ==
    ASSUME CallsAssumption, Inv, NEW p \in Processes, Crash(p)
    PROVE  Inv'
BY ProcessReturns DEF Crash, Inv, TypeInv

LEMMA ReopenResultKeepsInv ==
    ASSUME CallsAssumption, Inv, NEW p \in Processes, ReopenResult(p)
    PROVE  Inv'
<1> DEFINE k == process[p].request
           t == [request |-> k, contract |-> process[p].claim.contract,
                 reply |-> process[p].reply]
<1>1. /\ process[p].at = "recording" /\ Busy(p)
      /\ lock' = Unlocked(p) /\ Return(p)
      /\ UNCHANGED <<claim, pointer, results, asked, crashes>>
  BY DEF ReopenResult, Busy
<1>2. /\ k \in Requests /\ process[p].claim \in Claims
      /\ claim[k] # Absent /\ claim[k].value = process[p].claim
      /\ process[p].reply \in Replies
  BY <1>1 DEF Inv, AtItsPlace
<1>3. /\ told' \subseteq [request : Requests, contract : Contracts, reply : Replies]
      /\ \A u \in told' : AsCompleted(u)
  <2>1. CASE UNCHANGED told
    BY <2>1 DEF Inv, TypeInv
  <2>2. CASE /\ pointer[k] = [value |-> Completion(p), names |-> 1]
             /\ Answer(k, process[p].claim, process[p].reply)
    <3>1. told' = told \cup {t}
      BY <2>2 DEF Answer
    <3>2. pointer[k] # Absent /\ pointer[k].value = Completion(p)
      BY <2>2 DEF Absent
    <3>3. t \in [request : Requests, contract : Contracts, reply : Replies]
      BY <1>2 DEF Claims
    <3>4. AsCompleted(t)
      BY <3>2 DEF AsCompleted, Completion
    <3> HIDE DEF t
    <3> QED BY <3>1, <3>3, <3>4 DEF Inv, TypeInv
  <2> QED BY <2>1, <2>2 DEF ReopenResult
<1> QED BY <1>1, <1>2, <1>3, ProcessReturns DEF Inv, TypeInv

\* complete, the locked check: a request without a completion may get this one.
LEMMA LockForResultKeepsInv ==
    ASSUME CallsAssumption, Inv, NEW p \in Processes, LockForResult(p)
    PROVE  Inv'
<1> DEFINE k == process[p].request
<1>1. /\ process[p].at = "answered" /\ Busy(p) /\ lock = None
      /\ UNCHANGED <<claim, pointer, results, asked, told, crashes>>
  BY DEF LockForResult, Busy
<1>2. /\ k \in Requests /\ process[p].claim \in Claims
      /\ claim[k] # Absent /\ claim[k].value = process[p].claim
      /\ process[p].reply \in Replies
  BY <1>1 DEF Inv, AtItsPlace
<1>3. CASE Recordable(p)
  <2>1. /\ lock' = p /\ pointer[k] = Absent
        /\ process' = [process EXCEPT ![p].at = "recording",
                                      ![p].todo = <<"result", "pointer">>]
    BY <1>3, <1>1 DEF LockForResult, Recordable, RecordOrder
  <2>2. process' = [process EXCEPT ![p] =
            [process[p] EXCEPT !.at = "recording", !.todo = <<"result", "pointer">>]]
    BY <2>1 DEF Inv, TypeInv
  <2>3. TypeInv'
    BY <1>1, <2>1, <2>2 DEF Inv, TypeInv, Places, ProcessStates
  <2>4. /\ process'[p].at = "recording" /\ process'[p].todo = <<"result", "pointer">>
        /\ process'[p].request = k
        /\ process'[p].claim = process[p].claim /\ process'[p].reply = process[p].reply
        /\ \A q \in Processes : q # p => process'[q] = process[q]
    BY <2>2 DEF Inv, TypeInv
  <2>5. <<"result", "pointer">> # <<"pointer">>
    OBVIOUS
  <2>6. \A q \in Processes : AtItsPlace(q)'
    <3> SUFFICES ASSUME NEW q \in Processes
                 PROVE  AtItsPlace(q)'
      OBVIOUS
    <3>1. CASE q = p
      BY <3>1, <1>1, <1>2, <2>1, <2>4, <2>5 DEF AtItsPlace, Busy, Locked
    <3>2. CASE q # p
      BY <3>2, <1>1, <2>4, OthersStay, UnchangedIsUntouched DEF Inv, CallsAssumption
    <3> QED BY <3>1, <3>2
  <2>7. OneAtATime'
    BY <1>1, <2>4, MovedProcess
  <2> QED BY <1>1, <2>3, <2>6, <2>7 DEF Inv, Journaled, AsCompleted
<1>4. CASE ~Recordable(p)
  <2>1. Return(p) /\ lock' = lock
    BY <1>4 DEF LockForResult
  <2> QED BY <1>1, <2>1, ProcessReturns DEF Inv, TypeInv
<1> QED BY <1>3, <1>4

LEMMA WriteResultKeepsInv ==
    ASSUME CallsAssumption, Inv, NEW p \in Processes, WriteResult(p)
    PROVE  Inv'
<1> DEFINE k == process[p].request
<1>1. /\ process[p].at = "recording" /\ Busy(p)
      /\ process[p].todo # <<>> /\ Head(process[p].todo) = "result"
      /\ results' = results \cup {Completion(p)}
      /\ process' = [process EXCEPT ![p].todo = Tail(@)]
      /\ UNCHANGED <<claim, pointer, lock, asked, told, crashes>>
  BY DEF WriteResult, Busy
<1>2. /\ k \in Requests /\ process[p].claim \in Claims /\ lock = p
      /\ claim[k] # Absent /\ claim[k].value = process[p].claim
      /\ process[p].reply \in Replies /\ pointer[k] = Absent
  BY <1>1 DEF Inv, AtItsPlace, Locked
<1>3. process[p].todo = <<"result", "pointer">>
  <2>1. Head(<<"pointer">>) = "pointer"
    OBVIOUS
  <2> QED BY <1>1, <2>1 DEF Inv, TypeInv, ProcessStates
<1>4. Tail(process[p].todo) = <<"pointer">>
  BY <1>3
<1>5. TypeInv'
  BY <1>1, <1>4 DEF Inv, TypeInv, ProcessStates
<1>6. /\ process'[p].at = "recording" /\ process'[p].todo = <<"pointer">>
      /\ process'[p].request = k
      /\ process'[p].claim = process[p].claim /\ process'[p].reply = process[p].reply
      /\ \A q \in Processes : q # p => process'[q] = process[q]
  BY <1>1, <1>4 DEF Inv, TypeInv
<1>7. Completion(p)' = Completion(p) /\ Completion(p)' \in results'
  BY <1>1, <1>6 DEF Completion
<1>8. \A q \in Processes : AtItsPlace(q)'
  <2> SUFFICES ASSUME NEW q \in Processes
               PROVE  AtItsPlace(q)'
    OBVIOUS
  <2>1. CASE q = p
    BY <2>1, <1>1, <1>2, <1>6, <1>7 DEF AtItsPlace, Busy, Locked
  <2>2. CASE q # p
    BY <2>2, <1>1, <1>6, OthersStay, UnchangedIsUntouched DEF Inv
  <2> QED BY <2>1, <2>2
<1>9. OneAtATime'
  BY <1>1, <1>6, MovedProcess
<1> QED BY <1>1, <1>5, <1>8, <1>9 DEF Inv, Journaled, AsCompleted

LEMMA LinkPointerKeepsInv ==
    ASSUME CallsAssumption, Inv, NEW p \in Processes, LinkPointer(p)
    PROVE  Inv'
<1> DEFINE k == process[p].request
           r == Completion(p)
<1>1. /\ process[p].at = "recording" /\ Busy(p)
      /\ process[p].todo # <<>> /\ Head(process[p].todo) = "pointer"
      /\ pointer' = Linked(pointer, k, r)
      /\ process' = [process EXCEPT ![p].at = "linked"]
      /\ UNCHANGED <<claim, results, lock, asked, told, crashes>>
  BY DEF LinkPointer, Busy
<1>2. process[p].todo = <<"pointer">>
  <2>1. Head(<<"result", "pointer">>) = "result"
    OBVIOUS
  <2> QED BY <1>1, <2>1 DEF Inv, TypeInv, ProcessStates
<1>3. <<"pointer">> # <<>>
  OBVIOUS
<1>4. /\ k \in Requests /\ process[p].claim \in Claims /\ lock = p
      /\ claim[k] # Absent /\ claim[k].value = process[p].claim
      /\ process[p].reply \in Replies /\ pointer[k] = Absent /\ r \in results
  BY <1>1, <1>2, <1>3 DEF Inv, AtItsPlace, Locked
<1>5. r \in Results /\ r.claim = claim[k].value
  BY <1>4 DEF Results, Completion
<1>6. pointer \in Directories(Results)
  BY DEF Inv, TypeInv
<1> HIDE DEF k, r
<1>7. /\ pointer' \in Directories(Results)
      /\ pointer'[k] = [value |-> r, names |-> 2] /\ pointer'[k] # Absent
      /\ \A j \in Requests : j # k => pointer'[j].value = pointer[j].value
      /\ \A j \in Requests : j # k => (pointer'[j] = Absent <=> pointer[j] = Absent)
  BY <1>1, <1>4, <1>5, <1>6, LinkedDirectory
<1>8. TypeInv'
  BY <1>1, <1>7 DEF Inv, TypeInv, Places, ProcessStates
<1>9. /\ process'[p].at = "linked" /\ process'[p].todo = <<"pointer">>
      /\ process'[p].request = k
      /\ process'[p].claim = process[p].claim /\ process'[p].reply = process[p].reply
      /\ \A q \in Processes : q # p => process'[q] = process[q]
  BY <1>1, <1>2 DEF Inv, TypeInv, k
<1>10. \A j \in Requests : j # k => Untouched(j)
  BY <1>1, <1>7 DEF Untouched
<1>11. \A q \in Processes : AtItsPlace(q)'
  <2> SUFFICES ASSUME NEW q \in Processes
               PROVE  AtItsPlace(q)'
    OBVIOUS
  <2>1. CASE q = p
    BY <2>1, <1>1, <1>4, <1>7, <1>9 DEF AtItsPlace, Busy, Locked
  <2>2. CASE q # p
    <3>1. Busy(q) => process[q].request \in Requests /\ process[q].request # k
      BY <2>2, <1>1 DEF Inv, OneAtATime, AtItsPlace, k
    <3> QED BY <2>2, <3>1, <1>1, <1>9, <1>10, OthersStay DEF Inv
  <2> QED BY <2>1, <2>2
<1>12. OneAtATime'
  BY <1>1, <1>9, MovedProcess DEF k
<1>13. \A j \in Requests : Journaled(j)'
  <2>1. ASSUME NEW j \in Requests, j = k
        PROVE  Journaled(j)'
    BY <2>1, <1>1, <1>4, <1>5, <1>7 DEF Journaled
  <2> QED BY <2>1, <1>1, <1>10, RequestsStay DEF Inv
<1>14. \A t \in told' : AsCompleted(t)'
  <2> SUFFICES ASSUME NEW t \in told
               PROVE  AsCompleted(t)'
    BY <1>1
  <2>1. AsCompleted(t) /\ t.request \in Requests
    BY DEF Inv, TypeInv
  <2>2. t.request # k
    BY <2>1, <1>4 DEF AsCompleted
  <2> QED BY <2>1, <2>2, <1>10, AnswersStay
<1> QED BY <1>8, <1>11, <1>12, <1>13, <1>14 DEF Inv

LEMMA UnlinkPendingKeepsInv ==
    ASSUME CallsAssumption, Inv, NEW p \in Processes, UnlinkPending(p)
    PROVE  Inv'
<1> DEFINE k == process[p].request
<1>1. /\ process[p].at = "linked" /\ Busy(p)
      /\ pointer' = Unlinked(pointer, k)
      /\ process' = [process EXCEPT ![p].at = "recording", ![p].todo = Tail(@)]
      /\ UNCHANGED <<claim, results, lock, asked, told, crashes>>
  BY DEF UnlinkPending, Busy
<1>2. /\ k \in Requests /\ process[p].claim \in Claims /\ lock = p
      /\ claim[k] # Absent /\ claim[k].value = process[p].claim
      /\ process[p].reply \in Replies /\ pointer[k] # Absent
      /\ process[p].todo = <<"pointer">>
  BY <1>1 DEF Inv, AtItsPlace, Locked
<1>3. pointer \in Directories(Results)
  BY DEF Inv, TypeInv
<1>4. Tail(<<"pointer">>) = <<>> /\ <<"pointer">> # <<>>
  OBVIOUS
<1>5. process' = [process EXCEPT ![p] = [process[p] EXCEPT !.at = "recording", !.todo = <<>>]]
  BY <1>1, <1>2, <1>4 DEF Inv, TypeInv
<1> HIDE DEF k
<1>6. /\ pointer' \in Directories(Results)
      /\ \A j \in Requests : pointer'[j].value = pointer[j].value
      /\ \A j \in Requests : pointer'[j] = Absent <=> pointer[j] = Absent
  BY <1>1, <1>2, <1>3, UnlinkedDirectory
<1>7. TypeInv'
  <2>1. [process[p] EXCEPT !.at = "recording", !.todo = <<>>] \in ProcessStates
    BY DEF Inv, TypeInv, Places, ProcessStates
  <2>2. pointer' \in Directories(Results)
    BY <1>6
  <2> QED BY <1>1, <1>5, <2>1, <2>2 DEF Inv, TypeInv
<1>8. /\ process'[p].at = "recording" /\ process'[p].todo = <<>>
      /\ process'[p].request = k
      /\ process'[p].claim = process[p].claim /\ process'[p].reply = process[p].reply
      /\ \A q \in Processes : q # p => process'[q] = process[q]
  BY <1>5 DEF Inv, TypeInv, k
<1>9. \A j \in Requests : Untouched(j)
  BY <1>1, <1>6 DEF Untouched
<1>10. \A q \in Processes : AtItsPlace(q)'
  <2> SUFFICES ASSUME NEW q \in Processes
               PROVE  AtItsPlace(q)'
    OBVIOUS
  <2>1. CASE q = p
    BY <2>1, <1>1, <1>2, <1>4, <1>8 DEF AtItsPlace, Busy, Locked
  <2>2. CASE q # p
    <3>1. Busy(q) => process[q].request \in Requests
      BY DEF Inv, AtItsPlace
    <3> QED BY <2>2, <3>1, <1>1, <1>8, <1>9, OthersStay DEF Inv
  <2> QED BY <2>1, <2>2
<1>11. OneAtATime'
  BY <1>1, <1>8, MovedProcess DEF k
<1>12. \A j \in Requests : Journaled(j)'
  BY <1>1, <1>9, RequestsStay DEF Inv
<1>13. \A t \in told' : AsCompleted(t)'
  <2> SUFFICES ASSUME NEW t \in told
               PROVE  AsCompleted(t)'
    BY <1>1
  <2> QED BY <1>9, AnswersStay DEF Inv, TypeInv
<1> QED BY <1>7, <1>10, <1>11, <1>12, <1>13 DEF Inv

LEMMA NextKeepsInv ==
    ASSUME CallsAssumption, Inv, [Next]_vars
    PROVE  Inv'
<1>1. CASE UNCHANGED vars
  BY <1>1 DEF vars, Inv, TypeInv, AtItsPlace, OneAtATime, Busy, Completion, Journaled,
              AsCompleted
<1>2. ASSUME NEW p \in Processes, NEW k \in Requests, NEW c \in Claims, Begin(p, k, c)
      PROVE  Inv'
  BY <1>2, BeginKeepsInv
<1>3. ASSUME NEW p \in Processes, Claiming(p)
      PROVE  Inv'
  BY <1>3, LinkClaimKeepsInv, LeaseFreshKeepsInv DEF Claiming
<1>4. ASSUME NEW p \in Processes, AskProvider(p) \/ RefuseAnswer(p) \/ LockForResult(p)
      PROVE  Inv'
  BY <1>4, AskProviderKeepsInv, RefuseAnswerKeepsInv, LockForResultKeepsInv
<1>5. ASSUME NEW p \in Processes, Recording(p)
      PROVE  Inv'
  BY <1>5, WriteResultKeepsInv, LinkPointerKeepsInv, UnlinkPendingKeepsInv,
     ReopenResultKeepsInv DEF Recording
<1>6. ASSUME NEW p \in Processes, Crash(p)
      PROVE  Inv'
  BY <1>6, CrashKeepsInv
<1> QED BY <1>1, <1>2, <1>3, <1>4, <1>5, <1>6 DEF Next

-----------------------------------------------------------------------------
(* The theorems.                                                             *)

\* A process that is about a request is alone with it and knows what its claim says,
\* and everything answered and completed is what that one claim was answered with.
THEOREM CallsInvariant ==
    ASSUME CallsAssumption
    PROVE  Spec => []Inv
<1>1. Init => Inv
  BY InvInit
<1>2. Inv /\ [Next]_vars => Inv'
  BY NextKeepsInv
<1> QED BY <1>1, <1>2, PTL DEF Spec

\* A provider is asked at most once for a request, and everyone who is answered for
\* it is answered alike, under the contract it was claimed with, however many
\* processes try it, however often they die, and at whatever point.
THEOREM ProviderAskedOnce ==
    ASSUME CallsAssumption
    PROVE  Spec => []AskedOnceAnsweredAlike
<1>1. Inv => AskedOnceAnsweredAlike
  <2> SUFFICES ASSUME Inv
               PROVE  AskedOnceAnsweredAlike
    OBVIOUS
  <2>1. \A k \in Requests : asked[k] <= 1
    BY DEF Inv, TypeInv
  <2>2. \A a, b \in told :
            a.request = b.request => a.reply = b.reply /\ a.contract = b.contract
    BY DEF Inv, AsCompleted
  <2>3. \A k \in Requests : pointer[k] # Absent =>
            pointer[k].value \in results /\ pointer[k].value.claim = claim[k].value
    BY DEF Inv, Journaled
  <2> QED BY <2>1, <2>2, <2>3 DEF AskedOnceAnsweredAlike
<1> QED BY <1>1, CallsInvariant, PTL

=============================================================================
