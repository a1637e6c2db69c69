---------------------------- MODULE ProviderCalls ----------------------------
(* The journal of paid provider calls, application_provider_calls.py, and the *)
(* bridge that asks the provider, application_provider_bridge.py.  A call is   *)
(* claimed durably before it is made, and its result is recorded as a result   *)
(* file and then a pointer to it.  Processes die at any point, and every       *)
(* request is tried by several of them, again and again.                       *)
EXTENDS Integers, Sequences, FiniteSets

CONSTANTS
    Processes,    \* processes that run the bridge
    Requests,     \* request keys: owner, run and request digest
    Contracts,    \* provider and model of the settings a process runs with
    Times,        \* what a clock of one-second precision may say
    Replies,      \* what the provider may answer
    None,
    MaxCrashes,   \* bound: crashes in one behaviour
    MaxAttempts   \* bound: attempts per process

CallsAssumption ==
    /\ None \notin Processes \cup Requests \cup Replies
    /\ MaxCrashes \in Nat /\ MaxAttempts \in Nat

VARIABLES
    claim,      \* claims/<key>: the claim, and how many names its inode has
    pointer,    \* completed/<key>: the result it names, and its inode's names
    results,    \* results/<digest>: the result files, of whatever claim
    lock,       \* the process inside the repository's exclusive lock
    process,    \* what each process does, with what
    asked,      \* history: how often the provider was asked for each request
    told,       \* history: what callers were answered, and under which contract
    crashes

vars == <<claim, pointer, results, lock, process, asked, told, crashes>>

Absent == [value |-> None, names |-> 0]
Claims == [contract : Contracts, at : Times]
Results == [claim : Claims, reply : Replies]
Idle(n) == [at |-> "idle", request |-> None, claim |-> None, reply |-> None,
            todo |-> <<>>, attempts |-> n]

\* _create_only links the pending file to the name and then unlinks it: between
\* the two the name exists and cannot be read.  The next creation in the
\* directory, whatever its name, first unlinks the pending files it finds.
Readable(f) == f.names # 2
Cleaned(dir) == [k \in Requests |-> [dir[k] EXCEPT !.names = IF @ = 2 THEN 1 ELSE @]]
Linked(dir, k, value) == [Cleaned(dir) EXCEPT ![k] = [value |-> value, names |-> 2]]
Unlinked(dir, k) == [dir EXCEPT ![k].names = 1]

\* The claims of one request key may still differ in the provider's contract.
SameSemanticsAlways(c, d) == TRUE
SameSemantics(c, d) == c.contract = d.contract

\* begin: FRESH, or else COMPLETED; any other lease is INDETERMINATE, a claim without
\* a result, or an error: a claim of other inputs, or a file that cannot be read.
FreshUntilCompleted(k) == pointer[k] = Absent
Fresh(k) == claim[k] = Absent
Completed(k, c) ==
    /\ Readable(claim[k]) /\ SameSemantics(claim[k].value, c)
    /\ Readable(pointer[k]) /\ pointer[k] # Absent
    /\ pointer[k].value.claim = claim[k].value

\* The exclusive lock is released on every way out of it, and by death.
Unlocked(p) == IF lock = p THEN None ELSE lock

Return(p) == process' = [process EXCEPT ![p] = Idle(@.attempts + 1)]
Answer(k, c, reply) == told' = told \cup {[request |-> k, contract |-> c.contract, reply |-> reply]}

-----------------------------------------------------------------------------
(* begin *)

Begin(p, k, c) ==
    /\ process[p].at = "idle" /\ process[p].attempts < MaxAttempts
    /\ lock = None
    /\ \/ /\ Fresh(k)
          /\ lock' = p
          /\ process' = [process EXCEPT ![p] =
                [@ EXCEPT !.at = "claiming", !.request = k, !.claim = c]]
          /\ UNCHANGED told
       \/ /\ ~Fresh(k) /\ Completed(k, c)
          /\ Answer(k, c, pointer[k].value.reply)
          /\ Return(p)
          /\ UNCHANGED lock
       \/ /\ ~Fresh(k) /\ ~Completed(k, c)
          /\ Return(p)
          /\ UNCHANGED <<lock, told>>
    /\ UNCHANGED <<claim, pointer, results, asked, crashes>>

LinkClaim(p) ==
    /\ process[p].at = "claiming"
    /\ claim' = Linked(claim, process[p].request, process[p].claim)
    /\ process' = [process EXCEPT ![p].at = "claimed"]
    /\ UNCHANGED <<pointer, results, lock, asked, told, crashes>>

LeaseFresh(p) ==
    /\ process[p].at = "claimed"
    /\ claim' = Unlinked(claim, process[p].request)
    /\ process' = [process EXCEPT ![p].at = "leased"]
    /\ lock' = Unlocked(p)
    /\ UNCHANGED <<pointer, results, asked, told, crashes>>

-----------------------------------------------------------------------------
(* The bridge: one call, which answers or fails; an answer of another model, a *)
(* parsed one, or one without a request id is refused.                         *)

AskProvider(p) ==
    /\ process[p].at = "leased"
    /\ asked' = [asked EXCEPT ![process[p].request] = @ + 1]
    /\ \/ \E reply \in Replies :
            process' = [process EXCEPT ![p].at = "answered", ![p].reply = reply]
       \/ Return(p)
    /\ UNCHANGED <<claim, pointer, results, lock, told, crashes>>

RefuseAnswer(p) ==
    /\ process[p].at = "answered"
    /\ Return(p)
    /\ UNCHANGED <<claim, pointer, results, lock, asked, told, crashes>>

-----------------------------------------------------------------------------
(* complete *)

Completion(p) == [claim |-> process[p].claim, reply |-> process[p].reply]
RecordOrder == <<"result", "pointer">>

\* Under the lock the durable claim must be exactly this one, and not completed.
Recordable(p) ==
    LET k == process[p].request IN
      /\ Readable(claim[k]) /\ claim[k].value = process[p].claim
      /\ pointer[k] = Absent

LockForResult(p) ==
    /\ process[p].at = "answered"
    /\ lock = None
    /\ \/ /\ Recordable(p)
          /\ lock' = p
          /\ process' = [process EXCEPT ![p].at = "recording", ![p].todo = RecordOrder]
       \/ /\ ~Recordable(p)
          /\ Return(p)
          /\ UNCHANGED lock
    /\ UNCHANGED <<claim, pointer, results, asked, told, crashes>>

WriteResult(p) ==
    /\ process[p].at = "recording" /\ process[p].todo # <<>> /\ Head(process[p].todo) = "result"
    /\ results' = results \cup {Completion(p)}
    /\ process' = [process EXCEPT ![p].todo = Tail(@)]
    /\ UNCHANGED <<claim, pointer, lock, asked, told, crashes>>

LinkPointer(p) ==
    /\ process[p].at = "recording" /\ process[p].todo # <<>> /\ Head(process[p].todo) = "pointer"
    /\ pointer' = Linked(pointer, process[p].request, Completion(p))
    /\ process' = [process EXCEPT ![p].at = "linked"]
    /\ UNCHANGED <<claim, results, lock, asked, told, crashes>>

UnlinkPending(p) ==
    /\ process[p].at = "linked"
    /\ pointer' = Unlinked(pointer, process[p].request)
    /\ process' = [process EXCEPT ![p].at = "recording", ![p].todo = Tail(@)]
    /\ UNCHANGED <<claim, results, lock, asked, told, crashes>>

\* The completion is read again through its pointer before it is returned.
ReopenResult(p) ==
    /\ process[p].at = "recording" /\ process[p].todo = <<>>
    /\ LET k == process[p].request IN
         \/ /\ pointer[k] = [value |-> Completion(p), names |-> 1]
            /\ Completion(p) \in results
            /\ Answer(k, process[p].claim, process[p].reply)
         \/ /\ pointer[k] # [value |-> Completion(p), names |-> 1] \/ Completion(p) \notin results
            /\ UNCHANGED told
    /\ lock' = Unlocked(p)
    /\ Return(p)
    /\ UNCHANGED <<claim, pointer, results, asked, crashes>>

Crash(p) ==
    /\ process[p].at # "idle"
    /\ crashes < MaxCrashes
    /\ crashes' = crashes + 1
    /\ lock' = Unlocked(p)
    /\ Return(p)
    /\ UNCHANGED <<claim, pointer, results, asked, told>>

Init ==
    /\ claim = [k \in Requests |-> Absent]
    /\ pointer = [k \in Requests |-> Absent]
    /\ results = {}
    /\ lock = None
    /\ process = [p \in Processes |-> Idle(0)]
    /\ asked = [k \in Requests |-> 0]
    /\ told = {}
    /\ crashes = 0

Claiming(p) == LinkClaim(p) \/ LeaseFresh(p)
Recording(p) == WriteResult(p) \/ LinkPointer(p) \/ UnlinkPending(p) \/ ReopenResult(p)
Next ==
    \E p \in Processes :
        \/ \E k \in Requests, c \in Claims : Begin(p, k, c)
        \/ Claiming(p) \/ AskProvider(p) \/ RefuseAnswer(p) \/ LockForResult(p)
        \/ Recording(p) \/ Crash(p)
Spec == Init /\ [][Next]_vars

\* A live process goes on; the lock is a blocking flock, granted to who waits.
Fairness ==
    \A p \in Processes :
        /\ WF_vars(Claiming(p)) /\ WF_vars(AskProvider(p)) /\ WF_vars(Recording(p))
        /\ SF_vars(LockForResult(p))
LiveSpec == Spec /\ Fairness

-----------------------------------------------------------------------------
(* Properties.                                                               *)

\* A provider is asked at most once for a request, through any number of
\* processes, retries and deaths: what is not known to be unpaid is not paid again.
\* Everyone who is answered for a request is answered the same, under the one
\* contract the request was claimed with; and whatever a crash leaves, a completion
\* pointer names a result that is there and that belongs to that claim.
AskedOnceAnsweredAlike ==
    /\ \A k \in Requests : asked[k] <= 1
    /\ \A a, b \in told :
        a.request = b.request => a.reply = b.reply /\ a.contract = b.contract
    /\ \A k \in Requests :
        pointer[k] # Absent =>
            pointer[k].value \in results /\ pointer[k].value.claim = claim[k].value
=============================================================================
