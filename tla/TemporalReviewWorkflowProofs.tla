-------------------- MODULE TemporalReviewWorkflowProofs --------------------
(* What TLAPS proves of TemporalReviewWorkflow: for any number of services,    *)
(* crashes, failures and discarded checkpoints, completion is reported only    *)
(* with the final state of the authority.  The argument: a review closes once, *)
(* so every view of the authority that is not "open" any more, in a call, in a *)
(* thread or in a report, is the one it has for ever.                          *)
EXTENDS TemporalReviewWorkflow, TLAPS

\* What somebody saw of the authority is out of date only when it says "open".
Seen(view) == view \in {"open", authority}

\* A thread has ended exactly when it has observed a closed review.
Sound(t) ==
    /\ t \in Threads
    /\ t.next = "end" <=> t.observed \notin {"open", None}
    /\ t.observed = None \/ Seen(t.observed)

TypeInv ==
    /\ authority \in Authorities
    /\ pc \in [Services -> {"idle", "begun", "running", "saved", "invoked", "reporting"}]
    /\ call \in [Services -> {"start", "resume", "retry", "status", None}]
    /\ seen \in [Services -> Authorities \cup {None}]
    /\ thread \in [Services -> Threads \cup {None}]
    /\ reported \in [Services -> [phase : Phases, authority : Authorities] \cup {None}]
    /\ faults \in 0..MaxFaults

AtItsPlace(s) ==
    /\ pc[s] # "idle" => Seen(seen[s])
    /\ pc[s] \in {"running", "saved"} => Sound(thread[s])

Final(s) ==
    reported[s] # None /\ reported[s].phase = "complete" =>
        reported[s].authority = authority /\ authority # "open"

Inv ==
    /\ TypeInv
    /\ checkpoint = None \/ Sound(checkpoint)
    /\ \A s \in Services : AtItsPlace(s) /\ Final(s)

-----------------------------------------------------------------------------
(* The operators.                                                            *)

LEMMA PhaseType ==
    ASSUME NEW view, NEW t
    PROVE  Phase(view, t) \in Phases
BY DEF Phase, Phases

\* A phase of completion compares the view with what the thread has observed.
LEMMA PhaseIsFinal ==
    ASSUME NEW view, NEW t, Phase(view, t) = "complete"
    PROVE  view # "open"
BY DEF Phase

\* The graph is invoked with a new thread, or with the one of the checkpoint.
LEMMA InvocationIsSound ==
    ASSUME NEW c, NEW view, checkpoint = None \/ Sound(checkpoint),
           NEW t, t = Invocation(c, Phase(view, checkpoint), checkpoint), t # None
    PROVE  Sound(t)
<1>1. CASE checkpoint = None
  <2>1. Phase(view, checkpoint) = "not-started"
    BY <1>1 DEF Phase
  <2>2. t = Initial
    BY <2>1 DEF Invocation
  <2> QED BY <2>2 DEF Initial, Sound, Threads
<1>2. CASE checkpoint # None /\ Sound(checkpoint)
  <2>1. Phase(view, checkpoint) # "not-started"
    BY <1>2 DEF Phase
  <2>2. t \in {Woken(checkpoint), Continued(checkpoint)}
    BY <2>1 DEF Invocation
  <2> QED BY <1>2, <2>2 DEF Woken, Continued, Sound, Threads
<1> QED BY <1>1, <1>2

LEMMA ObservedIsSound ==
    ASSUME WorkflowAssumption, authority \in Authorities, NEW t
    PROVE  Sound(Observed(t, authority))
<1>1. authority # None
  BY DEF WorkflowAssumption, Authorities
<1> QED BY <1>1 DEF Observed, Sound, Seen, Threads

-----------------------------------------------------------------------------
(* What a step of the authority, or of one service, leaves to the others.    *)

\* What was seen of a review that has closed since said "open".
LEMMA SoundStays ==
    ASSUME NEW t, Sound(t), authority' = authority \/ authority = "open"
    PROVE  Sound(t)'
BY DEF Sound, Seen

LEMMA StaysAtItsPlace ==
    ASSUME NEW s \in Services, AtItsPlace(s), Final(s),
           authority' = authority \/ authority = "open",
           pc'[s] = pc[s], seen'[s] = seen[s], thread'[s] = thread[s],
           reported'[s] = reported[s]
    PROVE  AtItsPlace(s)' /\ Final(s)'
BY SoundStays DEF AtItsPlace, Final, Seen

\* A step of one service that reports nothing.
LEMMA ServiceSteps ==
    ASSUME Inv, NEW s \in Services, UNCHANGED <<authority, reported>>,
           pc' \in [Services -> {"idle", "begun", "running", "saved", "invoked", "reporting"}],
           call' \in [Services -> {"start", "resume", "retry", "status", None}],
           seen' \in [Services -> Authorities \cup {None}],
           thread' \in [Services -> Threads \cup {None}],
           faults' \in 0..MaxFaults,
           \A q \in Services : q # s =>
                pc'[q] = pc[q] /\ seen'[q] = seen[q] /\ thread'[q] = thread[q],
           AtItsPlace(s)',
           checkpoint' = None \/ Sound(checkpoint')
    PROVE  Inv'
<1>1. TypeInv'
  BY DEF Inv, TypeInv
<1>2. checkpoint' = None \/ Sound(checkpoint)'
  BY SoundStays DEF Sound, Seen
<1>3. \A q \in Services : AtItsPlace(q)' /\ Final(q)'
  <2> SUFFICES ASSUME NEW q \in Services
               PROVE  AtItsPlace(q)' /\ Final(q)'
    OBVIOUS
  <2>1. CASE q = s
    BY <2>1 DEF Inv, Final
  <2>2. CASE q # s
    BY <2>2, StaysAtItsPlace DEF Inv
  <2> QED BY <2>1, <2>2
<1> QED BY <1>1, <1>2, <1>3 DEF Inv

\* A call that is over has nothing in hand.
LEMMA IdleTypes ==
    ASSUME Inv, NEW s \in Services, Idle(s)
    PROVE  /\ pc' \in [Services -> {"idle", "begun", "running", "saved", "invoked", "reporting"}]
           /\ call' \in [Services -> {"start", "resume", "retry", "status", None}]
           /\ seen' \in [Services -> Authorities \cup {None}]
           /\ thread' \in [Services -> Threads \cup {None}]
           /\ \A q \in Services : q # s =>
                pc'[q] = pc[q] /\ seen'[q] = seen[q] /\ thread'[q] = thread[q]
           /\ AtItsPlace(s)'
BY DEF Idle, Inv, TypeInv, AtItsPlace

-----------------------------------------------------------------------------
(* The invariant holds at the start, and every step keeps it.                *)

LEMMA InvInit ==
    ASSUME WorkflowAssumption, Init
    PROVE  Inv
BY DEF WorkflowAssumption, Init, Inv, TypeInv, Authorities, AtItsPlace, Final

LEMMA AuthorityClosesKeepsInv ==
    ASSUME Inv, AuthorityCloses
    PROVE  Inv'
<1>1. /\ authority = "open" /\ authority' \in Authorities
      /\ UNCHANGED <<checkpoint, pc, call, seen, thread, reported, faults>>
  BY DEF AuthorityCloses
<1>2. TypeInv'
  BY <1>1 DEF Inv, TypeInv
<1>3. checkpoint' = None \/ Sound(checkpoint)'
  BY <1>1, SoundStays DEF Inv, Sound, Seen
<1>4. \A s \in Services : AtItsPlace(s)' /\ Final(s)'
  BY <1>1, StaysAtItsPlace DEF Inv
<1> QED BY <1>2, <1>3, <1>4 DEF Inv

LEMMA BeginKeepsInv ==
    ASSUME Inv, NEW s \in Services, NEW c \in {"start", "resume", "retry", "status"},
           Begin(s, c)
    PROVE  Inv'
<1>1. AtItsPlace(s)'
  BY DEF Begin, Inv, TypeInv, AtItsPlace, Seen
<1> QED BY <1>1, ServiceSteps DEF Begin, Inv, TypeInv

LEMMA InvokeKeepsInv ==
    ASSUME Inv, NEW s \in Services, Invoke(s)
    PROVE  Inv'
<1> DEFINE t == Invocation(call[s], Phase(seen[s], checkpoint), checkpoint)
<1>1. /\ t # None /\ thread' = [thread EXCEPT ![s] = t]
      /\ pc' = [pc EXCEPT ![s] = "running"] /\ pc[s] = "begun"
      /\ UNCHANGED <<authority, checkpoint, call, seen, reported, faults>>
  BY DEF Invoke
<1>2. Sound(t)
  BY <1>1, InvocationIsSound DEF Inv
<1> HIDE DEF t
<1>3. t \in Threads
  BY <1>2 DEF Sound
<1>4. thread'[s] = t /\ pc'[s] = "running"
  BY <1>1 DEF Inv, TypeInv
<1>5. AtItsPlace(s)'
  BY <1>1, <1>2, <1>4 DEF Inv, AtItsPlace, Sound, Seen
<1> QED BY <1>1, <1>3, <1>5, ServiceSteps DEF Inv, TypeInv

LEMMA RaiseKeepsInv ==
    ASSUME Inv, NEW s \in Services, Raise(s)
    PROVE  Inv'
BY IdleTypes, ServiceSteps DEF Raise, Inv, TypeInv

\* What is reported as complete compares with a view that is not "open" any more.
LEMMA ReportKeepsInv ==
    ASSUME Inv, NEW s \in Services, Report(s)
    PROVE  Inv'
<1> DEFINE r == [phase |-> Phase(seen[s], checkpoint), authority |-> seen[s]]
<1>1. /\ pc[s] # "idle" /\ reported' = [reported EXCEPT ![s] = r] /\ Idle(s)
      /\ UNCHANGED <<authority, checkpoint, faults>>
  BY DEF Report
<1>2. Seen(seen[s]) /\ seen[s] \in Authorities
  BY <1>1 DEF Inv, AtItsPlace, Seen, TypeInv, Authorities
<1>3. r \in [phase : Phases, authority : Authorities]
  BY <1>2, PhaseType
<1>4. r.phase = "complete" => r.authority = authority /\ authority # "open"
  BY <1>2, PhaseIsFinal DEF Seen
<1> HIDE DEF r
<1>5. reported'[s] = r /\ \A q \in Services : q # s => reported'[q] = reported[q]
  BY <1>1 DEF Inv, TypeInv
<1>6. TypeInv'
  BY <1>1, <1>3, IdleTypes DEF Inv, TypeInv
<1>7. checkpoint' = None \/ Sound(checkpoint)'
  BY <1>1 DEF Inv, Sound, Seen
<1>8. \A q \in Services : AtItsPlace(q)' /\ Final(q)'
  <2> SUFFICES ASSUME NEW q \in Services
               PROVE  AtItsPlace(q)' /\ Final(q)'
    OBVIOUS
  <2>1. CASE q = s
    BY <2>1, <1>1, <1>4, <1>5, IdleTypes DEF Final
  <2>2. CASE q # s
    BY <2>2, <1>1, <1>5, IdleTypes, StaysAtItsPlace DEF Inv
  <2> QED BY <2>1, <2>2
<1> QED BY <1>6, <1>7, <1>8 DEF Inv

LEMMA ReconcileKeepsInv ==
    ASSUME WorkflowAssumption, Inv, NEW s \in Services, Reconcile(s)
    PROVE  Inv'
<1> DEFINE t == Observed(thread[s], authority)
<1>1. /\ thread' = [thread EXCEPT ![s] = t] /\ pc[s] # "idle"
      /\ pc' = [pc EXCEPT ![s] = "running"]
      /\ UNCHANGED <<authority, checkpoint, call, seen, reported, faults>>
  BY DEF Reconcile, Runs
<1>2. Sound(t) /\ t \in Threads
  BY ObservedIsSound DEF Inv, TypeInv, Sound
<1> HIDE DEF t
<1>3. thread'[s] = t /\ pc'[s] = "running"
  BY <1>1 DEF Inv, TypeInv
<1>4. AtItsPlace(s)'
  BY <1>1, <1>2, <1>3 DEF Inv, AtItsPlace, Sound, Seen
<1> QED BY <1>1, <1>2, <1>4, ServiceSteps DEF Inv, TypeInv

\* The node that fails or waits changes nothing of what the thread has observed.
LEMMA ReconcileFailsKeepsInv ==
    ASSUME WorkflowAssumption, Inv, NEW s \in Services, ReconcileFails(s)
    PROVE  Inv'
<1> DEFINE t == [thread[s] EXCEPT !.pending = "error"]
<1>1. /\ thread' = [thread EXCEPT ![s] = t] /\ pc[s] \in {"running", "saved"}
      /\ pc' = [pc EXCEPT ![s] = "running"] /\ faults' \in 0..MaxFaults
      /\ UNCHANGED <<authority, checkpoint, call, seen, reported>>
  BY DEF WorkflowAssumption, ReconcileFails, Runs, Inv, TypeInv
<1>2. Sound(t) /\ t \in Threads
  BY <1>1 DEF Inv, AtItsPlace, Sound, Threads
<1> HIDE DEF t
<1>3. thread'[s] = t /\ pc'[s] = "running"
  BY <1>1 DEF Inv, TypeInv
<1>4. AtItsPlace(s)'
  BY <1>1, <1>2, <1>3 DEF Inv, AtItsPlace, Sound, Seen
<1> QED BY <1>1, <1>2, <1>4, ServiceSteps DEF Inv, TypeInv

LEMMA AwaitWakeSignalKeepsInv ==
    ASSUME Inv, NEW s \in Services, AwaitWakeSignal(s)
    PROVE  Inv'
<1> DEFINE t == IF thread[s].pending = "resume"
                THEN [thread[s] EXCEPT !.next = "reconcile", !.pending = "nothing"]
                ELSE [thread[s] EXCEPT !.pending = "interrupt"]
<1>1. /\ thread' = [thread EXCEPT ![s] = t] /\ pc[s] \in {"running", "saved"}
      /\ thread[s].next = "await"
      /\ pc' = [pc EXCEPT ![s] = "running"]
      /\ UNCHANGED <<authority, checkpoint, call, seen, reported, faults>>
  BY DEF AwaitWakeSignal, Runs
<1>2. Sound(t) /\ t \in Threads
  BY <1>1 DEF Inv, AtItsPlace, Sound, Threads
<1> HIDE DEF t
<1>3. thread'[s] = t /\ pc'[s] = "running"
  BY <1>1 DEF Inv, TypeInv
<1>4. AtItsPlace(s)'
  BY <1>1, <1>2, <1>3 DEF Inv, AtItsPlace, Sound, Seen
<1> QED BY <1>1, <1>2, <1>4, ServiceSteps DEF Inv, TypeInv

LEMMA SaveKeepsInv ==
    ASSUME Inv, NEW s \in Services, Save(s)
    PROVE  Inv'
<1>1. /\ pc[s] = "running" /\ checkpoint' = thread[s]
      /\ UNCHANGED <<authority, reported, faults>>
  BY DEF Save
<1>2. Sound(checkpoint')
  BY <1>1 DEF Inv, AtItsPlace
<1>3. CASE Idle(s)
  BY <1>1, <1>2, <1>3, IdleTypes, ServiceSteps DEF Inv, TypeInv
<1>4. CASE /\ pc' = [pc EXCEPT ![s] = "invoked"] \/ pc' = [pc EXCEPT ![s] = "saved"]
           /\ UNCHANGED <<call, seen, thread>>
  <2>1. AtItsPlace(s)'
    BY <1>1, <1>4 DEF Inv, TypeInv, AtItsPlace, Sound, Seen
  <2> QED BY <1>1, <1>2, <1>4, <2>1, ServiceSteps DEF Inv, TypeInv
<1> QED BY <1>3, <1>4 DEF Save

LEMMA ReadAgainKeepsInv ==
    ASSUME Inv, NEW s \in Services, ReadAgain(s)
    PROVE  Inv'
<1>1. AtItsPlace(s)'
  BY DEF ReadAgain, Inv, TypeInv, AtItsPlace, Seen
<1> QED BY <1>1, ServiceSteps DEF ReadAgain, Inv, TypeInv

LEMMA CrashKeepsInv ==
    ASSUME WorkflowAssumption, Inv, NEW s \in Services, Crash(s)
    PROVE  Inv'
<1>1. faults' \in 0..MaxFaults
  BY DEF WorkflowAssumption, Crash, Inv, TypeInv
<1> QED BY <1>1, IdleTypes, ServiceSteps DEF Crash, Inv, TypeInv

LEMMA DiscardKeepsInv ==
    ASSUME WorkflowAssumption, Inv, Discard
    PROVE  Inv'
<1>1. /\ checkpoint' = None /\ faults' \in 0..MaxFaults
      /\ UNCHANGED <<authority, pc, call, seen, thread, reported>>
  BY DEF WorkflowAssumption, Discard, Inv, TypeInv
<1> QED BY <1>1 DEF Inv, TypeInv, AtItsPlace, Final, Sound, Seen

LEMMA NextKeepsInv ==
    ASSUME WorkflowAssumption, Inv, [Next]_vars
    PROVE  Inv'
<1>1. CASE UNCHANGED vars
  BY <1>1 DEF vars, Inv, TypeInv, AtItsPlace, Final, Sound, Seen
<1>2. ASSUME NEW s \in Services, Step(s)
      PROVE  Inv'
  BY <1>2, InvokeKeepsInv, RaiseKeepsInv, ReportKeepsInv, ReconcileKeepsInv,
     AwaitWakeSignalKeepsInv, SaveKeepsInv, ReadAgainKeepsInv DEF Step
<1> QED BY <1>1, <1>2, AuthorityClosesKeepsInv, DiscardKeepsInv, BeginKeepsInv,
           ReconcileFailsKeepsInv, CrashKeepsInv DEF Next

-----------------------------------------------------------------------------
(* The theorems.                                                             *)

\* Whatever a call, a thread, the checkpoint or a report says of a closed review is
\* what the authority says.
THEOREM WorkflowInvariant ==
    ASSUME WorkflowAssumption
    PROVE  Spec => []Inv
<1>1. Init => Inv
  BY InvInit
<1>2. Inv /\ [Next]_vars => Inv'
  BY NextKeepsInv
<1> QED BY <1>1, <1>2, PTL DEF Spec

\* The values of the variables, and that a thread in the checkpoint database has ended
\* exactly when it has observed a closed review.
THEOREM WorkflowTypes ==
    ASSUME WorkflowAssumption
    PROVE  Spec => []TypeOK
<1>1. Inv => TypeOK
  BY DEF Inv, TypeInv, TypeOK, Sound
<1> QED BY <1>1, WorkflowInvariant, PTL

\* However many services share the checkpoint database, and whatever crashes, fails or
\* is thrown away, a call reports completion only with the final state of the authority.
THEOREM CompletionIsFinal ==
    ASSUME WorkflowAssumption
    PROVE  Spec => []CompleteIsFinal
<1>1. Inv => CompleteIsFinal
  BY DEF Inv, Final, CompleteIsFinal
<1> QED BY <1>1, WorkflowInvariant, PTL

=============================================================================
