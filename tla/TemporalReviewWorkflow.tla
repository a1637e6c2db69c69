----------------------- MODULE TemporalReviewWorkflow -----------------------
(***************************************************************************)
(* The resumable workflow of one temporal review: change_control/          *)
(* workflow.py.  A service owns no review state.  It drives a two-node     *)
(* LangGraph thread (reconcile_authority, await_wake_signal) whose         *)
(* checkpoint says how far the authority's state has been observed.        *)
(*                                                                         *)
(* The authority is the request of ChangeControlStore this thread is bound *)
(* to: it is open, and then stale or decided for ever                      *)
(* (ChangeControlStore!ReviewsNeverReopen).                                *)
(*                                                                         *)
(* A service instance serialises its own calls with a lock; instances in   *)
(* several processes share the checkpoint database and nothing else.       *)
(***************************************************************************)
EXTENDS Naturals, FiniteSets

CONSTANTS
    Services,   \* service instances, one per process
    Decisions,  \* decisions the authority can record
    None,       \* no thread, no observation, no report
    MaxFaults   \* bound on crashes and failed authority reads

WorkflowAssumption ==
    /\ {"open", "stale", None} \cap Decisions = {} /\ None \notin {"open", "stale"}
    /\ MaxFaults \in Nat

VARIABLES
    authority,  \* the request's lifecycle, with the decision once decided
    checkpoint, \* the thread as the checkpoint database has it
    pc,         \* where each service is in its current call
    call,       \* the call it executes
    seen,       \* the authority view the call works with
    thread,     \* the thread as the running graph has it
    reported,   \* the last status each service returned
    faults

vars == <<authority, checkpoint, pc, call, seen, thread, reported, faults>>

Authorities == {"open", "stale"} \cup Decisions

\* A thread as get_state shows it: the last observation, the node to run next,
\* and whether that node has an interrupt, an error or a resume value pending.
Threads == [observed : Authorities \cup {None}, next : {"reconcile", "await", "end"},
            pending : {"nothing", "interrupt", "error", "resume"}]

Phases == {"not-started", "waiting", "reconciliation-pending", "complete", "recovery-required"}

-----------------------------------------------------------------------------
\* Mutant of Phase: an ended thread is complete, whatever it has observed.
PhaseWithoutComparison(view, t) ==
    IF t = None THEN "not-started"
    ELSE IF t.pending \in {"interrupt", "resume"}
         THEN IF view = "open" THEN "waiting" ELSE "reconciliation-pending"
    ELSE IF t.next = "end" THEN "complete" ELSE "recovery-required"

\* _status_from: the phase of a thread, given a view of the authority.  A resume
\* value that was saved leaves the interrupt it answers in place.
Phase(view, t) ==
    IF t = None THEN "not-started"
    ELSE IF t.pending \in {"interrupt", "resume"}
         THEN IF view = "open" THEN "waiting" ELSE "reconciliation-pending"
    ELSE IF t.next = "end" /\ t.pending = "nothing" /\ t.observed = view /\ view # "open"
         THEN "complete"
         ELSE "recovery-required"

Initial == [observed |-> None, next |-> "reconcile", pending |-> "nothing"]

Woken(t) == [t EXCEPT !.pending = "resume"]

Continued(t) == [t EXCEPT !.pending = "nothing"]

\* Mutant of Invocation: a thread whose node failed or was cut off is given up.
InvocationWithoutRecovery(c, phase, t) ==
    IF c = "start" /\ phase = "not-started" THEN Initial
    ELSE IF \/ c = "resume" /\ phase \in {"waiting", "reconciliation-pending"}
            \/ c = "retry" /\ phase = "reconciliation-pending" THEN Woken(t)
    ELSE None

\* The thread that a call invokes the graph with; None when it only reports the
\* status or raises.
Invocation(c, phase, t) ==
    IF c = "start" /\ phase = "not-started" THEN Initial
    ELSE IF \/ c = "resume" /\ phase \in {"waiting", "reconciliation-pending"}
            \/ c = "retry" /\ phase = "reconciliation-pending" THEN Woken(t)
    ELSE IF c = "retry" /\ phase = "recovery-required" THEN Continued(t)
    ELSE None

\* resume and retry raise before anything runs, and report nothing.
Raises(c, phase) ==
    \/ c \in {"resume", "retry"} /\ phase = "not-started"
    \/ c = "resume" /\ phase = "recovery-required"

\* _reconcile_authority and the route behind it.
Observed(t, view) ==
    [observed |-> view, next |-> IF view = "open" THEN "await" ELSE "end",
     pending |-> "nothing"]

\* An invocation is over when its thread ended, waits or failed.
Settled(t) == t.next = "end" \/ t.pending \in {"interrupt", "error"}

-----------------------------------------------------------------------------
Init ==
    /\ authority = "open"
    /\ checkpoint = None
    /\ pc = [s \in Services |-> "idle"]
    /\ call = [s \in Services |-> None]
    /\ seen = [s \in Services |-> None]
    /\ thread = [s \in Services |-> None]
    /\ reported = [s \in Services |-> None]
    /\ faults = 0

\* The request is decided, or the aggregate moves on without it.
AuthorityCloses ==
    /\ authority = "open"
    /\ authority' \in Authorities \ {"open"}
    /\ UNCHANGED <<checkpoint, pc, call, seen, thread, reported, faults>>

Idle(s) ==
    /\ pc' = [pc EXCEPT ![s] = "idle"]
    /\ call' = [call EXCEPT ![s] = None]
    /\ seen' = [seen EXCEPT ![s] = None]
    /\ thread' = [thread EXCEPT ![s] = None]

\* Every call reads the authority first ...
Begin(s, c) ==
    /\ pc[s] = "idle"
    /\ pc' = [pc EXCEPT ![s] = "begun"]
    /\ call' = [call EXCEPT ![s] = c]
    /\ seen' = [seen EXCEPT ![s] = authority]
    /\ UNCHANGED <<authority, checkpoint, thread, reported, faults>>

\* ... and then the checkpoint, which says whether the graph has to run.
Invoke(s) ==
    /\ pc[s] = "begun"
    /\ LET t == Invocation(call[s], Phase(seen[s], checkpoint), checkpoint)
       IN  t # None /\ thread' = [thread EXCEPT ![s] = t]
    /\ pc' = [pc EXCEPT ![s] = "running"]
    /\ UNCHANGED <<authority, checkpoint, call, seen, reported, faults>>

Raise(s) ==
    /\ pc[s] = "begun"
    /\ Raises(call[s], Phase(seen[s], checkpoint))
    /\ Idle(s)
    /\ UNCHANGED <<authority, checkpoint, reported, faults>>

\* The status a call returns, after the graph ran or instead of it.
Report(s) ==
    /\ \/ pc[s] = "reporting"
       \/ /\ pc[s] = "begun"
          /\ Invocation(call[s], Phase(seen[s], checkpoint), checkpoint) = None
          /\ ~Raises(call[s], Phase(seen[s], checkpoint))
    /\ reported' = [reported EXCEPT ![s] =
            [phase |-> Phase(seen[s], checkpoint), authority |-> seen[s]]]
    /\ Idle(s)
    /\ UNCHANGED <<authority, checkpoint, faults>>

\* The graph runs its next node; what that makes of the thread is not saved yet.
Runs(s) ==
    /\ pc[s] \in {"running", "saved"}
    /\ ~Settled(thread[s])
    /\ pc' = [pc EXCEPT ![s] = "running"]

Reconcile(s) ==
    /\ Runs(s)
    /\ thread[s].next = "reconcile"
    /\ thread' = [thread EXCEPT ![s] = Observed(@, authority)]
    /\ UNCHANGED <<authority, checkpoint, call, seen, reported, faults>>

\* The authority is busy or cannot be read: the node raises.
ReconcileFails(s) ==
    /\ Runs(s)
    /\ thread[s].next = "reconcile"
    /\ faults < MaxFaults
    /\ faults' = faults + 1
    /\ thread' = [thread EXCEPT ![s].pending = "error"]
    /\ UNCHANGED <<authority, checkpoint, call, seen, reported>>

\* interrupt() stops the graph, and returns when a resume value is pending.
AwaitWakeSignal(s) ==
    /\ Runs(s)
    /\ thread[s].next = "await"
    /\ thread' = [thread EXCEPT ![s] =
            IF @.pending = "resume" THEN [@ EXCEPT !.next = "reconcile", !.pending = "nothing"]
                                    ELSE [@ EXCEPT !.pending = "interrupt"]]
    /\ UNCHANGED <<authority, checkpoint, call, seen, reported, faults>>

\* LangGraph saves the thread in the background while the next node runs; the
\* last checkpoint written is the one that later calls find.
Save(s) ==
    /\ pc[s] = "running"
    /\ checkpoint' = thread[s]
    /\ IF Settled(thread[s])
       THEN IF thread[s].pending = "error"
            THEN Idle(s)
            ELSE pc' = [pc EXCEPT ![s] = "invoked"] /\ UNCHANGED <<call, seen, thread>>
       ELSE pc' = [pc EXCEPT ![s] = "saved"] /\ UNCHANGED <<call, seen, thread>>
    /\ UNCHANGED <<authority, reported, faults>>

\* The authority is read again before the status is reported.
ReadAgain(s) ==
    /\ pc[s] = "invoked"
    /\ seen' = [seen EXCEPT ![s] = authority]
    /\ pc' = [pc EXCEPT ![s] = "reporting"]
    /\ UNCHANGED <<authority, checkpoint, call, thread, reported, faults>>

Crash(s) ==
    /\ pc[s] # "idle"
    /\ faults < MaxFaults
    /\ faults' = faults + 1
    /\ Idle(s)
    /\ UNCHANGED <<authority, checkpoint, reported>>

\* The checkpoint database is disposable: it may be deleted between calls.
Discard ==
    /\ checkpoint # None
    /\ \A s \in Services : pc[s] = "idle"
    /\ faults < MaxFaults
    /\ faults' = faults + 1
    /\ checkpoint' = None
    /\ UNCHANGED <<authority, pc, call, seen, thread, reported>>

Step(s) ==
    \/ Invoke(s) \/ Raise(s) \/ Report(s) \/ Reconcile(s) \/ AwaitWakeSignal(s)
    \/ Save(s) \/ ReadAgain(s)

Next ==
    \/ AuthorityCloses \/ Discard
    \/ \E s \in Services :
        \/ \E c \in {"start", "resume", "retry", "status"} : Begin(s, c)
        \/ Step(s) \/ ReconcileFails(s) \/ Crash(s)

\* A call that runs goes on, and the operator keeps trying: calls start and retry
\* again and again.  Nobody has to call resume or status.
Fairness ==
    \A s \in Services :
        WF_vars(Step(s)) /\ SF_vars(Begin(s, "start")) /\ SF_vars(Begin(s, "retry"))

Spec == Init /\ [][Next]_vars /\ Fairness

-----------------------------------------------------------------------------
(* Properties.                                                             *)

\* The values of the variables, and that a thread has ended exactly when it has
\* observed a closed review.
TypeOK ==
    /\ authority \in Authorities
    /\ checkpoint \in Threads \cup {None}
    /\ checkpoint # None =>
        (checkpoint.next = "end" <=> checkpoint.observed \notin {"open", None})
    /\ pc \in [Services -> {"idle", "begun", "running", "saved", "invoked", "reporting"}]
    /\ call \in [Services -> {"start", "resume", "retry", "status", None}]
    /\ seen \in [Services -> Authorities \cup {None}]
    /\ thread \in [Services -> Threads \cup {None}]
    /\ reported \in [Services -> [phase : Phases, authority : Authorities] \cup {None}]
    /\ faults \in 0..MaxFaults

\* A call reports completion only with the final state of the authority, although
\* it read the authority before the checkpoint and another process may have
\* finished the thread in between.
CompleteIsFinal ==
    \A s \in Services :
        reported[s] # None /\ reported[s].phase = "complete" =>
            reported[s].authority = authority /\ authority # "open"

\* Once the review is closed, retries complete the thread, whatever crashed,
\* failed or was thrown away before.  It holds for a single service instance: two
\* that retry in lockstep can go on overwriting each other's checkpoints.
ReconciliationCompletes ==
    authority # "open" ~> Phase(authority, checkpoint) = "complete"

=============================================================================
