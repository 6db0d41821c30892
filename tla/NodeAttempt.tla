---------------------------- MODULE NodeAttempt ----------------------------
(***************************************************************************)
(* The execution of one step of a workflow run: the attempts the           *)
(* coordinator admits for it, the execute-node-attempt deliveries that     *)
(* carry them to workers through the outbox and BullMQ, the fenced lease a *)
(* worker takes on an attempt, the provider call it makes, the completion  *)
(* it commits, and the recovery of whatever a crash leaves behind.         *)
(*                                                                         *)
(* PostgreSQL is the authority: every action on attempt, node, run, wake,  *)
(* outbox and receipt is one transaction of the code, taken under the run  *)
(* lock.  The queue may lose, repeat and reorder; a worker may stop or     *)
(* pause anywhere between two transactions.                                *)
(***************************************************************************)
EXTENDS Naturals

CONSTANTS
    Workers,      \* worker processes that consume execute-node-attempt jobs
    NoWorker,     \* the lease owner of an attempt nobody holds
    MaxAttempts,  \* the step's retry limit (settings.maximumAttempts)
    MaxEvents,    \* bound: outbox events of the step the model may create
    MaxFaults,    \* bound: crashes, lapsed leases and refused states together
    MaxLosses,    \* bound: publications and jobs the transport loses
    Class,        \* side-effect class pinned for the step
    Suspends,     \* TRUE for a Wait step: its first attempt ends suspended
    HasDeadline   \* TRUE when workflow_runs.deadline_at is set

Classes == {"safe", "idempotent_with_key", "unsafe"}

ASSUME BoundsAssumption ==
    /\ MaxAttempts \in Nat \ {0}
    /\ MaxEvents \in Nat \ {0}
    /\ MaxFaults \in Nat
    /\ MaxLosses \in Nat

ASSUME StepAssumption ==
    /\ NoWorker \notin Workers
    /\ Class \in Classes
    /\ Suspends \in BOOLEAN
    /\ HasDeadline \in BOOLEAN
    /\ Suspends => Class = "safe"

(* Only a failure counts against the retry limit, so a Wait step may need   *)
(* one attempt more: the one that resumes it.                              *)
LastNumber == IF Suspends THEN MaxAttempts + 1 ELSE MaxAttempts
Numbers == 1 .. LastNumber
Events == 1 .. MaxEvents

Settled == {"succeeded", "failed", "canceled", "timed_out", "outcome_unknown"}
Open == {"ready", "running"}
AttemptStatuses == {"absent"} \union Open \union Settled
NodeStatuses == {"ready", "running", "waiting"} \union Settled
RunStatuses == {"active"} \union Settled
FailureKinds == {"retry", "failed", "canceled", "outcome_unknown"}
(* Where a worker is in the handler.  After a send the worker itself does  *)
(* not know which of applied and missed it is in: the provider does.       *)
Phases == {"idle", "claimed", "executing", "marked", "applied", "missed",
           "unsent", "reporting"}

(* What a worker reports to completeNodeAttempt.  kind and possibly are    *)
(* the executor's failureKind and possiblyDispatched; only an              *)
(* executor_failure carries them.                                          *)
Outcomes ==
    [status : Settled \union {"suspended", "executor_failure", "none"},
     kind : FailureKinds \union {"none"}, possibly : BOOLEAN]

Plain(status) == [status |-> status, kind |-> "none", possibly |-> FALSE]
Failure(kind, possibly) ==
    [status |-> "executor_failure", kind |-> kind, possibly |-> possibly]
NoOutcome == Plain("none")

VARIABLES
    attempt,   \* node_attempts by attempt number
    node,      \* the node_runs row: status, current attempt, wait and timer
    run,       \* workflow_runs: "active" (running or waiting) or how it ended
    cancelRequested, deadlineExpired,   \* workflow_runs control columns
    deadlineWoken,                      \* the deadline's advance was enqueued
    wake,      \* an advance-workflow-run delivery is outstanding
    revision,  \* run_checkpoints.revision
    outbox,    \* execute-node-attempt rows of outbox_events
    receipt,   \* inbox_receipts of those events
    queue,     \* events with a job in BullMQ
    worker,    \* what each worker holds in memory
    effects,   \* history: provider effects made on behalf of each attempt
    faults,    \* history: faults of processes and stored state so far
    losses     \* history: faults of the transport so far

vars == <<attempt, node, run, cancelRequested, deadlineExpired, deadlineWoken,
          wake, revision, outbox, receipt, queue, worker, effects, faults,
          losses>>

AttemptRecord ==
    [status : AttemptStatuses, fence : Nat, owner : Workers \union {NoWorker},
     live : BOOLEAN, marked : BOOLEAN, resume : BOOLEAN, result : Outcomes,
     decision : {"none", "pending", "retry"} \union Settled]
NodeRecord ==
    [status : NodeStatuses, current : Numbers,
     wait : {"none", "retry_backoff", "node_wait"},
     timer : {"none", "set", "due", "woken"}]
OutboxRecord ==
    [number : Numbers, state : {"none", "pending", "published", "failed"},
     due : BOOLEAN]
WorkerRecord ==
    [phase : Phases, event : Events, number : Numbers, fence : Nat,
     unresolved : BOOLEAN, revision : Nat, outcome : Outcomes]

TypeOK ==
    /\ attempt \in [Numbers -> AttemptRecord]
    /\ node \in NodeRecord
    /\ run \in RunStatuses
    /\ cancelRequested \in BOOLEAN
    /\ deadlineExpired \in BOOLEAN
    /\ deadlineWoken \in BOOLEAN
    /\ wake \in BOOLEAN
    /\ revision \in Nat
    /\ outbox \in [Events -> OutboxRecord]
    /\ receipt \in [Events -> {"none", "incomplete", "complete"}]
    /\ queue \in SUBSET Events
    /\ worker \in [Workers -> WorkerRecord]
    /\ effects \in [Numbers -> Nat]
    /\ faults \in 0 .. MaxFaults
    /\ losses \in 0 .. MaxLosses

-----------------------------------------------------------------------------
(* Rows as they are inserted, and what a worker holds when it holds none.  *)

Absent ==
    [status |-> "absent", fence |-> 0, owner |-> NoWorker, live |-> FALSE,
     marked |-> FALSE, resume |-> FALSE, result |-> NoOutcome,
     decision |-> "none"]
Admitted(resume) == [Absent EXCEPT !.status = "ready", !.resume = resume]
NoEvent == [number |-> 1, state |-> "none", due |-> FALSE]
Pending(n) == [number |-> n, state |-> "pending", due |-> FALSE]
Idle ==
    [phase |-> "idle", event |-> 1, number |-> 1, fence |-> 0,
     unresolved |-> FALSE, revision |-> 0, outcome |-> NoOutcome]

(* The run has started and its coordinator admitted the step's first       *)
(* attempt together with its delivery.                                     *)
Init ==
    /\ attempt = [n \in Numbers |-> IF n = 1 THEN Admitted(FALSE) ELSE Absent]
    /\ node = [status |-> "ready", current |-> 1, wait |-> "none",
               timer |-> "none"]
    /\ run = "active"
    /\ cancelRequested = FALSE
    /\ deadlineExpired = FALSE
    /\ deadlineWoken = FALSE
    /\ wake = FALSE
    /\ revision = 1
    /\ outbox = [e \in Events |-> IF e = 1 THEN Pending(1) ELSE NoEvent]
    /\ receipt = [e \in Events |-> "none"]
    /\ queue = {}
    /\ worker = [w \in Workers |-> Idle]
    /\ effects = [n \in Numbers |-> 0]
    /\ faults = 0
    /\ losses = 0

(* Cancellation takes precedence over a deadline.                          *)
AbortReason ==
    IF cancelRequested THEN "canceled"
    ELSE IF deadlineExpired THEN "timed_out" ELSE "none"

(* A retry does not resolve the earlier send until it confirms success.    *)
PriorDispatchUnresolved(n) ==
    \E m \in Numbers : /\ m < n
                       /\ attempt[m].result.possibly
                       /\ attempt[m].decision = "retry"

(* A send that was permitted and never confirmed, by this attempt's earlier*)
(* leases or by an earlier attempt.                                        *)
UnresolvedByEarlierAttempts(n) == PriorDispatchUnresolved(n)  \* mutant
Unresolved(n) == attempt[n].marked \/ PriorDispatchUnresolved(n)

FreeEvents == {e \in Events : outbox[e].state = "none"}

(* The caller inserts one execute-node-attempt event for attempt n.        *)
EnqueueAttempt(n) ==
    \E e \in FreeEvents :
        /\ \A f \in FreeEvents : e <= f
        /\ outbox' = [outbox EXCEPT ![e] = Pending(n)]

Fault == faults < MaxFaults /\ faults' = faults + 1
Loss == losses < MaxLosses /\ losses' = losses + 1

runVars == <<run, cancelRequested, deadlineExpired, deadlineWoken>>
bounds == <<faults, losses>>

-----------------------------------------------------------------------------
(* Transport: the dispatcher publishes pending events to BullMQ, BullMQ    *)
(* delivers a job any number of times until it is gone, and the            *)
(* stalled-work scan settles published events nobody acknowledged.         *)

(* A worker's unacknowledged publication leaves the row pending, so the    *)
(* same event may be published again.                                      *)
Publish(e) ==
    /\ outbox[e].state = "pending"
    /\ queue' = queue \union {e}
    /\ \/ /\ outbox' = [outbox EXCEPT ![e].state = "published", ![e].due = TRUE]
          /\ UNCHANGED losses
       \/ /\ Loss
          /\ UNCHANGED outbox
    /\ UNCHANGED <<attempt, node, runVars, wake, revision, receipt, worker,
                   effects, faults>>

(* releaseOrFail with disposition fail: the row can never be published.    *)
FailPublication(e) ==
    /\ outbox[e].state = "pending"
    /\ Loss
    /\ outbox' = [outbox EXCEPT ![e].state = "failed", ![e].due = TRUE]
    /\ UNCHANGED <<attempt, node, runVars, wake, revision, receipt, queue,
                   worker, effects, faults>>

(* BullMQ used up the job's attempts, or Redis lost it.  A job that is not *)
(* lost may still be delivered again, however often it was handled.        *)
LoseJob(e) ==
    /\ e \in queue
    /\ Loss
    /\ queue' = queue \ {e}
    /\ UNCHANGED <<attempt, node, runVars, wake, revision, outbox, receipt,
                   worker, effects, faults>>

(* Any receipt, complete or not, ends the watch on a published event;      *)
(* without one the same row goes back to the dispatcher, or is given up on *)
(* after MAXIMUM_REDELIVERIES.                                             *)
SettleOverdueDelivery(e) ==
    /\ outbox[e].state = "published"
    /\ outbox[e].due
    /\ \/ /\ receipt[e] # "none"
          /\ outbox' = [outbox EXCEPT ![e].due = FALSE]
          /\ UNCHANGED losses
       \/ /\ receipt[e] = "none"
          /\ outbox' = [outbox EXCEPT ![e].state = "pending", ![e].due = FALSE]
          /\ UNCHANGED losses
       \/ /\ receipt[e] = "none"
          /\ Loss
          /\ outbox' = [outbox EXCEPT ![e].state = "failed"]
    /\ UNCHANGED <<attempt, node, runVars, wake, revision, receipt, queue,
                   worker, effects, faults>>

(* Mutant: the job that failed is given up with its delivery.              *)
DropFailedJob(e) ==
    /\ outbox[e].state = "failed"
    /\ outbox[e].due
    /\ outbox' = [outbox EXCEPT ![e].due = FALSE]
    /\ UNCHANGED <<attempt, node, runVars, wake, revision, receipt, queue,
                   worker, effects, bounds>>

(* overdueDeliveryAction: a failed job is rebuilt from the run only while  *)
(* its run is underway and its attempt is still ready.                     *)
ReplaceFailedJob(e) ==
    /\ outbox[e].state = "failed"
    /\ outbox[e].due
    /\ LET n == outbox[e].number
           dropped == [outbox EXCEPT ![e].due = FALSE]
       IN IF run = "active" /\ attempt[n].status = "ready"
          THEN \E f \in FreeEvents :
                   /\ \A g \in FreeEvents : f <= g
                   /\ outbox' = [dropped EXCEPT ![f] = Pending(n)]
          ELSE outbox' = dropped
    /\ UNCHANGED <<attempt, node, runVars, wake, revision, receipt, queue,
                   worker, effects, bounds>>

-----------------------------------------------------------------------------
(* claimNodeAttemptDelivery.  A delivery of an attempt that is no longer   *)
(* current finds no candidate and rolls back.                              *)

DeliveryCurrent(e) == outbox[e].number = node.current

(* Settled attempt: the delivery has nothing left to do.                   *)
ClaimSettled(w, e) ==
    /\ receipt[e] # "complete"
    /\ attempt[outbox[e].number].status \in Settled
    /\ receipt' = [receipt EXCEPT ![e] = "complete"]
    /\ UNCHANGED <<attempt, node, worker>>

(* Mutant: a delivery that finds the attempt running counts as handled.    *)
ClaimRunningAsHandled(w, e) ==
    /\ receipt[e] # "complete"
    /\ attempt[outbox[e].number].status = "running"
    /\ receipt' = [receipt EXCEPT ![e] = "complete"]
    /\ UNCHANGED <<attempt, node, worker>>

(* Running attempt: its owner, or recovery, has it; the receipt stays      *)
(* incomplete.                                                             *)
ClaimRunning(w, e) ==
    /\ receipt[e] # "complete"
    /\ attempt[outbox[e].number].status = "running"
    /\ receipt' = [receipt EXCEPT ![e] = "incomplete"]
    /\ UNCHANGED <<attempt, node, worker>>

ClaimReady(w, e) ==
    LET n == outbox[e].number IN
    /\ receipt[e] # "complete"
    /\ attempt[n].status = "ready"
    /\ node.status = "ready"
    /\ receipt' = [receipt EXCEPT ![e] = "incomplete"]
    /\ attempt' = [attempt EXCEPT ![n].status = "running", ![n].owner = w,
                                  ![n].live = TRUE,
                                  ![n].fence = attempt[n].fence + 1]
    /\ node' = [node EXCEPT !.status = "running"]
    /\ worker' = [worker EXCEPT ![w] =
          [phase |-> "claimed", event |-> e, number |-> n,
           fence |-> attempt[n].fence + 1,
           unresolved |-> Unresolved(n),
           revision |-> revision, outcome |-> NoOutcome]]

ClaimDelivery(w, e) ==
    /\ worker[w].phase = "idle"
    /\ e \in queue
    /\ DeliveryCurrent(e)
    /\ ClaimSettled(w, e) \/ ClaimRunning(w, e) \/ ClaimReady(w, e)
    /\ UNCHANGED <<runVars, wake, revision, outbox, queue, effects, bounds>>

-----------------------------------------------------------------------------
(* A worker with a claimed lease.  Between two transactions it only keeps  *)
(* memory, so each step below reads the database as it then is.            *)

(* Mutant: the fence alone stands for the lease.                           *)
FenceCurrent(w) ==
    LET n == worker[w].number IN
    /\ node.current = n
    /\ attempt[n].fence = worker[w].fence

(* The lease still names this worker, this fence and an unexpired time.    *)
LeaseCurrent(w) ==
    LET n == worker[w].number IN
    /\ attempt[n].status = "running"
    /\ node.current = n
    /\ node.status = "running"
    /\ attempt[n].owner = w
    /\ attempt[n].fence = worker[w].fence
    /\ attempt[n].live

Reporting(w, outcome) ==
    worker' = [worker EXCEPT ![w].phase = "reporting", ![w].outcome = outcome]

InPhase(w, phase) == worker' = [worker EXCEPT ![w].phase = phase]

(* Mutant: the reason for the abort decides alone.                         *)
ControlOutcomeByReason(reason, dispatched) == Plain(reason)

(* completeControlOutcome: an abort after a possible dispatch is not a     *)
(* cancellation.                                                           *)
ControlOutcome(reason, dispatched) ==
    Plain(IF Class # "safe" /\ dispatched THEN "outcome_unknown" ELSE reason)

onlyWorker == <<attempt, node, runVars, wake, revision, outbox, receipt,
                queue, effects, bounds>>

(* loadAttemptInputs reads the run's control; a resumed wait completes     *)
(* with its stored output and runs nothing.                                *)
LoadInputs(w) ==
    /\ worker[w].phase = "claimed"
    /\ \/ /\ AbortReason # "none"
          /\ Reporting(w, ControlOutcome(AbortReason, worker[w].unresolved))
       \/ /\ AbortReason = "none"
          /\ attempt[worker[w].number].resume
          /\ Reporting(w, Plain("succeeded"))
       \/ /\ AbortReason = "none"
          /\ ~attempt[worker[w].number].resume
          /\ InPhase(w, "executing")
    /\ UNCHANGED onlyWorker

(* The execution ends without asking for dispatch: a safe step that calls  *)
(* nobody, a Wait step, or a refusal. An executor turns its own refusal    *)
(* into an unknown outcome while an earlier send is unresolved; the        *)
(* handler, whose input or setup cannot work, reports it failed even then. *)
EndWithoutDispatch(w) ==
    /\ worker[w].phase = "executing"
    /\ \/ /\ Class = "safe"
          /\ Reporting(w, Plain(IF Suspends THEN "suspended" ELSE "succeeded"))
       \/ /\ worker[w].unresolved
          /\ Reporting(w, Failure("outcome_unknown", TRUE))
       \/ /\ ~worker[w].unresolved
          /\ Reporting(w, Failure("retry", FALSE))
       \/ Reporting(w, Failure("failed", FALSE))
    /\ UNCHANGED onlyWorker

(* Mutant: the marker is committed under whatever lease there is.          *)
MarkDispatchedUnfenced(w) ==
    /\ worker[w].phase = "executing"
    /\ run = "active"
    /\ AbortReason = "none"
    /\ attempt' = [attempt EXCEPT ![worker[w].number].marked = TRUE]
    /\ InPhase(w, "marked")
    /\ UNCHANGED <<node, runVars, wake, revision, outbox, receipt, queue,
                   effects, bounds>>

(* markNodeAttemptDispatched commits the dispatch marker under the lease   *)
(* while the run is underway.  The acknowledgement may be lost: then the   *)
(* permission is spent and nothing is sent.                                *)
MarkDispatched(w) ==
    /\ worker[w].phase = "executing"
    /\ LeaseCurrent(w)
    /\ run = "active"
    /\ AbortReason = "none"
    /\ attempt' = [attempt EXCEPT ![worker[w].number].marked = TRUE]
    /\ \/ InPhase(w, "marked")
       \/ InPhase(w, "unsent")
    /\ UNCHANGED <<node, runVars, wake, revision, outbox, receipt, queue,
                   effects, bounds>>

(* The marker is refused: the run is stopping, or the lease or the run is  *)
(* gone.                                                                   *)
MarkRefused(w) ==
    /\ worker[w].phase = "executing"
    /\ \/ /\ run = "active"
          /\ node.current = worker[w].number
          /\ AbortReason # "none"
          /\ Reporting(w, ControlOutcome(AbortReason, worker[w].unresolved))
       \/ /\ ~(LeaseCurrent(w) /\ run = "active")
          /\ InPhase(w, "unsent")
    /\ UNCHANGED onlyWorker

(* The provider receives the request, and acts on it or not.  Nothing      *)
(* re-checks the lease here.                                               *)
Send(w) ==
    /\ worker[w].phase = "marked"
    /\ \/ /\ InPhase(w, "missed")
          /\ UNCHANGED effects
       \/ /\ Class # "safe"
          /\ InPhase(w, "applied")
          /\ effects' = [effects EXCEPT ![worker[w].number] = @ + 1]
    /\ UNCHANGED <<attempt, node, runVars, wake, revision, outbox, receipt,
                   queue, bounds>>

(* An executor that cannot tell what became of its request: it asks for a  *)
(* retry only when the provider deduplicates and no earlier send is        *)
(* unresolved.                                                             *)
Ambiguous(w) ==
    IF Class = "unsafe" \/ worker[w].unresolved
    THEN Failure("outcome_unknown", TRUE) ELSE Failure("retry", TRUE)

(* A definite answer that nothing was done says nothing of an earlier send.*)
Definite(w, kind) ==
    IF worker[w].unresolved THEN Failure("outcome_unknown", TRUE)
    ELSE Failure(kind, FALSE)

(* The provider call ends and the handler has its outcome.  A success with *)
(* an output that cannot be stored is reported failed.                     *)
Return(w) ==
    /\ \/ /\ \/ worker[w].phase = "applied"
             \/ worker[w].phase = "missed" /\ Class = "safe"
          /\ \E status \in {"succeeded", "failed"} : Reporting(w, Plain(status))
       \/ /\ worker[w].phase \in {"applied", "missed"}
          /\ Reporting(w, Ambiguous(w))
       \/ /\ worker[w].phase = "missed"
          /\ \E kind \in {"retry", "failed"} : Reporting(w, Definite(w, kind))
       \/ /\ worker[w].phase = "unsent"
          /\ Reporting(w, Definite(w, "retry"))
    /\ UNCHANGED onlyWorker

(* A heartbeat renews the lease and learns that the run is stopping, which *)
(* aborts the execution: its failure is then reported as the control       *)
(* outcome.                                                                *)
HeartbeatAbort(w) ==
    /\ worker[w].phase \in {"executing", "marked", "applied", "missed", "unsent"}
    /\ LeaseCurrent(w)
    /\ AbortReason # "none"
    /\ Reporting(w, ControlOutcome(AbortReason,
          \/ worker[w].unresolved
          \/ worker[w].phase \in {"marked", "applied", "missed"}))
    /\ UNCHANGED onlyWorker

-----------------------------------------------------------------------------
(* completeNodeAttempt, and everything that ends a worker's hold.          *)

LetGo(w) == worker' = [worker EXCEPT ![w] = Idle]

DurableStatus(outcome) ==
    CASE outcome.status = "suspended" -> "succeeded"
      [] outcome.status = "executor_failure" -> "failed"
      [] OTHER -> outcome.status

(* duplicateCompletion: the attempt already holds exactly this outcome.    *)
SameCompletion(w) ==
    LET outcome == worker[w].outcome IN
    /\ attempt[worker[w].number].result = outcome
    /\ \/ outcome.status \in {"suspended", "executor_failure"}
       \/ node.status = outcome.status

CompleteDuplicate(w) ==
    /\ worker[w].phase = "reporting"
    /\ attempt[worker[w].number].status \in Settled
    /\ receipt' = IF SameCompletion(w)
                  THEN [receipt EXCEPT ![worker[w].event] = "complete"]
                  ELSE receipt
    /\ LetGo(w)
    /\ UNCHANGED <<attempt, node, runVars, wake, revision, outbox, queue,
                   effects, bounds>>

(* A suspension under a stop, or a lease that is no longer current, needs  *)
(* reconciliation: the worker gives up and the lease is left to lapse.     *)
CompleteRefused(w) ==
    /\ worker[w].phase = "reporting"
    /\ attempt[worker[w].number].status \notin Settled
    /\ \/ worker[w].outcome.status = "suspended" /\ AbortReason # "none"
       \/ ~LeaseCurrent(w)
       \/ receipt[worker[w].event] = "complete"
    /\ LetGo(w)
    /\ UNCHANGED onlyWorker

(* The commit: attempt, node, continuation and receipt in one transaction. *)
(* An executor failure leaves the node to the coordinator's retry          *)
(* decision.  The acknowledgement may be lost, and the worker reports the  *)
(* same outcome again.                                                     *)
CompleteCommit(w) ==
    LET n == worker[w].number
        outcome == worker[w].outcome
    IN
    /\ worker[w].phase = "reporting"
    /\ LeaseCurrent(w)
    /\ receipt[worker[w].event] # "complete"
    /\ ~(outcome.status = "suspended" /\ AbortReason # "none")
    /\ attempt' = [attempt EXCEPT
          ![n].status = DurableStatus(outcome), ![n].owner = NoWorker,
          ![n].live = FALSE, ![n].result = outcome,
          ![n].decision =
              IF outcome.status = "executor_failure" THEN "pending" ELSE "none"]
    /\ node' = CASE outcome.status = "executor_failure" -> node
                 [] outcome.status = "suspended" ->
                        [node EXCEPT !.status = "waiting", !.wait = "node_wait",
                                     !.timer = "set"]
                 [] OTHER -> [node EXCEPT !.status = outcome.status]
    /\ receipt' = [receipt EXCEPT ![worker[w].event] = "complete"]
    /\ wake' = TRUE
    /\ LetGo(w) \/ UNCHANGED worker
    /\ UNCHANGED <<runVars, revision, outbox, queue, effects, bounds>>

(* The process stops, or the handler throws: memory is gone, the database  *)
(* keeps what was committed.                                               *)
Crash(w) ==
    /\ worker[w].phase # "idle"
    /\ Fault
    /\ LetGo(w)
    /\ UNCHANGED <<attempt, node, runVars, wake, revision, outbox, receipt,
                   queue, effects, losses>>

(* Heartbeats stop when the owner has let go; an owner that is paused or   *)
(* cut off from the database loses its lease as well.                      *)
Holds(w, n) ==
    /\ worker[w].phase # "idle"
    /\ worker[w].number = n
    /\ worker[w].fence = attempt[n].fence

LeaseLapse(n) ==
    /\ attempt[n].status = "running"
    /\ attempt[n].live
    /\ \/ UNCHANGED faults /\ \A w \in Workers : ~Holds(w, n)
       \/ Fault /\ \E w \in Workers : Holds(w, n)
    /\ attempt' = [attempt EXCEPT ![n].live = FALSE]
    /\ UNCHANGED <<node, runVars, wake, revision, outbox, receipt, queue,
                   worker, effects, losses>>

-----------------------------------------------------------------------------
(* settleExpiredAttempt, asked for by the stalled-work scan or by an       *)
(* operator.                                                               *)

Expired(n) == attempt[n].status = "running" /\ ~attempt[n].live

(* Back to ready under a new fence, with a delivery of its own; never once *)
(* an unsafe side effect may have been dispatched.                         *)
Reclaim(n) ==
    /\ Expired(n)
    /\ ~(attempt[n].marked /\ Class = "unsafe")
    /\ attempt' = [attempt EXCEPT ![n].status = "ready", ![n].owner = NoWorker,
                                  ![n].fence = @ + 1]
    /\ node.status = "running" /\ node.current = n
    /\ node' = [node EXCEPT !.status = "ready"]
    /\ EnqueueAttempt(n)
    /\ UNCHANGED <<runVars, wake, revision, receipt, queue, worker, effects,
                   bounds>>

(* Mutant: the write-off is committed and nobody is told.                  *)
SettleUnknownSilently(n) ==
    /\ Expired(n)
    /\ attempt' = [attempt EXCEPT ![n].status = "outcome_unknown",
                                  ![n].owner = NoWorker, ![n].fence = @ + 1]
    /\ node' = IF node.current = n
               THEN [node EXCEPT !.status = "outcome_unknown"] ELSE node
    /\ UNCHANGED <<runVars, wake, revision, outbox, receipt, queue, worker,
                   effects, bounds>>

SettleUnknown(n) ==
    /\ Expired(n)
    /\ attempt' = [attempt EXCEPT ![n].status = "outcome_unknown",
                                  ![n].owner = NoWorker, ![n].fence = @ + 1]
    /\ node' = IF node.current = n
               THEN [node EXCEPT !.status = "outcome_unknown"] ELSE node
    /\ wake' = TRUE
    /\ UNCHANGED <<runVars, revision, outbox, receipt, queue, worker, effects,
                   bounds>>

(* automaticReconciliationAction: the scan asks for a repeat whenever it   *)
(* cannot duplicate an effect.                                             *)
RecoverExpired(n) ==
    IF attempt[n].marked /\ Class = "unsafe" THEN SettleUnknown(n) ELSE Reclaim(n)

(* An operator may also write off a lease the scan would have reclaimed.   *)
OperatorSettleUnknown(n) == SettleUnknown(n)

-----------------------------------------------------------------------------
(* The run's control and clocks.                                           *)

Cancel ==
    /\ run = "active"
    /\ ~cancelRequested
    /\ cancelRequested' = TRUE
    /\ wake' = TRUE
    /\ UNCHANGED <<attempt, node, run, deadlineExpired, deadlineWoken, revision,
                   outbox, receipt, queue, worker, effects, bounds>>

DeadlinePasses ==
    /\ HasDeadline
    /\ ~deadlineExpired
    /\ deadlineExpired' = TRUE
    /\ UNCHANGED <<attempt, node, run, cancelRequested, deadlineWoken, wake,
                   revision, outbox, receipt, queue, worker, effects, bounds>>

ClaimDueDeadline ==
    /\ run = "active"
    /\ deadlineExpired
    /\ ~deadlineWoken
    /\ deadlineWoken' = TRUE
    /\ wake' = TRUE
    /\ UNCHANGED <<attempt, node, run, cancelRequested, deadlineExpired,
                   revision, outbox, receipt, queue, worker, effects, bounds>>

TimerDue ==
    /\ node.timer = "set"
    /\ node' = [node EXCEPT !.timer = "due"]
    /\ UNCHANGED <<attempt, runVars, wake, revision, outbox, receipt, queue,
                   worker, effects, bounds>>

(* Mutant: the timer is claimed and the advance is not enqueued with it.   *)
ClaimDueWakeupSilently ==
    /\ run = "active"
    /\ node.status = "waiting"
    /\ node.timer = "due"
    /\ node' = [node EXCEPT !.timer = "woken"]
    /\ UNCHANGED <<attempt, runVars, wake, revision, outbox, receipt, queue,
                   worker, effects, bounds>>

ClaimDueWakeup ==
    /\ run = "active"
    /\ node.status = "waiting"
    /\ node.timer = "due"
    /\ node' = [node EXCEPT !.timer = "woken"]
    /\ wake' = TRUE
    /\ UNCHANGED <<attempt, runVars, revision, outbox, receipt, queue, worker,
                   effects, bounds>>

-----------------------------------------------------------------------------
(* The coordinator, consuming one advance-workflow-run delivery: what it   *)
(* decides for this step, and the run's end once the step is settled.      *)

(* deriveTerminalRunStatus for a run whose only invocation ended in status.*)
TerminalRunStatus(status) ==
    IF status = "outcome_unknown" THEN "outcome_unknown"
    ELSE IF AbortReason # "none" THEN AbortReason
    ELSE status

(* resolveAttemptFailures and decideRetry. A failure reported "retry" is   *)
(* one whose code retryableErrorCodes lists; any other code is "failed".   *)
FailureDecision(n) ==
    LET failure == attempt[n].result
        nonSafeUnknown == Class # "safe" /\ failure.possibly
    IN CASE AbortReason # "none" ->
               IF nonSafeUnknown THEN "outcome_unknown" ELSE AbortReason
         [] AbortReason = "none" /\ failure.kind = "outcome_unknown" ->
               "outcome_unknown"
         [] AbortReason = "none" /\ failure.kind = "canceled" ->
               IF nonSafeUnknown THEN "outcome_unknown" ELSE "canceled"
         [] AbortReason = "none" /\ failure.kind = "retry" ->
               IF Class = "unsafe" /\ failure.possibly THEN "outcome_unknown"
               ELSE IF n < MaxAttempts THEN "retry" ELSE "failed"
         [] OTHER -> "failed"

PendingFailure ==
    /\ node.status = "running"
    /\ attempt[node.current].status = "failed"
    /\ attempt[node.current].decision = "pending"

DecideFailure ==
    LET n == node.current
        decision == FailureDecision(n)
    IN
    /\ PendingFailure
    /\ attempt' = [attempt EXCEPT ![n].decision = decision]
    /\ IF decision = "retry"
       THEN /\ node' = [node EXCEPT !.status = "waiting",
                                    !.wait = "retry_backoff", !.timer = "set"]
            /\ UNCHANGED run
       ELSE /\ node' = [node EXCEPT !.status = decision]
            /\ run' = TerminalRunStatus(decision)
    /\ UNCHANGED outbox

(* stopInvocation: a stop settles a waiting step at once.                  *)
StopWaiting ==
    /\ node.status = "waiting"
    /\ AbortReason # "none"
    /\ node' = [node EXCEPT !.status = AbortReason, !.wait = "none",
                            !.timer = "none"]
    /\ run' = TerminalRunStatus(AbortReason)
    /\ UNCHANGED <<attempt, outbox>>

(* Mutant: the attempt is admitted and its delivery forgotten.             *)
ResumeWithoutDelivery ==
    LET n == node.current + 1 IN
    /\ node.status = "waiting"
    /\ AbortReason = "none"
    /\ node.timer \in {"due", "woken"}
    /\ n \in Numbers
    /\ attempt' = [attempt EXCEPT ![n] = Admitted(node.wait = "node_wait")]
    /\ node' = [status |-> "ready", current |-> n, wait |-> "none",
                timer |-> "none"]
    /\ UNCHANGED <<run, outbox>>

(* A due wait becomes ready and its next attempt is admitted with it.      *)
Resume ==
    LET n == node.current + 1 IN
    /\ node.status = "waiting"
    /\ AbortReason = "none"
    /\ node.timer \in {"due", "woken"}
    /\ n \in Numbers
    /\ attempt' = [attempt EXCEPT ![n] = Admitted(node.wait = "node_wait")]
    /\ node' = [status |-> "ready", current |-> n, wait |-> "none",
                timer |-> "none"]
    /\ EnqueueAttempt(n)
    /\ UNCHANGED run

FinishRun ==
    /\ node.status \in Settled
    /\ run' = TerminalRunStatus(node.status)
    /\ UNCHANGED <<attempt, node, outbox>>

(* The step is admitted and not yet settled, or its timer is still ahead:  *)
(* only the new facts are consumed.                                        *)
ConsumeFacts ==
    /\ \/ node.status \in Open /\ ~PendingFailure
       \/ node.status = "waiting" /\ node.timer = "set" /\ AbortReason = "none"
    /\ UNCHANGED <<attempt, node, run, outbox>>

(* An advance that finds nothing new consumes its receipt and leaves the   *)
(* checkpoint alone.                                                       *)
NoChange == ConsumeFacts /\ UNCHANGED revision

Advance ==
    /\ wake
    /\ run = "active"
    /\ \/ /\ DecideFailure \/ StopWaiting \/ Resume \/ FinishRun \/ ConsumeFacts
          /\ revision' = revision + 1
       \/ NoChange
    /\ wake' = FALSE
    /\ UNCHANGED <<cancelRequested, deadlineExpired, deadlineWoken, receipt,
                   queue, worker, effects, bounds>>

(* A delivery that finds the run already ended consumes its receipt only.  *)
AdvanceEnded ==
    /\ wake
    /\ run # "active"
    /\ wake' = FALSE
    /\ UNCHANGED <<attempt, node, runVars, revision, outbox, receipt, queue,
                   worker, effects, bounds>>

-----------------------------------------------------------------------------
(* failUnadvanceableRun: the run's stored state can never move again.      *)

(* Mutants: only the running attempts are closed; none is left unknown.    *)
EmergencyRunningAttempt(n) ==
    IF attempt[n].status = "running"
    THEN [attempt[n] EXCEPT
            !.status = IF Class # "safe" /\ attempt[n].marked
                       THEN "outcome_unknown" ELSE "canceled",
            !.owner = NoWorker, !.live = FALSE]
    ELSE attempt[n]
EmergencyCancel(n) ==
    IF attempt[n].status \in Open
    THEN [attempt[n] EXCEPT !.status = "canceled", !.owner = NoWorker,
                            !.live = FALSE]
    ELSE attempt[n]

EmergencyAttempt(n) ==
    IF attempt[n].status \in Open
    THEN [attempt[n] EXCEPT
            !.status = IF Class # "safe" /\ attempt[n].marked
                       THEN "outcome_unknown" ELSE "canceled",
            !.owner = NoWorker, !.live = FALSE]
    ELSE attempt[n]

EmergencyNodeStatus ==
    LET n == node.current
        current == attempt[n]
        closed == EmergencyAttempt(n)
    IN CASE node.status \in Settled -> node.status
         [] node.status \notin Settled /\ current.status = "succeeded" ->
               IF node.status = "running" THEN "succeeded" ELSE "canceled"
         [] node.status \notin Settled /\ current.status # "succeeded"
               /\ (\/ PriorDispatchUnresolved(n)
                   \/ closed.status = "outcome_unknown"
                   \/ current.result.kind = "outcome_unknown") ->
               "outcome_unknown"
         [] OTHER -> closed.status

CloseRun ==
    /\ run = "active"
    /\ attempt' = [n \in Numbers |-> EmergencyAttempt(n)]
    /\ node' = [node EXCEPT !.status = EmergencyNodeStatus, !.wait = "none",
                            !.timer = "none"]
    /\ run' = IF EmergencyNodeStatus = "outcome_unknown"
              THEN "outcome_unknown" ELSE "failed"
    /\ revision' = revision + 1

(* The coordinator cannot decode the checkpoint.                           *)
CoordinatorGivesUp ==
    /\ wake
    /\ Fault
    /\ CloseRun
    /\ wake' = FALSE
    /\ UNCHANGED <<cancelRequested, deadlineExpired, deadlineWoken, outbox,
                   receipt, queue, worker, effects, losses>>

(* A worker's setup is refused.  Its report counts only while its lease is *)
(* current and the checkpoint has not moved since the claim.               *)
WorkerGivesUp(w) ==
    /\ worker[w].phase \in {"claimed", "executing"}
    /\ Fault
    /\ IF run = "active" /\ worker[w].revision = revision /\ LeaseCurrent(w)
             /\ receipt[worker[w].event] # "complete"
       THEN /\ CloseRun
            /\ receipt' = [receipt EXCEPT ![worker[w].event] = "complete"]
       ELSE UNCHANGED <<attempt, node, run, revision, receipt>>
    /\ LetGo(w)
    /\ UNCHANGED <<cancelRequested, deadlineExpired, deadlineWoken, wake,
                   outbox, queue, effects, losses>>

-----------------------------------------------------------------------------

WorkerStep(w) ==
    \/ LoadInputs(w)
    \/ EndWithoutDispatch(w)
    \/ MarkDispatched(w)
    \/ MarkRefused(w)
    \/ Send(w)
    \/ Return(w)
    \/ HeartbeatAbort(w)
    \/ CompleteDuplicate(w)
    \/ CompleteRefused(w)
    \/ CompleteCommit(w)

Next ==
    \/ \E e \in Events : \/ Publish(e)
                         \/ FailPublication(e)
                         \/ LoseJob(e)
                         \/ SettleOverdueDelivery(e)
                         \/ ReplaceFailedJob(e)
    \/ \E w \in Workers, e \in Events : ClaimDelivery(w, e)
    \/ \E w \in Workers : WorkerStep(w) \/ Crash(w) \/ WorkerGivesUp(w)
    \/ \E n \in Numbers : \/ LeaseLapse(n)
                          \/ RecoverExpired(n)
                          \/ OperatorSettleUnknown(n)
    \/ Cancel
    \/ DeadlinePasses
    \/ ClaimDueDeadline
    \/ TimerDue
    \/ ClaimDueWakeup
    \/ Advance
    \/ AdvanceEnded
    \/ CoordinatorGivesUp

Spec == Init /\ [][Next]_vars

(* What the deployment keeps running: the dispatcher and the scans poll     *)
(* forever, BullMQ delivers a job it holds at least once, a live worker    *)
(* finishes its handler, a lease nobody renews runs out, and the clock     *)
(* passes every timer.  Nothing makes anyone cancel a run, lose a job, stop *)
(* a worker, or redeliver a job that was already handled.                  *)
FirstDelivery(e) == receipt[e] = "none" /\ \E w \in Workers : ClaimDelivery(w, e)
Abandoned(n) == LeaseLapse(n) /\ UNCHANGED faults

Fairness ==
    /\ \A e \in Events : /\ WF_vars(Publish(e) /\ UNCHANGED losses)
                         /\ WF_vars(SettleOverdueDelivery(e) /\ UNCHANGED losses)
                         /\ WF_vars(ReplaceFailedJob(e))
                         /\ WF_vars(FirstDelivery(e))
    /\ \A w \in Workers : WF_vars(WorkerStep(w))
    /\ \A n \in Numbers : WF_vars(Abandoned(n)) /\ WF_vars(RecoverExpired(n))
    /\ WF_vars(ClaimDueDeadline)
    /\ WF_vars(TimerDue)
    /\ WF_vars(ClaimDueWakeup)
    /\ WF_vars(Advance \/ AdvanceEnded)

FairSpec == Spec /\ Fairness

-----------------------------------------------------------------------------
(* Safety.                                                                 *)

(* The event can still bring attempt n to a worker without anyone acting   *)
(* twice: it waits for the dispatcher or the scan still watches it.        *)
Delivers(e, n) ==
    /\ outbox[e].number = n
    /\ receipt[e] = "none"
    /\ \/ outbox[e].state = "pending"
       \/ outbox[e].state \in {"published", "failed"} /\ outbox[e].due

(* No crash, lost job or stop strands a step: while its run is underway,   *)
(* something durable is still on its way to it.  A ready attempt has a     *)
(* delivery the dispatcher or the stalled-work scan will act on; a running *)
(* one has a lease that can lapse, or a failure with an advance on its way *)
(* to decide it; a waiting one has a timer nobody claimed, or the advance  *)
(* the claim enqueued; a settled one has the advance that ends the run.    *)
NoStrandedWork ==
    run = "active" =>
        LET n == node.current IN
        CASE node.status = "ready" ->
                 /\ attempt[n].status = "ready"
                 /\ \E e \in Events : Delivers(e, n)
          [] node.status = "running" ->
                 attempt[n].status = "running" \/ (PendingFailure /\ wake)
          [] node.status = "waiting" -> wake \/ node.timer \in {"set", "due"}
          [] OTHER -> wake

(* An unsafe side effect is made at most once for the step, over all its   *)
(* attempts, deliveries, lease takeovers and paused workers.  It rests on  *)
(* the marker committed before the send (dispatch/mark.ts), on recovery    *)
(* refusing to repeat a marked attempt (attempt-reconciliation.ts) and on  *)
(* decideRetry refusing a possible dispatch.                               *)
AtMostOneEffect ==
    Class = "unsafe" =>
        \A m, n \in Numbers :
            effects[m] > 0 /\ effects[n] > 0 => m = n /\ effects[n] = 1

(* An attempt recorded canceled or timed out made no provider effect, and  *)
(* never makes one later: completeControlOutcome, the emergency close and  *)
(* recovery all turn a possible dispatch into an unknown outcome.          *)
TruthfulAttempt ==
    \A n \in Numbers :
        attempt[n].status \in {"canceled", "timed_out"} => effects[n] = 0

(* "Cancellation does not erase completed effects or turn an ambiguous     *)
(* effect into canceled" (ADR 007): a step that ends canceled or timed out *)
(* made no effect under any of its attempts.                               *)
TruthfulStop ==
    node.status \in {"canceled", "timed_out"} =>
        \A n \in Numbers : effects[n] = 0

(* A run ends only with its step settled and no attempt left that a worker *)
(* could claim or complete, by whichever of the three ways it ends: the    *)
(* coordinator's transition, its emergency close, or a worker's.           *)
NoOpenWorkAfterEnd ==
    run # "active" =>
        /\ node.status \in Settled
        /\ \A n \in Numbers : attempt[n].status \notin Open

(* A receipt is completed, and its message never handled again, only when  *)
(* the attempt it delivers has an outcome: an incomplete one is what lets  *)
(* a redelivery pick the work up again.                                    *)
ReceiptHonest ==
    \A e \in Events :
        receipt[e] = "complete" => attempt[outbox[e].number].status \in Settled

(* The result a run's history shows never changes: once an attempt has     *)
(* settled, no late worker, redelivery, recovery scan or emergency close   *)
(* rewrites it, and no step ever hands an old lease back its fence.        *)
SettledIsFinal ==
    [][\A n \in Numbers :
        /\ attempt[n].fence <= attempt'[n].fence
        /\ attempt[n].status \in Settled =>
              /\ attempt'[n].status = attempt[n].status
              /\ attempt'[n].result = attempt[n].result]_vars

-----------------------------------------------------------------------------
(* Liveness and refinement.                                                *)

(* Every run ends, whatever crashes and losses it met on the way: no wait  *)
(* is missed, no delivery forgotten, no lease left to its dead owner.      *)
RunEnds == <>(run # "active")

(* What a step with an unsafe side effect promises its caller, with the    *)
(* transport, the leases and the coordinator hidden.  Of use only where    *)
(* Class is "unsafe".                                                      *)
Promise ==
    INSTANCE StepPromise WITH
        outcome <- IF node.status \in Settled THEN node.status ELSE "open",
        made <- \E n \in Numbers : effects[n] > 0

PromiseKept == Promise!Spec

=============================================================================
