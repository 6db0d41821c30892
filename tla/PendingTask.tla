---------------------------- MODULE PendingTask ----------------------------
(***************************************************************************)
(* One step of a run that waits for a person or for a callback             *)
(* (packages/core/src/runs/pending-tasks).  Its task is settled by an      *)
(* answer, by its expiry, by a refusal for lack of capacity or with its    *)
(* run; whoever settles it leaves an advance of the run on its way, and    *)
(* the advance that reads the settled task ends the step with it.          *)
(*                                                                         *)
(* Every transaction below locks the run first, so each is one action.  A  *)
(* callback has a task, and may have an answer, before its step is         *)
(* reached: the task is prepared for the step that hands out its address.  *)
(***************************************************************************)
EXTENDS Integers

CONSTANTS Responders,       \* the people, or callers, who answer
          MaxJobs           \* advances on their way at once

CONSTANT NoAnswer
ASSUME TaskAssumption == NoAnswer \notin Responders /\ MaxJobs \in Nat

VARIABLES
    run,         \* status, cancel (requested), deadline (passed)
    step,        \* the waiting step
    task,        \* its row of pending_run_tasks
    jobs,        \* advance jobs in the outbox or the queue
    consumed,    \* some advance job has been consumed, and may come again
    scanned,     \* due_wakeup_at: the due-node scanner has seen the expiry
    receipts,    \* who has a receipt for the command that answered
    heard        \* what each responder was told

taskVars == <<run, step, task, jobs, consumed, scanned, receipts, heard>>

\* What the step does when nobody answers is in the task's captured setup.
NewTask(kind, onExpiry) ==
    [kind |-> kind, onExpiry |-> onExpiry, status |-> "none", bound |-> FALSE,
     due |-> FALSE, closed |-> FALSE, early |-> FALSE, answer |-> NoAnswer]

TaskInit ==
    /\ run = [status |-> "active", cancel |-> FALSE, deadline |-> FALSE,
              failed |-> FALSE]
    /\ step = "unreached"
    /\ task \in {NewTask("human", "continue"), NewTask("human", "fail"),
                 NewTask("callback", "fail")}
    /\ jobs = 0
    /\ consumed = FALSE /\ scanned = FALSE
    /\ receipts = {}
    /\ heard = [r \in Responders |-> "nothing"]

OpenSteps == {"unreached", "declared", "waiting"}
Active == run.status = "active"

\* cancelRequestedAt, deadlineAt and the run's status, as an answer meets them
RunClosed == ~Active \/ run.cancel \/ run.deadline

\* wakeWorkflowRun: an advance job, in the writer's transaction
Wake == jobs < MaxJobs /\ jobs' = jobs + 1

-----------------------------------------------------------------------------
(* What answers                                                            *)

\* The reply reaches the responder, or is lost and the call made again.
Tell(r, reply) ==
    \/ heard' = [heard EXCEPT ![r] = reply]
    \/ UNCHANGED heard

Settle(r) ==
    task' = [task EXCEPT !.status = "answered", !.answer = r,
                         !.early = ~task.bound]

\* Mutant: a task that was settled meanwhile is settled again.
BlockedByTime == RunClosed \/ task.due

\* pendingTaskBlockedSql, and the condition of the update
Blocked == task.status # "pending" \/ RunClosed \/ task.due

\* respondToTask: a receipt answers a repeated command before anything else
Respond(r) ==
    /\ task.kind = "human" /\ task.bound /\ heard[r] = "nothing"
    /\ \/ /\ r \in receipts
          /\ Tell(r, "accepted")
          /\ UNCHANGED <<task, jobs, receipts>>
       \/ /\ r \notin receipts /\ Blocked
          /\ Tell(r, "refused")
          /\ UNCHANGED <<task, jobs, receipts>>
       \/ /\ r \notin receipts /\ ~Blocked
          /\ Settle(r)
          /\ receipts' = receipts \cup {r}
          /\ Wake
          /\ Tell(r, "accepted")
    /\ UNCHANGED <<run, step, consumed, scanned>>

CallbackBlocked ==
    \/ RunClosed \/ task.due \/ task.closed
    \/ task.status \in {"answered", "expired", "refused", "canceled"}

\* respondCallback: no receipt; a run that does not wait yet is not woken
RespondCallback(r) ==
    /\ task.kind = "callback" /\ task.status # "none" /\ heard[r] = "nothing"
    /\ \/ /\ CallbackBlocked
          /\ Tell(r, "refused")
          /\ UNCHANGED <<task, jobs>>
       \/ /\ ~CallbackBlocked
          /\ Settle(r)
          /\ IF task.bound THEN Wake ELSE UNCHANGED jobs
          /\ Tell(r, "accepted")
    /\ UNCHANGED <<run, step, consumed, scanned, receipts>>

-----------------------------------------------------------------------------
(* The run                                                                 *)

\* prepareCallbacks, in an attempt of the step that hands out the address
PrepareCallback ==
    /\ task.kind = "callback" /\ task.status = "none"
    /\ Active /\ step = "unreached"
    /\ task' = [task EXCEPT !.status = "prepared"]
    /\ UNCHANGED <<run, step, jobs, consumed, scanned, receipts, heard>>

\* The step's own attempt succeeds: it declares that it waits.
Declare ==
    /\ Active /\ step = "unreached"
    /\ task.kind = "human" \/ task.status \in {"prepared", "answered"}
    /\ step' = "declared"
    /\ Wake
    /\ UNCHANGED <<run, task, consumed, scanned, receipts, heard>>

\* Another step of the run makes it advance.
OtherWork ==
    /\ Active /\ Wake
    /\ UNCHANGED <<run, step, task, consumed, scanned, receipts, heard>>

\* requestWorkflowRunCancellation
Cancel ==
    /\ Active /\ ~run.cancel
    /\ run' = [run EXCEPT !.cancel = TRUE]
    /\ Wake
    /\ UNCHANGED <<step, task, consumed, scanned, receipts, heard>>

\* The run's deadline passes, and its own scanner wakes it.
DeadlinePasses ==
    /\ Active /\ ~run.deadline
    /\ run' = [run EXCEPT !.deadline = TRUE]
    /\ Wake
    /\ UNCHANGED <<step, task, consumed, scanned, receipts, heard>>

\* The expiry of a bound task passes.
ExpiryPasses ==
    /\ task.bound /\ ~task.due
    /\ task' = [task EXCEPT !.due = TRUE]
    /\ UNCHANGED <<run, step, jobs, consumed, scanned, receipts, heard>>

\* claim_due_node_run_wakeups: the waiting row is woken once for its resume_at
DueScan ==
    /\ step = "waiting" /\ task.due /\ ~scanned
    /\ scanned' = TRUE
    /\ Wake
    /\ UNCHANGED <<run, step, task, consumed, receipts, heard>>

\* expireDueTasks, when an advance loads the run
Expired ==
    IF task.bound /\ task.status = "pending" /\ task.due /\ Active /\ ~run.cancel
    THEN [task EXCEPT !.status = "expired"] ELSE task

\* taskResultObservations: how the step ends with a settled task
Outcome(t) ==
    CASE t.status = "answered" -> "answered"
      [] t.status = "expired" -> IF t.onExpiry = "continue" THEN "continued" ELSE "failed"
      [] t.status = "refused" -> "failed"
      [] t.status = "canceled" -> "canceled"

\* requestedStopStatus, for a step that waits
Stopped == IF run.cancel THEN "canceled" ELSE "timed_out"

\* The step after this advance: a settled task first, then the stops.
NextStep(t) ==
    CASE step = "waiting" /\ t.status # "pending" -> Outcome(t)
      [] step = "waiting" /\ t.status = "pending" ->
             IF run.cancel \/ run.deadline THEN Stopped ELSE "waiting"
      [] step = "declared" ->
             IF run.cancel \/ run.deadline THEN Stopped ELSE "waiting"
      [] OTHER -> step

\* A task of a run that ends with this advance is canceled, answered or not.
BindHuman(ended, room) ==
    [task EXCEPT !.bound = TRUE,
                 !.status = IF ended THEN "canceled"
                            ELSE IF room THEN "pending" ELSE "refused"]

\* bindCallbackTask: the prepared task, unless a caller was quicker
BindCallback(ended) ==
    [task EXCEPT !.bound = TRUE,
                 !.status = IF ended THEN "canceled"
                            ELSE IF @ = "prepared" THEN "pending" ELSE @,
                 !.answer = IF ended THEN NoAnswer ELSE @]

\* persistTaskIntents
Bind(ended, room) ==
    IF task.kind = "human" THEN BindHuman(ended, room) ELSE BindCallback(ended)

\* Mutant: a callback answered before its step waits is not thought of.
RefusedAtBind(t) == t.status = "refused"

\* A task that is settled as it is bound needs another advance to read it.
SettledAtBind(t) == t.status \in {"refused", "answered"}

\* persistConsumedTasks: what the settled step leaves behind is closed
Close(t, next, ended) ==
    LET settled == t.bound /\ next \notin OpenSteps
        dropped == /\ ~t.bound /\ t.kind = "callback" /\ t.status # "none"
                   /\ ended \/ next = "skipped"
    IN  IF settled \/ dropped
        THEN [t EXCEPT !.closed = TRUE,
                       !.status = IF @ \in {"pending", "prepared"} THEN "canceled" ELSE @]
        ELSE t

\* advanceRun: one job is consumed; the run may end once no step is open
Advance ==
    /\ jobs > 0 /\ Active
    /\ consumed' = TRUE
    /\ \E next \in {NextStep(Expired)} \cup (IF step = "unreached"
                                             THEN {"skipped"} ELSE {}),
          ended, room \in BOOLEAN :
          LET bind == step = "declared"
              t == IF bind THEN Bind(ended, room) ELSE Expired
          IN  /\ ended => next \notin OpenSteps
              /\ task' = Close(t, next, ended)
              /\ step' = next
              /\ run' = [run EXCEPT !.status = IF ended THEN "ended" ELSE @]
              /\ jobs' = IF bind /\ SettledAtBind(t) THEN jobs ELSE jobs - 1
    /\ UNCHANGED <<scanned, receipts, heard>>

\* A job comes to a run that has ended.
AdvanceEnded ==
    /\ jobs > 0 /\ ~Active
    /\ jobs' = jobs - 1
    /\ UNCHANGED <<run, step, task, consumed, scanned, receipts, heard>>

\* A job comes again: the load's expiry is kept, its transition is not.
AdvanceAgain ==
    /\ consumed /\ Active
    /\ task' = Expired
    /\ UNCHANGED <<run, step, jobs, consumed, scanned, receipts, heard>>

\* failUnadvanceableRun
FailRun ==
    /\ Active
    /\ run' = [run EXCEPT !.status = "ended", !.failed = TRUE]
    /\ step' = IF step \in OpenSteps THEN "failed" ELSE step
    /\ task' = Close(task, step', TRUE)
    /\ UNCHANGED <<jobs, consumed, scanned, receipts, heard>>

TaskNext ==
    \/ \E r \in Responders : Respond(r) \/ RespondCallback(r)
    \/ PrepareCallback \/ Declare \/ OtherWork \/ Cancel \/ DeadlinePasses
    \/ ExpiryPasses \/ DueScan \/ Advance \/ AdvanceEnded \/ AdvanceAgain
    \/ FailRun

TaskSpec == TaskInit /\ [][TaskNext]_taskVars

-----------------------------------------------------------------------------
(* Properties                                                              *)

RunRecord == [status : {"active", "ended"}, cancel : BOOLEAN,
              deadline : BOOLEAN, failed : BOOLEAN]

TaskRecord ==
    [kind : {"human", "callback"}, onExpiry : {"continue", "fail"},
     status : {"none", "prepared", "pending", "answered", "expired", "refused",
               "canceled"},
     bound : BOOLEAN, due : BOOLEAN, closed : BOOLEAN, early : BOOLEAN,
     answer : Responders \cup {NoAnswer}]

TaskTypeOK ==
    /\ run \in RunRecord
    /\ step \in OpenSteps \cup {"skipped", "answered", "continued", "failed",
                              "canceled", "timed_out"}
    /\ task \in TaskRecord
    /\ jobs \in 0..MaxJobs
    /\ consumed \in BOOLEAN /\ scanned \in BOOLEAN
    /\ receipts \in SUBSET Responders
    /\ heard \in [Responders -> {"nothing", "accepted", "refused"}]

\* An early answer is dropped with the run that stops before its step waits,
\* or with the step that is not reached; any with a run failed as a whole.
Dropped == \/ run.failed
           \/ task.early /\ (run.cancel \/ run.deadline \/ step = "skipped")

\* One answer counts.  Whoever was told so gave it; a person told otherwise,
\* at whatever retry, did not; and the step that waits for it ends with it,
\* before any cancellation, deadline or expiry that came later.
AnswerCounts ==
    /\ \A r \in Responders :
          /\ heard[r] = "accepted" => task.answer = r \/ Dropped
          /\ heard[r] = "refused" /\ task.kind = "human" => task.answer # r
    /\ task.answer # NoAnswer
       => \/ step = "waiting" /\ task.status = "answered"
          \/ step = "answered"
          \/ task.early /\ step \in {"unreached", "declared"}
          \/ Dropped

\* No settled task is left lying: while its step waits, an advance is on its
\* way, or the scanner of due steps has still to see its expiry.
SettledIsWoken ==
    Active /\ step = "waiting" /\ (task.status # "pending" \/ task.due \/ run.cancel)
        => jobs > 0 \/ (task.due /\ ~scanned)

=============================================================================
