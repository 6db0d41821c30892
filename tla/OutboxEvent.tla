---------------------------- MODULE OutboxEvent ----------------------------
(***************************************************************************)
(* The life of one row of outbox_events, from the transaction that inserts *)
(* it to the retention job that deletes it: dispatchers lease it under a   *)
(* fresh token and publish it to BullMQ, a consumer takes it on under an   *)
(* inbox receipt, the stalled-work scan asks for it again when no receipt  *)
(* comes, and an operator may redispatch it after it failed.               *)
(*                                                                         *)
(* Rows do not meet each other here: a batch publishes its events one by   *)
(* one under the same token, and every statement settles a row by its id.  *)
(***************************************************************************)
EXTENDS Naturals

CONSTANTS
    MaxRedeliveries,   \* MAXIMUM_REDELIVERIES: deliveries asked again
    MaxRedispatches,   \* bound: times an operator redispatches the row
    MaxFaults,         \* bound: crashes, refused calls and early lapses
    MaxLosses          \* bound: jobs that are lost or use up their attempts

ASSUME BoundsAssumption ==
    /\ MaxRedeliveries \in Nat
    /\ MaxRedispatches \in Nat
    /\ MaxFaults \in Nat
    /\ MaxLosses \in Nat

(* Every redelivery and every redispatch counts one up.                    *)
Deliveries == 0 .. MaxRedeliveries + MaxRedispatches

(* Who settles the row once it failed: the run that waits for it, the      *)
(* error-workflow intent it was made for, or nobody.                       *)
Kinds == {"run", "error", "other"}
Repairable == {"run", "error"}

VARIABLES
    row,        \* the outbox_events row
    flights,    \* publications in progress, one per claim still remembered
    jobs,       \* BullMQ's jobs for the row, by delivery number
    receipt,    \* the consumer's inbox_receipts row for the event
    seen,       \* the scan has read the row as failed and due
    replaced,   \* history: its owner settled the failed row
    handled,    \* history: times the consumer's operation was committed
    claims,     \* history: claims so far; a lease token is its claim's number
    redispatches, faults, losses   \* history: bounds spent

vars == <<row, flights, jobs, receipt, seen, replaced, handled, claims,
          redispatches, faults, losses>>
history == <<replaced, handled, redispatches, faults, losses>>

(* token 0 is no lease.  due stands for delivery_due_at: the scan may find *)
(* a dated row overdue at any time.  sound is whether the stored payload   *)
(* still matches its checksum and its queue contract.                      *)
RowRecord ==
    [state : {"pending", "published", "failed", "gone"}, token : Nat,
     live : BOOLEAN, redeliveries : Deliveries, due : BOOLEAN,
     sound : BOOLEAN, kind : Kinds]
FlightRecord ==
    [token : Nat, delivery : Deliveries, stage : {"leased", "added", "refused"}]

TypeOK ==
    /\ row \in RowRecord
    /\ flights \in SUBSET FlightRecord
    /\ jobs \in [Deliveries -> {"none", "waiting", "retained"}]
    /\ receipt \in BOOLEAN
    /\ seen \in BOOLEAN
    /\ replaced \in BOOLEAN
    /\ handled \in Nat
    /\ claims \in Nat
    /\ redispatches \in 0 .. MaxRedispatches
    /\ faults \in 0 .. MaxFaults
    /\ losses \in 0 .. MaxLosses

(* A row just inserted, or one that was published before due times existed *)
(* and whose job was lost around the upgrade.                              *)
Init ==
    /\ row \in [state : {"pending", "published"}, token : {0}, live : {FALSE},
                redeliveries : {0}, due : {FALSE}, sound : BOOLEAN, kind : Kinds]
    /\ row.state = "published" => row.sound /\ MaxLosses > 0
    /\ flights = {}
    /\ jobs = [r \in Deliveries |-> "none"]
    /\ receipt = FALSE
    /\ seen = FALSE
    /\ replaced = FALSE
    /\ handled = 0
    /\ claims = 0
    /\ redispatches = 0
    /\ faults = 0
    /\ losses = IF row.state = "published" THEN 1 ELSE 0

Fault == faults < MaxFaults /\ faults' = faults + 1
Loss == losses < MaxLosses /\ losses' = losses + 1

-----------------------------------------------------------------------------
(* The dispatcher.  A flight is one event of one claimed batch in one      *)
(* process: its memory, and the calls it still has under way.  A call that *)
(* exceeds its timeout is not given up: its late answer settles the row    *)
(* like a prompt one, so a flight may take its next step at any time.      *)

Leasable == row.state = "pending" /\ (row.token = 0 \/ ~row.live)

Claim ==
    /\ Leasable
    /\ row' = [row EXCEPT !.token = claims + 1, !.live = TRUE]
    /\ claims' = claims + 1
    /\ flights' = flights \union
          {[token |-> claims + 1, delivery |-> row.redeliveries,
            stage |-> "leased"]}
    /\ UNCHANGED <<jobs, receipt, seen, history>>

CurrentLease(f) == row.state = "pending" /\ row.token = f.token

Landed(f) == flights' = flights \ {f}
AtStage(f, stage) ==
    flights' = (flights \ {f}) \union {[f EXCEPT !.stage = stage]}

Unleased == [row EXCEPT !.token = 0, !.live = FALSE]

(* Mutant: every delivery of a row is published under the same job id.     *)
FirstJob(delivery) == 0

(* jobIdForOutboxEvent.                                                    *)
JobId(delivery) == delivery

(* BullMQ ignores an add under an id it retains.                           *)
Add(f) ==
    /\ f.stage = "leased"
    /\ row.sound
    /\ jobs' = IF jobs[JobId(f.delivery)] = "none"
               THEN [jobs EXCEPT ![JobId(f.delivery)] = "waiting"]
               ELSE jobs
    /\ AtStage(f, "added")
    /\ UNCHANGED <<row, receipt, seen, history, claims>>

(* Mutant: a publication that was refused counts as one still unanswered.  *)
RefuseAsUnanswered(f) ==
    /\ f.stage \in {"leased", "added"}
    /\ row.sound
    /\ Fault
    /\ AtStage(f, "added")
    /\ UNCHANGED <<row, jobs, receipt, seen, replaced, handled, claims,
                   redispatches, losses>>

(* Redis refuses, or the publication's or the mark's answer is an error:   *)
(* the call may have taken effect all the same.                            *)
Refuse(f) ==
    /\ f.stage \in {"leased", "added"}
    /\ row.sound
    /\ Fault
    /\ AtStage(f, "refused")
    /\ UNCHANGED <<row, jobs, receipt, seen, replaced, handled, claims,
                   redispatches, losses>>

Published == [Unleased EXCEPT !.state = "published", !.due = TRUE]

MarkPublished(f) ==
    /\ f.stage = "added"
    /\ row' = IF CurrentLease(f) THEN Published ELSE row
    /\ Landed(f)
    /\ UNCHANGED <<jobs, receipt, seen, history, claims>>

(* The mark commits and its acknowledgement does not come back.            *)
MarkUnacknowledged(f) ==
    /\ f.stage = "added"
    /\ Fault
    /\ row' = IF CurrentLease(f) THEN Published ELSE row
    /\ AtStage(f, "refused")
    /\ UNCHANGED <<jobs, receipt, seen, replaced, handled, claims,
                   redispatches, losses>>

(* releaseOrFail: an infrastructure failure is retried, a row that can     *)
(* never be published is failed.                                           *)
Release(f) ==
    /\ f.stage = "refused"
    /\ row' = IF CurrentLease(f) THEN Unleased ELSE row
    /\ Landed(f)
    /\ UNCHANGED <<jobs, receipt, seen, history, claims>>

FailUnsound(f) ==
    /\ f.stage = "leased"
    /\ ~row.sound
    /\ row' = IF CurrentLease(f)
              THEN [Unleased EXCEPT !.state = "failed",
                                    !.due = row.kind \in Repairable]
              ELSE row
    /\ Landed(f)
    /\ UNCHANGED <<jobs, receipt, seen, history, claims>>

(* The process stops, or the publication's late answer is a failure:       *)
(* nobody releases the lease.                                              *)
Crash(f) ==
    /\ Fault
    /\ Landed(f)
    /\ UNCHANGED <<row, jobs, receipt, seen, replaced, handled, claims,
                   redispatches, losses>>

(* A lease nobody works under runs out by itself; one whose holder is slow *)
(* runs out under it.                                                      *)
LeaseLapse ==
    /\ row.token # 0
    /\ row.live
    /\ row' = [row EXCEPT !.live = FALSE]
    /\ IF \E f \in flights : f.token = row.token THEN Fault ELSE UNCHANGED faults
    /\ UNCHANGED <<flights, jobs, receipt, seen, replaced, handled, claims,
                   redispatches, losses>>

DispatcherStep(f) ==
    Add(f) \/ MarkPublished(f) \/ Release(f) \/ FailUnsound(f)

-----------------------------------------------------------------------------
(* The consumer, consumeInboxMessage: receipt and operation commit         *)
(* together, and a repeat finds the receipt.                               *)

Handle(r) ==
    /\ jobs[r] = "waiting"
    /\ receipt' = TRUE
    /\ handled' = IF receipt THEN handled ELSE handled + 1

(* A job that is done stays among those BullMQ retains.                    *)
Deliver(r) ==
    /\ Handle(r)
    /\ \/ jobs' = [jobs EXCEPT ![r] = "retained"] /\ UNCHANGED faults
       \/ Fault /\ UNCHANGED jobs   \* stalled: it is delivered again
    /\ UNCHANGED <<row, flights, seen, replaced, claims, redispatches, losses>>

(* The job used up its attempts, or Redis lost it.                         *)
LoseJob(r) ==
    /\ jobs[r] = "waiting"
    /\ Loss
    /\ \E left \in {"none", "retained"} : jobs' = [jobs EXCEPT ![r] = left]
    /\ UNCHANGED <<row, flights, receipt, seen, replaced, handled, claims,
                   redispatches, faults>>

(* removeOnComplete and removeOnFail.                                      *)
EvictJob(r) ==
    /\ jobs[r] = "retained"
    /\ jobs' = [jobs EXCEPT ![r] = "none"]
    /\ UNCHANGED <<row, flights, receipt, seen, history, claims>>

-----------------------------------------------------------------------------
(* The stalled-work scan.                                                  *)

(* Mutant: a receipt is not looked for; the row is dropped from the watch. *)
SettleWithoutAsking ==
    /\ row.due
    /\ row.state \in {"pending", "published"}
    /\ row' = [row EXCEPT !.due = FALSE]
    /\ UNCHANGED <<flights, jobs, receipt, seen, history, claims>>

(* settleOverdueDeliveries.  A redispatched row keeps its old date, so the *)
(* row may also be pending, and leased.                                    *)
SettleOverdue ==
    /\ row.due
    /\ row.state \in {"pending", "published"}
    /\ row' = IF receipt
              THEN [row EXCEPT !.due = FALSE]
              ELSE IF row.redeliveries >= MaxRedeliveries
              THEN [row EXCEPT !.state = "failed",
                               !.due = row.kind \in Repairable]
              ELSE [row EXCEPT !.state = "pending", !.due = FALSE,
                               !.redeliveries = row.redeliveries + 1]
    /\ UNCHANGED <<flights, jobs, receipt, seen, history, claims>>

(* dateUndatedDeliveries, once after each start of the scan.               *)
Undated == row.state = "published" /\ ~row.due /\ ~receipt

DateUndated ==
    /\ Undated
    /\ row' = [row EXCEPT !.due = TRUE]
    /\ UNCHANGED <<flights, jobs, receipt, seen, history, claims>>

ReadFailed ==
    /\ row.state = "failed"
    /\ row.due
    /\ ~seen
    /\ seen' = TRUE
    /\ UNCHANGED <<row, flights, jobs, receipt, history, claims>>

(* replaceFailedRunJob, replaceFailedErrorWorkflowDelivery: the owner is   *)
(* locked first and the row read again.  The run's does not ask again      *)
(* whether it is still failed.                                             *)
ReplaceFailed ==
    /\ seen
    /\ seen' = FALSE
    /\ IF row.due /\ (row.kind = "error" => row.state = "failed")
       THEN row' = [row EXCEPT !.due = FALSE] /\ replaced' = TRUE
       ELSE UNCHANGED <<row, replaced>>
    /\ UNCHANGED <<flights, jobs, receipt, handled, claims, redispatches,
                   faults, losses>>

-----------------------------------------------------------------------------
(* The operator, and retention.                                            *)

(* redispatchFailedOutbox.                                                 *)
Redispatch ==
    /\ row.state = "failed"
    /\ redispatches < MaxRedispatches
    /\ redispatches' = redispatches + 1
    /\ row' = [Unleased EXCEPT !.state = "pending",
                               !.redeliveries = row.redeliveries + 1]
    /\ UNCHANGED <<flights, jobs, receipt, seen, replaced, handled, claims,
                   faults, losses>>

(* PUBLISHED_ROW_DAYS and FAILED_ROW_DAYS: long past the last job, the     *)
(* last call of a dispatcher and the scan's first round.                   *)
Quiet ==
    /\ flights = {}
    /\ \A r \in Deliveries : jobs[r] # "waiting"
    /\ ~seen
    /\ ~Undated

DeleteRow ==
    /\ row.state \in {"published", "failed"}
    /\ ~row.due
    /\ Quiet
    /\ row' = [row EXCEPT !.state = "gone"]
    /\ UNCHANGED <<flights, jobs, receipt, seen, history, claims>>

(* Mutant: a receipt is deleted by its age alone.                          *)
DeleteOldReceipt ==
    /\ receipt
    /\ row.state # "pending"
    /\ Quiet
    /\ receipt' = FALSE
    /\ UNCHANGED <<row, flights, jobs, seen, history, claims>>

DeleteReceipt ==
    /\ receipt
    /\ row.state = "gone"
    /\ Quiet
    /\ receipt' = FALSE
    /\ UNCHANGED <<row, flights, jobs, seen, history, claims>>

-----------------------------------------------------------------------------

Next ==
    \/ Claim
    \/ \E f \in flights :
          DispatcherStep(f) \/ Refuse(f) \/ MarkUnacknowledged(f) \/ Crash(f)
    \/ LeaseLapse
    \/ \E r \in Deliveries : Deliver(r) \/ LoseJob(r) \/ EvictJob(r)
    \/ SettleOverdue
    \/ DateUndated
    \/ ReadFailed
    \/ ReplaceFailed
    \/ Redispatch
    \/ DeleteRow
    \/ DeleteReceipt

Spec == Init /\ [][Next]_vars

(* Dispatchers and the scan poll for ever, a call is answered or times out,*)
(* a lease its holder left runs out, and BullMQ hands out every job it     *)
(* holds.  The scan dates old rows after each start of its process.        *)
Abandoned == LeaseLapse /\ UNCHANGED faults

Fairness ==
    /\ WF_vars(Claim)
    /\ WF_vars(\E f \in flights : DispatcherStep(f))
    /\ WF_vars(Abandoned)
    /\ \A r \in Deliveries : WF_vars(Deliver(r) /\ UNCHANGED faults)
    /\ WF_vars(SettleOverdue)
    /\ WF_vars(DateUndated)

FairSpec == Spec /\ Fairness

-----------------------------------------------------------------------------

(* A message is acted on at most once, over redeliveries, stalled jobs,    *)
(* operator redispatches and the retention of its receipt: "a receipt      *)
(* leaving first would send old work round again" (outbox/retention.ts).   *)
HandledOnce == handled <= 1

(* A published row is watched until a receipt confirms it or its owner     *)
(* replaced it: "everything since is dated when published, and loses the   *)
(* date only for a receipt or a failure" (overdue-deliveries.repository.ts)*)
Unwatched == Undated /\ ~replaced
NeverForgotten == [][Unwatched' => Unwatched]_vars

(* As long as the transport loses nothing, a published row nobody took on  *)
(* has a job waiting: refused and unanswered publications never pass for   *)
(* published ones, and no row is marked before its job was accepted.       *)
PublishedHasJob ==
    row.state = "published" /\ ~receipt /\ losses = 0 =>
        \E r \in Deliveries : jobs[r] = "waiting"

(* A sound message is acted on in the end, as long as fewer jobs are lost  *)
(* than deliveries are asked: each redelivery is a job of its own.         *)
Delivered ==
    row.sound /\ MaxLosses <= MaxRedeliveries ~> handled > 0

=============================================================================
