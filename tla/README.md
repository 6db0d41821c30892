# Verification of Pertexo

Pertexo runs published workflows on PostgreSQL, with BullMQ (Redis) carrying the
work between processes. Every decision is a short database transaction; between
two of them a process may stop, a job may be lost, repeated or reordered, and a
lease may run out. The modules here model that protocol: which transaction may
follow which, and what must hold whatever happens between them.

| module | what it models |
| --- | --- |
| `NodeAttempt.tla` | one step of a run: attempts, leases, the dispatch marker, retries, waits, stops, takeovers, the run's end |
| `StepPromise.tla` | what a caller may rely on for an unsafe step; `NodeAttempt` implements it |
| `MCNodeAttempt.tla` | symmetry for TLC |
| `OutboxEvent.tla` | one outbox row, from its insertion to its deletion |
| `RunAdmission.tla` | the active-run slots of one workspace |
| `RunGraph.tla` | a run of several steps: the engine's plan and the coordinator that saves it |
| `MCRunGraph.tla` | workflows for TLC to run |
| `OAuthRefresh.tla` | the tokens of one OAuth2 connection: refresh, consent, loss, tests |
| `PendingTask.tla` | one step that waits for a person or a callback |
| `FailureStreak.tla` | the failure streak that pauses a workflow's triggers |
| `EventCoordination.tla` | the events of one key that a trigger deduplicates, debounces or throttles |
| `FairClaim.tla` | how the outbox's claims share their batches between workspaces |
| `MCPlatform.tla` | the last five side by side, for TLC |
| `NodeAttemptProofs.tla`, `NodeAttemptSafety.tla` | proofs about `NodeAttempt`: at most one effect; then what settles, what is stranded, what a stop says, and that it implements `StepPromise` |
| `OutboxEventProofs.tla` | proofs about `OutboxEvent` and `FairClaim` |
| `RunAdmissionProofs.tla`, `RunGraphProofs.tla`, `OAuthRefreshProofs.tla`, `PendingTaskProofs.tla` | proofs about the module each is named for |
| `EventCoordinationProofs.tla` | proofs about `EventCoordination` and `FailureStreak` |

The modules are views of one system at different grain, joined where they meet:
`OutboxEvent` is what `NodeAttempt`, `RunAdmission`, `RunGraph` and `PendingTask`
take as "a job is on its way"; `NodeAttempt` is what happens in `RunGraph` between
the admission of an attempt and its fact; `RunAdmission` is what decides when the
advance of a queued run is delivered, and `FairClaim` why the claim that does so
comes to every workspace. OAuth tokens, tasks, streaks, keyed events and the order
of claims share no state with each other.

Run a configuration with `tlc -config X.cfg M`, and check the proofs of a module
with `tlapm M.tla`. `PROJECT.json` lists the runs, the mutated definitions that
show each property can fail, the source lines of every definition, the hazards
and the theorems.

## Inventory

Paths are relative to the repository; `core` is `packages/core/src`.

| component | state it keeps | operations | interacts through |
| --- | --- | --- | --- |
| node attempts (`core/attempts`) | `node_attempts`, `node_runs`: status, fence token, lease, dispatch marker, outcome | claim, heartbeat, mark dispatched, complete, replay a completion, reclaim, write off | jobs in; advance rows out; the run's row lock |
| worker handler (`apps/worker/src/attempts`) | a process's memory between transactions | load inputs, execute, report, give up | BullMQ, the provider, the attempt's transactions |
| run coordinator (`core/runs/advance`) | `workflow_runs`, `run_checkpoints.revision`, `run_events` | advance, defer, fail an unadvanceable run | advance jobs, the engine, admission |
| workflow engine (`packages/workflow-engine`) | the checkpoint (a value) | plan a transition from facts: ready steps, retries, joins, loops, stops, the run's end | called by the coordinator; pure |
| wakeups (`core/runs/wakeups`, SQL) | `resume_at`, run deadlines | claim due timers and deadlines, enqueue an advance | the scan, the coordinator |
| stalled-work recovery (`core/runs/stalled`) | cursor of the scan | settle overdue deliveries, replace failed jobs, recover expired leases | outbox, attempts |
| outbox (`core/outbox`) | `outbox_events`, `inbox_receipts`, the fair-dispatch cursor | enqueue, claim, publish, mark, release, fail, redeliver, redispatch, delete | every writer; BullMQ; every consumer |
| admission (`packages/database/migrations`, `core/runs/advance`) | `workflow_run_active_admissions`, counters, limits | reserve, arm, start, defer, rebind, release, recover, park, resume, change a limit | the dispatcher's claim, the coordinator, settings |
| BullMQ (`packages/queue`) | jobs in Redis | add under an id, hand out, retry, retain, evict | dispatcher, consumers |
| run commands (`core/runs/commands`) | runs, idempotency records | start, replay, cancel | admission, outbox |
| workflow calls (`core/runs/calls`) | `workflow_calls` | accept a child, return its outcome, lend the slot, cancel down | coordinator, admission |
| human tasks and callbacks (`core/runs/pending-tasks`) | `pending_run_tasks` | create, respond, expire, cancel, park the run | API, coordinator |
| error workflows, recovery runs | intents, evidence | produce, accept, recover | outbox, run commands |
| trigger coordination, schedules, webhooks, forms, automatic pause (`core/triggers`) | events by key, occurrences, streaks | accept, merge, throttle, release, refuse; claim an occurrence; fold outcomes | run commands |
| authoring (`core/authoring`) | drafts, versions, reviews | save, publish, review, promote | revision compare-and-set |
| previews and test suites (`core/previews`) | preview attempts | claim, complete, reconcile | as node attempts |
| connections and OAuth2 (`core/connections`) | grants, tokens, the refresh block | refresh, lose a grant, observe health | the provider, KMS |
| notifications, lifecycle, artifacts, identity, tables, governance, adapters, applications | records of their own | see `PROJECT.json` | transactions of their own |

Hard behaviours, and where they are:

* *A process stops or pauses between two transactions*, and someone else goes on:
  the attempt's lease and fence (NodeAttempt), the dispatcher's lease
  (OutboxEvent), a reservation whose delivery never arrives (RunAdmission).
* *Delivery is at least once*, reordered, and sometimes not at all: receipts,
  redelivery under another job id, replacement of failed jobs (OutboxEvent,
  NodeAttempt).
* *The provider's answer is lost*: was the effect made? (NodeAttempt.)
* *A timer, a deadline, a cancellation and a late result race* for one step
  (NodeAttempt), a run of several (RunGraph), one run's slot (RunAdmission), one
  pending task (PendingTask).
* *Parallel branches end in any order*, several in one advance, and what an advance
  derives it derives again from what earlier ones stored (RunGraph).
* *A write fails after the other side has acted*: the provider rotated a refresh
  token that nobody stored (OAuthRefresh).
* *Results are committed out of the order in which they happened* (FailureStreak).
* *A check is older than the write it guards*: reserve's first read, the scan's
  list of failed jobs, a checkpoint revision read at claim time.
* *Limits change while work is underway* (RunAdmission).
* *What was found is released later*, by several scanners, after others arrived or
  the workflow changed (EventCoordination).
* *Work that cannot be taken stands before work that can* (FairClaim).

What makes each component correct:

* attempts: an unsafe effect is made at most once, an outcome says what happened,
  no step is stranded;
* outbox: a message is acted on once, and in the end; nothing published is
  forgotten before it is confirmed;
* admission: no slot beyond a limit, starts in order, no slot leaked, no run
  queued for ever;
* coordinator: a plan is saved only over the state it was made from; every run
  ends; joins and loops settle once;
* calls and tasks: one outcome each, slots returned, no parent waits for a child
  that ended;
* triggers: an event starts a run in its key's order, in time and within its limit;
* authoring and connections: no lost update, one refresh at a time.

Attempts, the outbox, admission and the coordinator are modelled, and of tasks,
triggers and connections the parts named above; the rest is the plan below.

## NodeAttempt: one step of a run, from admission to settlement

`NodeAttempt.tla` models one node run with all the attempts the coordinator
admits for it. It is the part of the system where a mistake is most expensive (a
payment made twice, a run that never ends, a history that lies about a sent
message) and where a test reaches least: the code is a chain of short
transactions with a process in between that may stop, pause or be overtaken.

### State

| variable | code |
| --- | --- |
| `attempt` | the `node_attempts` rows by attempt number: status, `fence_token`, `lease_owner`, whether `lease_expires_at` is still ahead (`live`), `dispatch_marked_at` (`marked`), the resumption flag, the stored outcome (`result`) and the coordinator's `decision` on a failure |
| `node` | the `node_runs` row: status, current attempt, wait kind, and its timer (`resume_at` ahead, due, or claimed) |
| `run`, `cancelRequested`, `deadlineExpired`, `deadlineWoken` | `workflow_runs`: `"active"` stands for running and waiting, else how the run ended |
| `wake` | an `advance-workflow-run` delivery is outstanding. Several are one: each advance reads everything that is new, and NodeAttempt does not lose this kind of job |
| `revision` | `run_checkpoints.revision`, read at claim time and compared by the worker's emergency close |
| `outbox`, `receipt`, `queue` | the step's `execute-node-attempt` rows of `outbox_events`, their `inbox_receipts`, and the jobs BullMQ holds |
| `worker` | what each worker process holds in memory between two transactions |
| `effects`, `faults`, `losses` | history: provider effects per attempt, and the two fault budgets |

### Actions

| actions | code |
| --- | --- |
| `Publish`, `FailPublication`, `SettleOverdueDelivery`, `ReplaceFailedJob` | the dispatcher and the stalled-work scan, as far as one step sees them |
| `LoseJob`, `Crash` | what Redis and a process may do at any moment (external) |
| `ClaimDelivery` = `ClaimSettled` / `ClaimRunning` / `ClaimReady` | `claimNodeAttemptDelivery`: receipt, candidate, lease |
| `LoadInputs`, `EndWithoutDispatch`, `MarkDispatched`, `MarkRefused`, `Send`, `Return`, `HeartbeatAbort` | the handler between claim and report: input resolution, the dispatch marker's transaction, the provider call and its answer, the heartbeat that aborts it |
| `CompleteCommit`, `CompleteDuplicate`, `CompleteRefused` | `completeNodeAttempt` with its replay rules |
| `LeaseLapse`, `RecoverExpired`, `OperatorSettleUnknown` | an expired lease, the scan's reclaim or write-off, the operator's write-off |
| `Cancel`, `DeadlinePasses`, `ClaimDueDeadline`, `TimerDue`, `ClaimDueWakeup` | the cancel command, the clock, and the two wakeup claims |
| `Advance`, `AdvanceEnded` | the coordinator: `DecideFailure`, `StopWaiting`, `Resume`, `FinishRun`, `ConsumeFacts`, `NoChange` |
| `CoordinatorGivesUp`, `WorkerGivesUp` | `failUnadvanceableRun` from either caller |

A worker that has sent is in phase `applied` or `missed`. The two are the same
to every action of the code; only `effects` tells them apart. That is what lets
a property speak of what really happened at the provider.

### What is checked

* `AtMostOneEffect`: an unsafe step's effect is made at most once over all
  attempts, deliveries and takeovers.
* `TruthfulAttempt`, `TruthfulStop`: an attempt (a step) recorded canceled or
  timed out made no effect. The first holds for a keyed step, the second only for
  an unsafe one: see Findings.
* `NoOpenWorkAfterEnd`, `ReceiptHonest`, `SettledIsFinal`: a run that ended
  leaves nothing to claim; a receipt is completed only for a settled attempt; a
  settled row is never rewritten.
* `NoStrandedWork` (safety) and `RunEnds` (liveness): something durable is always
  on its way to the step, and the run ends.
* `PromiseKept`: the module implements `StepPromise.tla`, the promise a caller of
  an unsafe step relies on, with leases, deliveries and workers hidden. The
  refinement maps `outcome` to the node's settled status and `made` to "some
  attempt has an effect".

## OutboxEvent: one row of the outbox

`NodeAttempt` takes a delivery as an event that is pending, published or failed.
`OutboxEvent.tla` models what that abstracts: every statement that touches a row
of `outbox_events`, the publications still under way in dispatchers that were
overtaken, the jobs BullMQ holds or retains, and the receipt.

| variable | code |
| --- | --- |
| `row` | the row: state from `published_at`, `failed_at` and deletion; `lease_token` (a claim's number) and whether the lease still holds; `redeliveries`; `due` for `delivery_due_at`; `sound` for a payload that passes its checksum and contract; `kind` for who repairs it when it fails |
| `flights` | publications in progress, in any process: `leased` (not sent yet), `added` (the job was added), `refused` (an error came back) |
| `jobs` | the BullMQ job of each delivery number: waiting, or retained after it ended |
| `receipt`, `seen` | the `inbox_receipts` row; the scan's memory between reading the failed rows and locking one |
| `replaced`, `handled`, `claims`, ... | history |

| actions | code |
| --- | --- |
| `Claim`, `Add`, `Refuse`, `MarkPublished`, `MarkUnacknowledged`, `Release`, `FailUnsound`, `Crash`, `LeaseLapse` | the dispatcher: `claimOutboxBatch`, `performPublish`, `publishAndSettle`, `settlePublished`, `releaseFailedPublication` |
| `Deliver`, `LoseJob`, `EvictJob` | `consumeInboxMessage` in a BullMQ worker; what Redis and BullMQ do to jobs (external) |
| `SettleOverdue`, `DateUndated`, `ReadFailed`, `ReplaceFailed` | the stalled-work scan |
| `Redispatch`, `DeleteRow`, `DeleteReceipt` | the operator and retention |

A call that times out is not given up: its answer may come later and settles the
row then. So a flight may take its next step at any time, before or after the row
was leased again, published by someone else, failed, redispatched or deleted.
What keeps this safe is not the lease token but the receipt: a stale mark can
publish nothing that has no job, since the job was added before the mark.

`Quiet` stands for the 30 and 90 days after which published and failed rows are
deleted: by then no call, job or round of the scan of that time is left.

Checked: `HandledOnce` (the consumer's operation commits at most once, through
retention of row and receipt), `NeverForgotten` (no step leaves a published row
without a due time, a receipt or an owner that replaced it), `PublishedHasJob`
(nothing passes for published whose job BullMQ did not take), `Delivered` (a
sound message is acted on in the end while fewer jobs are lost than deliveries
asked).

## RunAdmission: a workspace's slots

A workspace may have only so many runs working at once, and a workflow may have a
limit of its own, in which runs start in the order they were accepted. A slot
changes hands in four places: the dispatcher's claim reserves one for a queued
run whose advance it publishes; the coordinator turns the reservation into an
active run or defers it; a run that only waits for a timer gives its slot back
and takes one again later; recovery moves the reservation of a delivery that is
late. All of them run under one row lock, the workspace's counter, except the
reads that come before it.

| variable | code |
| --- | --- |
| `run` | `workflow_runs`: queued, active (running or waiting with a slot), parked (`timed_wait_started_at` set), ended; `cancel_requested_at`; the timer. A run's number is its `admission_ticket` |
| `hold` | `workflow_run_active_admissions`: the delivery it is bound to, `workflow_concurrency_order_exempt`, whether `recover_after` is set |
| `event` | the run's `advance-workflow-run` rows, as OutboxEvent's states; `picked` is a claim between its first read and the counter |
| `limit`, `cap` | the entitlement's `active_run_limit`, changed in place by `apply_instance_capacity`; `workflow_concurrency_policies` |

| actions | code |
| --- | --- |
| `Accept`, `Cancel`, `ChangeCap`, `ChangeLimit` | acceptance, the cancel command, the workflow's concurrency settings, the API's start with other settings |
| `Pick`, `Reserve`, `Publish`, `LeaseLapse` | the claim's candidates, `reserve_workflow_run_active_admission`, the mark that arms recovery, a dispatcher that stops |
| `LoseJob`, `Redeliver`, `GiveUp`, `Replace`, `Recover` | a lost job (external), the overdue-delivery scan, the replacement of a failed run job, `recover_due_workflow_run_active_admissions` |
| `Deliver` = `End` / `StartOrDefer` / `Resume` / `Consume` | one advance, as far as slots are concerned |
| `Finish`, `Park`, `TimerFires` | what an active run does, and the wakeup claim |

`Pick` waits until no other claim is reserving: `leaseFairOutboxBatch` locks the
cursor row first. `Reserve` may come after the run started, resumed or was
canceled, and then reserves for a run that needs nothing; the reservation goes
when its delivery is consumed, and is not counted by `Working`.

Checked: `NeverOverGranted` and `CapRespected` (no step takes a slot beyond a
limit; one that was lowered below what runs is not exceeded further),
`OrderedStarts`, `BoundToDelivery` (no reservation is left behind by a delivery
that is gone), `EveryRunLeavesQueue` and `EveryTimedWaitEnds`. `ReservedStarts`
fails: see Findings.

Left out: slots lent to calls and runs waiting for a person (planned); the Skip
overflow, which refuses a run before it exists; the number of redeliveries (the
scan gives up at any time); a delivery handed out twice, whose second copy finds
the receipt (OutboxEvent). A deadline acts on admission as a cancellation does. A
deferred or replaced delivery takes the place of the old one, whose row nobody
acts on any more.


## RunGraph: a run of several steps

A workflow is a graph: Conditions and Switches choose one port, a Parallel starts
its branches and a Merge waits for them under a policy, a step may have a handler
for its failure and may be disabled. The coordinator advances a run in one
transaction under the run's lock. It loads what workers, timers and members left,
asks the engine for a plan and saves the plan: checkpoint, rows, attempts, events
and the next advance. `RunGraph.tla` models that transaction as one action and the
engine as it is written, a chain of stages over a value.

| variable | code |
| --- | --- |
| `graph` | the compiled workflow, with what each step may report |
| `run` | `workflow_runs`, and the control part of the checkpoint (`cancel`, `expired`: what the engine has been told) |
| `inv`, `join`, `choice` | the checkpoint: an invocation of each step with its attempt, its failure's handling and its branch path; the ledger of each Merge; the selected ports |
| `row` | `node_runs.status`, which workers claim from and operators read |
| `fact`, `due`, `wakes` | reports no advance has consumed; waits that are over; advance jobs |

| operators and actions | code |
| --- | --- |
| `Start`, `Consume`, `Outcome` | due waits, outcomes, `resolveAttemptFailures`, `decideRetry` |
| `Declare`, `Disposition`, `Contradicts`, `Record` | `mergeCoordinatorObservations` and the observations it makes |
| `SettleHandlers`, `Skipped`, `Blocked`, `Ready`, `PathOf`, `Derive` | failure routes, readiness, skips and the branch path of a new invocation |
| `SettleJoins`, `Stop`, `Admissions`, `Admit`, `SettleRun`, `EndStatus` | joins, stops, bounded admission, the run's status |
| `Inconsistent`, `Unsavable` | where the engine throws, where a row update misses |
| `Advance` = `Save` or `FailUnadvanceable`, `Idle` | the transaction; the end of a run that cannot be advanced; a job for a run that ended |
| `Complete`, `Due`, `RequestCancel`, `DeadlinePasses`, `WakeForDeadline` | the other writers |

A plan that is refused is rolled back, and its job comes again until the run is
ended without the engine. Nothing but a fact can change between two such
deliveries; the model ends the run at the first, which is the worst case.

A workflow has the shape that publication accepts (`GraphShape`). Links are between
steps, a Merge is of one Parallel and does nothing itself, a Parallel lets at least one
step run, and what the ports of a Condition or Switch lead to is disjoint
(`assertBranchesDoNotReconverge`). A step's handler is a line of enabled actions from its
error output that nothing else enters and nothing leaves, and `suffix` is what follows the
step when it does not fail (`RouteShape`: `inspectWorkflowFailureRoutes`, and
`registerExecutableIdentity` for the suffix), and a workflow with a handler has no
Parallel (`inspectWorkflowDecisionTree`). `GraphsAssumption` is checked for the
workflows the runs use, and is all that the proofs know of one. Human tasks, whose ports
may lead back together, are not steps of this model.

A failure is routed to its handler only where it can be told what failed
(`isRoutableExecutorFailure`); a report `unclassified` is one that cannot.

Checked:

* `NeverUnadvanceable`: no order of facts leads to one the engine or the rows
  refuse.
* `RowsFollow`: rows and checkpoint, written by different transactions, never drift
  apart.
* `OnlyChosenPathRuns`, `InOrder`: what is skipped is derived at each advance from
  selections, failures and skipped Parallels that earlier ones stored; no step of
  another path is admitted, and none before what it depends on. The first is stated
  over the graph by an operator of its own (`Beyond`), not by the engine's. Two things
  the code does bound it: a Merge is declared and admitted whether it is disabled or
  not (only `readyNodeDecision` asks), and what follows a source of a handler runs also
  when the source was skipped (`WithoutFirst`), since nothing failed.
* `LedgerTruth`, `LedgerFixed`: a branch is closed once, when nothing in it is open,
  with the worst that happened in it; while a branch is pending its join is open, and
  what a closed branch contains is settled. (A Merge runs only once its join is
  satisfied, by `InOrder`, so that nothing in its branches is open by then.)
* `BranchLimit`, `NothingStartsAfterStop`, `EndsSettled`, `RunEnds`.


## Tokens, tasks, streaks, keyed events and claims

Five protocols beside the run, small enough to be checked together
(`MCPlatform.tla`) and without state in common.

### OAuthRefresh: one connection's tokens

A service that rotates refresh tokens takes a second use of one for theft and may
withdraw the grant. So one process at a time may ask: it claims the row by its
version and blocks it for 45 seconds, asks for at most 15, and blocks it again
before each attempt to seal and store what it got. Consents, tests, a new client,
revocation and the workspace's deletion change the same row.

| variable | code |
| --- | --- |
| `link` | `connections`: status, secret version, why the grant was lost; the workspace's own deletion request |
| `row` | the token row: its version, `refresh_blocked_until` in ticks, the refresh token by number, expiry |
| `refresher` | what each refresh holds in memory, with the time its step may still take |
| `service`, `consent`, `test` | tokens the service accepts, by grant; the pending consent and the exchanges of consumed ones, by the settings they are for; a connection test between its reads and its result |

Time is in ticks of 15 seconds here, since the argument is about durations: a
`Tick` needs every step that would outlast its limit to be `frozen`. `excused`
notes the events the design accepts as the cost of a grant (a crash or freeze
while a token is on its way, an answer that is lost, a third failed write, a block
that could not be written). `LostOnlyIfWithdrawn` says that nothing else costs one.
`ActiveHasGrant`: a connection is active exactly while it has tokens for its
settings, except after the test described under Findings (`reopened`).

### PendingTask: waiting for an answer

| variable | code |
| --- | --- |
| `task` | the `pending_run_tasks` row, of a person or of a callback, which may be answered before its step waits (`early`) |
| `run`, `step`, `jobs`, `consumed`, `scanned` | the run, its waiting step, advance jobs, whether an advance may come again, and the scan of due steps |
| `receipts`, `heard` | receipts of the answering commands; what each responder was told, if the reply reached them |

Each transaction locks the run first and is one action: `Respond`,
`RespondCallback`, `PrepareCallback`, `Declare`, `Cancel`, `DueScan`, `Advance` (with
`Expired`, `NextStep`, `Bind`, `Close` in the code's order) and `FailRun`. An answer,
an expiry, a refusal for lack of capacity, a cancellation, a deadline and an
emergency close race. `AnswerCounts`: who was told that their answer counts gave it,
who was told otherwise did not, and the step ends with it. `SettledIsWoken`: a
settled task whose step still waits has an advance on its way.

### FailureStreak: what pauses a workflow

A run's end has a time before its transaction commits, and folders take outcomes in
any order, a few at a time. `outcome` is what ended at each position (still open,
committed, folded), `streak` the workflow's row with the failures it keeps,
`workflow` the pause and its settings. `Fold` takes any part of what is pending:
rows are chosen before the workflow is locked, and others are skipped. `StreakIsTrue`
compares with the streak as ADR 056 defines it over all that is committed: a pause
happens only on a streak that really happened, and a fold that leaves nothing has
counted it all.

### EventCoordination: the events of one key

A trigger may deduplicate its events, debounce them, or throttle them and skip or
delay the excess. One key is modelled, under one policy of the four.

| variable | code |
| --- | --- |
| `window` | the key's `trigger_event_windows` row: start, starts charged to it, when it may be deleted |
| `held` | its pending `trigger_coordinated_events`, oldest first: due time, deadline, the wait for the queue, whether a scan has found it |
| `accepting`, `published` | whether workspace, workflow and endpoint are active; the published version |
| `policy`, `moment`, `received`, `starts` | the policy; the clock; events so far; when the latest starts were |

A receipt is `StartEvent`, `SkipEvent` or `HoldEvent`, as `decideEventCoordination`
says. A scan is two transactions: `Discover` reads which events are due, and
`Release` decides again under the workspace's lock, so several scans may hold one
event, and an older event may stand before it or its version be gone by then.
`Release` has the answer of the run's acceptance as a parameter: accepted, refused,
or the queue is full. `RestFailed` is the second transaction of a release that
failed; `RetainWindow` deletes a row between two events of its key.

`first` in an event is the receipt of the first event of its burst, kept to say what
a debounce inherits. `StartsInTurn`: a run starts at once only when nothing is held,
and otherwise for the first held event, on the published version, within a day of
its burst and fifteen minutes of its wait for the queue, and a debounced one after
the quiet. `WindowsHold`: two windows have room for twice the limit, so the start
after that is more than a window later than the first, whatever was released late,
skipped or forgotten meanwhile. It is not a sliding limit: windows are fixed, and
the guide says that a burst may straddle their boundary.

### FairClaim: whose rows a claim takes

`ClaimBatch` is `leaseFairOutboxBatch` over several workspaces: those that have rows
in turn from the cursor (`Round`), an equal share each, the earliest eligible rows
(`Eligible`, `Earliest`), a slot for those that start a run (`Admitted`), and the cursor
after the last workspace of the round, served or not. `rows` are what each workspace
could be claimed, `free` its slots, `cursor` the row of the fair dispatch; `passed`
counts the claims that took nothing from a workspace that had something to take.
`TurnComes` bounds it: a workspace is left out only while others are before it, however
many of its deliveries, or theirs, wait for a slot. The locks another transaction
may hold on some rows of one workspace are skipped, as the query does, and count
as nothing to take.

## Runs

| run | checks | shows |
| --- | --- | --- |
| `unsafe_step` | `AtMostOneEffect`, `TruthfulStop`, `NoOpenWorkAfterEnd`, `PromiseKept` | An unsafe step under two workers, two attempts, three deliveries and one crash, lapse or emergency close. Two deliveries of one attempt, a takeover, a late answer of the first worker and the coordinator's decision interleave freely. |
| `keyed_step` | `TruthfulAttempt`, `ReceiptHonest`, `SettledIsFinal` | The same instance for a step with a provider key: its effect may be made again under a later attempt, so what is at stake is the record, not the count. |
| `wait_step` | `NoStrandedWork`, `RunEnds` | A Wait step under a run deadline, one job or publication lost: timer, deadline, cancellation and the resumption's delivery race. |
| `recovering_step` | `NoStrandedWork`, `RunEnds` | One worker that may crash or lose its lease, one job or publication lost: whatever is lost, the scan brings the step back. |
| `keyed_step_stopped` | `TruthfulStop`, violated | The shortest history in which a stop settles a step canceled after a send nobody confirmed (Findings). |
| `outbox_event` | `HandledOnce`, `PublishedHasJob`, `NeverForgotten`, `Delivered` | One row of each job kind, sound or not, fresh or published before due times existed. |
| `run_admission` | `BoundToDelivery`, `OrderedStarts`, `NeverOverGranted`, `CapRespected` | Three runs of one workflow, either limit present, one of the runs parking for a timer, and one of: a changed limit, a cancellation, a lost job, a stopped dispatcher. |
| `queue_drains` | `EveryRunLeavesQueue`, `EveryTimedWaitEnds` | Two runs compete for one slot, the one that has it parks and wants it back. |
| `limit_lowered` | `ReservedStarts`, violated | A workspace limit lowered below what is already reserved (Findings). |
| `run_graph` | `TypeOK`, `NeverUnadvanceable`, `RowsFollow`, `EndsSettled`, `OnlyChosenPathRuns`, `InOrder`, `LedgerTruth`, `BranchLimit`, `LedgerFixed`, `NothingStartsAfterStop`, `RunEnds` | Seven workflows, with retries, waits, failures, unknown outcomes, cancellation at any moment, a deadline in four of them and a disabled step with a handler and followers in one. |
| `merge_never_met` | `RunEnds`, violated | Three workflows whose run waits for ever for a branch that nobody closes (Findings). |
| `platform` | `LostOnlyIfWithdrawn`, `ActiveHasGrant`, `AnswerCounts`, `SettledIsWoken`, `WindowsHold`, `TurnComes`, `StreakIsTrue`, `StartsInTurn` | Tokens, a pending task, a failure streak, the events of one key and the order of claims, one per behaviour. |

### Bounds

* *Workers* (2): every rule of the attempt protocol is about who holds a row and
  one rival with an older or newer fence. The rival may be any process that ever
  held it, since a worker's memory is kept until it acts or crashes.
* *MaxAttempts* (2): a first attempt and a retry; the code looks at the current
  attempt and its predecessor only. One where the run is about liveness.
* *MaxEvents* (3): the delivery of each attempt and one more, the redelivery, the
  resumption or the replacement.
* *MaxFaults*, *MaxLosses* (at most 1 each in NodeAttempt): a pair of rivals and
  one failure is the smallest case of each hazard. Two faults, with four events,
  were run once for the unsafe step: 15.8 million states, nothing new. `RunEnds` was
  run with one fault, one loss and four events for the Wait step: 2.87 million.
* *OutboxEvent*: two redeliveries under one redispatch reach the limit, pass it and
  reach it again; two losses are as many as the redeliveries may cover. With
  two faults: 2.86 million states, nothing new.
* *RunAdmission*: three runs are what order needs (one that starts, one it may
  overtake, one that holds the slot); two deliveries, since a deferred one frees
  the number of the one it replaces; one of the spent events. `MaxSpent` bounds
  cancellations, losses, lapses and changes of a limit together. Two workflows,
  which compete only through the workspace's counter, were run with one limit of
  each kind: 4.9 million states. `queue_drains` was run with three runs: 269,600
  states.

* *RunGraph*: two attempts (a first and a retry), two admissions in one advance (so
  that `Wide`, with three branches, has one too many), two advance jobs told apart
  (one being delivered and one that comes after). The graphs are the smallest that
  hold each pair of features: a handler of more than one step before a Condition
  with a handler behind it; a Condition before a Parallel and one inside a branch; a
  branch without steps; nested Parallels; every join policy that differs. `run_graph`
  leaves out what the findings are about: cancellation where a branch has no step
  (`Direct`), a failure before the last step of a branch, a step between two nested
  Merges, and an inner Merge that is not met; `merge_never_met` has the last three.
* *OAuthRefresh*: two processes that renew (the pair that may present one token), one
  consent and two settings; three versions are a grant, its renewal and either
  another renewal or a second grant. `MaxRare` bounds consents, commands, tests and
  mishaps together: four are a consent and three failed writes, which is what it
  takes to reach the last commit attempt, or a consent, a freeze and two more. Two
  consents may have their codes exchanged at once. A service that asks to be left
  alone does so for no longer than a claim's own block.
* *PendingTask*: two responders (two people who answer, or one who answers and one who is
  late); three jobs (the declaration's, an answer's and a cancellation's).
* *FailureStreak*: five ends or resumes against a threshold of two or three, three
  failures kept and two outcomes per fold: every batch leaves something out, and a
  streak may be longer than what is kept. One failure carried over from the counter
  that the ordered streak replaced, one change of the settings.
* *EventCoordination*: a window of two ticks with two starts, and five events, which
  is the fewest that could break `WindowsHold` (twice the limit and one). A deadline of
  four ticks is longer than a quiet period, so that a burst reaches it; a wait of two
  for the queue is shorter; six ticks hold a window, a deadline and what follows. One
  publication after the first. `starts` keeps only as many as the property looks at.
* *FairClaim*: three workspaces and a batch of two, so that a round leaves one out, and
  a workspace alone gets two rows; one slot and two rows each, so that a start without
  a slot may stand before other work.

The types of NodeAttempt, OutboxEvent, RunAdmission, OAuthRefresh, PendingTask and
EventCoordination are proved for every value of the constants and so are not run.

No bound cuts a history short in the middle of a protocol: where a number is spent,
the events that need it stop and the rest goes on. A run that has ended, a row that
was deleted and a queue that is empty take no further step, so deadlock is not
checked; that the systems stop only where they may is what `NoStrandedWork`,
`RunEnds`, `Delivered`, `EveryRunLeavesQueue` and `SettledIsWoken` say.

Symmetry of the workers is used in the runs that check safety and `PromiseKept`
(whose abstract state names no worker), and of the processes and responders in
`platform`, whose action properties, `StreakIsTrue` and `StartsInTurn`, name neither; never with
liveness.

## Fairness

Only what the code's own loops do is fair. No crash, loss, lapse of a lease that
is renewed, second delivery, cancellation or change of a limit ever has to happen.

* *NodeAttempt*, weak fairness of: each publication that does not fail and each
  redelivery (the dispatcher and the stalled-work scan poll on an interval); each
  job's first delivery (BullMQ hands out what it holds); each worker's next step
  (a live process finishes: inputs, marker, provider call and report all have
  timeouts); the lapse of a lease nobody renews, and its recovery (the scan); the
  passing of a timer and the two wakeup claims; the advance (an advance job that
  is outstanding is delivered; `OutboxEvent` shows why). A deadline need not pass:
  the run ends without it.
* *OutboxEvent*, weak fairness of: `Claim`, the dispatcher's steps, the lapse of
  an abandoned claim, the delivery of each job without a fault, `SettleOverdue`,
  `DateUndated`. Retention need not come. The premise of `Delivered` is that fewer
  jobs are lost than deliveries asked for: past the limit of redeliveries the row
  is failed and left to its owner or the operator, by design.
* *RunAdmission*, weak fairness of: reserving and publishing what was picked,
  redelivery, replacement, delivery, the end or the wait of an active run, and
  timers. `Pick` is strongly fair: it is disabled for a moment whenever another
  claim holds the cursor row, and a claim takes workspaces in turn and rows by
  `available_at`, which a deferred delivery has five seconds ahead, so that a row
  which is eligible again and again is reached. `TurnComes` shows the first half for
  the batch query: no workspace that has something to take is left out for more
  claims than the others before it fill.
* *RunGraph*, weak fairness of: the advance (its job is delivered in the end, as
  `Delivered` says of an outbox row), the report of an admitted attempt
  (`NoStrandedWork` and `RunEnds` of NodeAttempt), the timer of a wait with its
  scan. Neither a cancellation nor a deadline need come.
* *`platform`* checks no liveness and states no fairness.

## Proofs

Everything below is checked by TLAPS from the assumptions the modules state:
`BoundsAssumption`, `OAuthAssumption`, `TaskAssumption`, `ClaimAssumption`,
`CoordinationAssumption` and `StreakAssumption` (the bounds are natural numbers, limits
and durations are positive, a threshold is no more than the failures that are kept), `StepAssumption` in NodeAttempt (`NoWorker` is no worker, the step's
class and its two flags are what they can be) and `GraphsAssumption` in RunGraph (a
workflow is finite and has the shape that publication accepts). Nothing bounds the
number of workers, attempts, deliveries, faults, runs, workflows, steps, workspaces,
refreshes or responders.

### NodeAttempt

`TypeCorrect` needs more than `TypeOK`. `TypeInv` adds `CurrentAdmitted` (the
node's current attempt has a row, so that an action indexes one) and
`ReportHasOutcome` (a worker about to report has an outcome in memory, so that the
stored one has its type).

`UnsafeEffectOnce` is the theorem the module is for. `AtMostOneEffect` is a sum
over attempts and says nothing of why a second effect is impossible. `EffectInv`
does, in nine parts, each a link of the argument:

* an effect needs permission, and there is one holder of it: `Fenced` (a worker's
  fence never passes the row's), `OneHolder` (two workers with the row's own fence
  are one), `MarkedOnce` (a worker that may send holds a row that is marked),
  `OnePermission` (a worker about to send, or an effect made, never both and never
  two for the same attempt);
* a marked attempt is never followed by another: `FutureUntouched` (attempts not
  admitted are as they were), `HolderClean` (a worker that has not marked holds
  an unmarked row, without an effect), `RetryClean` (what a
  worker is about to report as a retry of an unsafe step sent nothing),
  `PastClean` (attempts before the current one made no effect), `NeverSuspends`
  (an unsafe step does not wait and so is not resumed under the same attempt).

A stopped worker that goes on after a takeover keeps its old fence, so the marker
refuses it; a worker that passed the marker before the takeover leaves a marked
row, which recovery settles unknown and never retries. The lemmas take the actions
in that order.

NodeAttemptSafety goes on from there, with one lemma for what each action does to the
rows, field by field, and one invariant for each question:

* `NoOpenWork` and `SettledStaysFinal` use `Structure`: which statuses the node and
  its current attempt can have side by side (`NodeFollows`), that no other attempt is
  open (`OneOpenAttempt`), that attempts not admitted do not exist (`LaterAbsent`) and
  that an ended run left its step settled (`EndedSettled`). A settled row survives
  since whoever writes one either asks for an open status or holds its fence.
* `ReceiptsHonest` uses `ReceiptInv`: an event the step never created has no receipt
  and no job (`FreeUntouched`), and a worker holds the attempt that its delivery names
  (`HoldsDelivery`), so that the receipt it completes is of the attempt it settled.
* `NothingStranded` uses `WakeInv`: while the run is underway, a failed attempt without
  a decision has an advance on the way (`Decided`), a waiting node an advance or its
  timer (`Timed`), a settled node an advance (`Ending`); and that a ready node has a
  delivery whose receipt is not completed, which `ReceiptsHonest` gives.
* `TruthfulAttempts` and `TruthfulStops` use `LeaseInv` (a fence belongs to one worker
  and none is newer than its attempt's), `StopInv` (nothing is sent without the
  marker; a lease holder that has not marked, gave up before sending or reports a stop
  has sent nothing; an attempt settled canceled or timed out made no effect) and, for
  the stop of the whole step, `HonestInv` (a failure reported as not possibly
  dispatched is of an attempt without effect, in the worker's hands and once it is
  stored; a step is stopped only over such an attempt). `TruthfulStops` leaves out the class
  `idempotent_with_key`, for which `keyed_step_stopped` shows the property violated.
* `UnsafePromiseKept` is the refinement: under the class `unsafe`, every step of
  NodeAttempt is a step of `StepPromise` or a stutter. It joins the invariants above
  with `EffectInv` and `PromiseInv`: a worker that may still send holds the lease, or
  the step was written off as unknown (`PermissionKept`); a worker that reports
  success made the effect (`SuccessMade`); an unsafe step is not resumed
  (`NeverResumes`).
  The other classes make weaker promises and their runs check those.

### OutboxEvent

`TypeCorrect` rests on the bound of the delivery number (`redeliveries` never
passes `MaxRedeliveries` by more than the redispatches made). `HandledAtMostOnce`
uses `HandledInv`: the receipt stands for the one commit, and once retention has
taken it, so are gone the row, every claim on it and every waiting job.
`NothingForgotten` proves the action property `NeverForgotten` from the types
alone: each statement that clears a due time also leaves a receipt, a failed row or
a row that is pending again.

`PublicationHasJob` uses `JobInv`: while no job was lost and the message was not
acted on, every job that was ever added still waits, a flight past its add has one,
and so has a row marked published. `markPublished` follows the add, and a row is
taken back to pending before another job is added under another id.

### FairClaim

`EveryTurnComes`, in OutboxEventProofs, says that claims leave a workspace what it
could have at most `(WorkspaceCount - 1) \div BatchLimit` times in a row, for any
number of workspaces and any rows, slots and locks. The invariant `TurnInv` is a
measure: `passed[w] * BatchLimit` and the workspaces before `w` in the turn are
together fewer than all workspaces. A claim that passes `w` over either had `w` in its
round, and then the equal share gives it a row (`ShareIsSome`, `EarliestIsSome`,
`AdmittedIsSome`: a slot is asked for only while one is free), or left it out: then
the round is full and all of it is before `w` (`RoundSize`), and the cursor moves
past it (`TurnMovesOn`), so that `BatchLimit` workspaces are before `w` no more.
That a set of numbers has a least is taken from the library's well-founded
induction (`LeastNumber`).

### RunAdmission

`TypeCorrect` and `SlotsStayBound` share `Inv`, the types and `BoundToDelivery`:
a reservation is bound to a delivery that exists and was not given up, so each
statement that takes a delivery away must move or release what is bound to it.

`StartsInOrder` says that with `NoneExempt` (no reservation skips the order) and
`Unaccepted` (a ticket not given out has nothing) `InOrder` is inductive:
`reserve`, `start` and `resume` each look for an earlier queued run under the
counter's lock, and a run once started or ended is not queued again. Exemptions
arise only where a workflow's limit is changed, which is the hypothesis of
`OrderedStarts`.

`LimitNeverOverGranted` and `CapsRespected` count. Both are about a step: one that
lets another run occupy a slot leaves the workspace within its limit, and the
workflow within its cap. A run joins those that occupy a slot by being granted one,
and one at a time (`OnlyOneJoins`), no other action makes a run occupy more
(`OthersTakeNone`), and the check `reserve` makes under the counter's lock counts at
least the runs at work (`SlotsAreAsked`). The cardinalities are of finite sets of
runs, by the library's theorems.

### OAuthRefresh

`ActiveOnlyWithGrant` needs `NextInv` (tokens about to be stored name a version that
is not zero, so that a commit never empties the row) and `GrantInv`: a row belongs
to an active connection and to its settings; an active connection has a row unless
a test reopened it; and a dispatched test whose health revision is still current
found a row when it was dispatched. The last part carries the argument: whatever
removes a row (`LoseGrant`, `DropGrant`) moves the revision, so a test that may
still activate the connection is one whose row is there.

`GrantsLostOnlyIfWithdrawn` is about what the block on a token row is for. `VersionInv`
says that versions only grow: nobody holds a later one than the row, so that a
version the row has left does not come back and the compare-and-set of a late process
fails. `ClaimInv` holds until something excuses a loss (the grant was withdrawn, a
process died or froze past its block, a write was refused to the end, an answer was
lost): a claimed row is blocked for
longer than its one holder may still take (`BlockInv`, `OneHolder`), the tokens that
processes hold and have not yet spent are live and differ (`KeysLive`,
`KeysDiffer`), and so is the one of a row that nobody holds (`FreeRowLive`), so the
provider never answers that the grant is gone (`NoneLost`). Each clause needs the
others: a second holder is what would spend a token twice, and the block is what
keeps a second holder away.

### PendingTask

`OneAnswerCounts` and `NoSettledTaskForgotten` share `TaskInv`. `StepInv` ties the task
to its step (bound once it waits, pending only while it waits, due only once it is
bound), without which an advance could bind a task twice or end a step with none.
`AnswerInv` says that an answer stands in the task that has it and that a person's
has its receipt, which is what a retried command is told by. There is a lemma for
each action; `AdvanceKeeps` follows the advance through binding, expiry and closing.

### EventCoordination

`EveryStartInTurn` needs to know of a held event what no single step shows. `Patient`
says it: its deadline is that of its burst's first event; a debounced one is due at
the end of the quiet or at its deadline, never before both, so that a release in time
is a release after the quiet; and it has begun to wait for the queue only after the
quiet, so that the due times a full queue or a failed release gives it are later
still. `CoordinationInv` adds the types and that only the policies that hold events
have any. `Patient` is a set of event records that depends on the policy alone, so
that the lemmas about sequences (removing one, replacing one, appending one) carry
it through each action. The theorem then has two steps that start a run: `StartEvent`,
which for every policy but deduplication asks that nothing be held, and `Release`,
whose guards are the rest.

`EveryWindowHolds` uses `WindowInv`, through `Fits`: the starts fit the key's row (those
beyond the ones it charged came before its window, and those beyond that by another
limit came more than a window before it), and without a row a window that would begin
now. A start is charged to the window the decision saw under the key's lock; a window
is replaced only once it has expired, and then the old row's charges are those before
the new one's.

### FailureStreak

`StreakNeverInvented`, in EventCoordinationProofs, compares the row a fold writes with
`TrueStreak`, which is computed from every committed outcome and never from the row.
The row keeps a mark, the newest `MaxKept` failures and a number, so `StreakInv` says
what these are of: `FoldedFailures` are the outcomes counted so far, `Standing` those
that the resume and the mark leave. The mark is a committed success and no folded one is
later; the newest of the standing are all kept; and the number is that of the standing,
up to `MaxKept`, or the old counter's where nothing has replaced it. The step that
matters is `FoldFacts`: what a fold orders is a part of the standing that has all of
the newest (`NewestOfPart`), so that its size, capped, is theirs (`NewestMany`), although
retention deleted the others. A count is then at most the true streak once no committed
success is later than the mark (`CountWithin`), which is why a fold looks for successes
that are not in its batch, and is the true streak up to `MaxKept` once nothing is pending
(`CountComplete`).

### RunGraph

The module's operators are the engine's stages, so the proof follows them. `Plan`
says what a stage is given and returns; `SoundPlan` adds what a checkpoint keeps: a
step that may be admitted has an attempt left, a handled failure is a routed one whose
handlers succeeded, a decided join is closed, what runs has its predecessors
(`Ordered`). `Keeps` is what no stage before admission undoes: no attempt is counted,
what runs is untouched and has nothing reported, what is settled keeps its status, and
a ledger is only added to.
Each stage has a lemma that it returns a sound plan if it is given one. `RunInv` adds
to the checkpoint what ties it to the other rows (`FactsOfRunning`, `ToldToStop`,
`EndedClosed`, `RowsFollow`, `BranchLimit`), and `SaveKeeps` shows it after a
transaction. From it follow, for every workflow of the published shape:

* `RowsNeverDrift` (`RowsFollow`), and with it `RowsRefuseNoPlan`: a run is given up
  without the engine only where the engine refuses what it is told; the expected
  statuses of the row updates always match. That the engine never does is
  `NeverUnadvanceable`, which the instances check;
* `EndedRunsTellTheTruth` (`EndsSettled`), `ParallelLimitHolds` (`BranchLimit`, by
  counting what runs inside a Parallel before and after admission),
  `StopsAdmitNothing` (`NothingStartsAfterStop`);
* `LedgersNeverRevised` (`LedgerFixed`): no stage but the one that closes a branch
  writes a disposition, and it writes none over another;
* `StepsRunInOrder` (`InOrder`): a step that has an attempt was ready when it was
  first admitted, and what it waited for is settled and so stays.

`OnlyTheChosenPathRuns` has an invariant of its own, `PathSound`, for its difficulty is
that the engine stores no skip before it derives one: at every advance the skipped steps
are found again from the selections, failures and skipped Parallels that are stored, and
a step that is missed once is ready, since its predecessors were skipped. So the invariant
speaks of what is derived. A step skipped by now has done nothing (`SkippedIdle`); a step
with an invocation is skipped or had its predecessors (`KnownByPath`); a Merge is declared
only by a Parallel that succeeded (`JoinsOpened`), a port is selected only by a step that
succeeded (`PortsChosen`); a disabled step does nothing (`DisabledIdle`); only a failed
step's failure is routed (`RoutedFailed`). The argument:

* `Descendants` and `Beyond`, recursive functions, are what they are meant to be, the
  least sets that contain their roots and are closed under links: `Grown` repeats a step
  as often as there are nodes, and a set that grew every time would have too many
  (`GrownSteps`, `GrownClosed`, `GrownWithin`).
* `Held`, the steps that are skipped or were neither begun nor given an invocation, is
  closed under the links that `Beyond` follows (`HeldClosed`, `AfterHeld`). A port not
  selected, a handler not needed and what follows a routed failure lead into it
  (`UnselectedHeld`, `RouteHeld`), so that what lies beyond them is held, and what is held
  has no attempt. That is the property (`ChosenOnly`).
* What may change is `PathMoves`, and each stage of the engine makes only such moves. Under
  them a set that is skipped stays so: a new skip is of steps that were held
  (`SkippedGrows`, along the links from where it began), and what had begun goes on
  (`BegunStays`). Here the ports that lead to different steps are needed: a step of the
  port that was selected is not skipped by another one.

### Model-checked only

Liveness (`RunEnds`, `Delivered`, `EveryRunLeavesQueue`, `EveryTimedWaitEnds`) is
out of this prover's reach, as is anything about ENABLED.

`NeverUnadvanceable` and `LedgerTruth` do not hold of every graph that publication accepts
(a branch whose step has a second successor that leaves the branch, and a branch without
steps) and would need a hypothesis about branches that nothing in the code ensures. They
are checked for the workflows of `MCRunGraph`. Of every workflow hold `RowsRefuseNoPlan`,
the half of the first that is about the rows, and `LedgersNeverRevised`.

## Findings

**A stop forgets what an earlier attempt may have sent** (`keyed_step_stopped`,
`TruthfulStop`). A keyed step fails after a possible send, `decideRetry` puts it in
`retry_backoff`, and during the wait a cancellation or the run's deadline comes.
`stopInvocation` (`packages/workflow-engine/src/transition/stops.ts:37`) settles it
canceled or timed out and the run ends so, though the effect may have been made.
`docs/adr/007-run-node-state-retry-idempotency.md:203` says "Cancellation does not
erase completed effects or turn an ambiguous effect into `canceled`"; the
emergency close and the write-off of an active attempt follow that rule. For an
unsafe step the rule holds everywhere (`unsafe_step`).

**A lowered limit stops a workspace whose starts are reserved** (`limit_lowered`,
`ReservedStarts`). `workflow_run_active_capacity_available`
(`packages/database/migrations/0100_core_run_admission.sql:144`) counts the
reservations of the other queued runs against the limit, and
`apply_instance_capacity` (`0064_instance_capacity.sql:72`) lowers the limit in
place. Two runs with a reservation each under a limit of one are each refused on
account of the other, deferred with their reservation
(`packages/core/src/runs/advance/receipts.repository.ts:173`), and again, for ever.
`docs/guides/concurrency.md:40` says "Lowering a limit does not interrupt active
runs or revoke reserved starts." The guide says so of a workflow's limit, and adds
that the workspace's limits still apply; they do, but not as a limit that is waited
for: two reservations that fit one at a time keep each other out for ever. The
workflow's own limit has no such case: under it a reservation is the right to start.

**A branch that nobody closes** (`merge_never_met`, `RunEnds`).
`mergeCoordinatorObservations` (`packages/workflow-engine/src/observation/coordinator.ts:235`)
leaves a branch open while the step that feeds its Merge has no invocation. A step
that fails before the branch's last one leaves that last one without an invocation
for good; the join stays pending, the run is parked as waiting, and no advance
follows until a cancellation or a deadline. `docs/adr/008-structured-bounded-loops.md:75`
says "If the settled ledger cannot satisfy the policy, the join fails with a typed
unsatisfied-join result rather than waiting forever." Two more graphs do the same: a
step between an inner and an outer Merge, which belongs to no branch, and an inner
Merge that fails in the very advance that should have read it. Each graph of the run
hangs alone.

Two more, without a run of their own:

* *A refused advance.* With `Graphs <- Refused` and the invariant
  `NeverUnadvanceable`, TLC finds a run that the coordinator ends failed although no
  step failed. In one graph a cancellation, a Parallel's success and a branch without
  steps meet in one advance: the Merge's declaration is ignored and the branch's
  disposition refused. In the other a branch has a second step that leads to no Merge:
  the branch is closed before it and contradicted by its failure.
* *A test that reopens a lost grant.* `markConnectionTestDispatched`
  (`packages/core/src/connections/connection-tests/dispatch.repository.ts:59`) reads the
  health revision anew without looking at the status. A test that got its token before
  the grant was lost, and is dispatched after, completes as current and makes the
  connection active with no token row. `docs/feature-plans/21a-oauth2-connections.md:294`
  (L7) says "A connection is `active` exactly when it has a token row for its current
  secret version." The configuration `MCPlatform.cfg` with the invariant
  `ActiveExactlyWithGrant` shows it; `ActiveHasGrant` excepts it and holds.

A wording rather than a bug: line 275 of the same plan says of two requests with one
token "Only a process frozen past the block can break this". A block that could not
be written, which `commitIssued` swallows, before a slow seal breaks it too; the model
counts it among the accepted events.

## Not modelled

Within what is modelled:

* *Data*: inputs, outputs, payloads, checksums and error texts. A row's payload is
  sound or not; an outcome is its status, failure kind and dispatch certainty.
* *Time* is an order of events, except in OAuthRefresh and
  EventCoordination: a lease, a backoff and a deadline pass at any
  moment after they begin. So every race with a clock is covered, and no property
  is about a duration.
* *Batches*: claims, scans and wakeups take many rows per transaction; the rows of
  a batch are locked one by one and no decision relates two, except in the fair
  claim, which is `FairClaim`.
* *Database transactions* are atomic and serializable as far as the row locks the
  code takes make them so; where it reads before it locks (reserve, the scan of
  failed jobs, the emergency close) the read is a step of its own.
* *Several steps of one run*: NodeAttempt's run ends when its step does; RunGraph
  has several, and takes an attempt from its admission to its report as one step.
* *RunGraph*: loops and their iterations, called runs, human tasks, the run's slot,
  the size and encoding of the checkpoint, and the compilation that accepts a graph.
* *OAuthRefresh*: client-credentials grants (no refresh token to lose), the creation
  and sharing of connections, secrets other than OAuth2 clients. *PendingTask*: who
  may answer, a suspended workspace, a called run's ancestors, the slot given back
  while the run waits. *FailureStreak*: the notification of a pause and its history.
* *EventCoordination*: one key; how a key is read from an event (an invalid one is
  refused and leaves nothing), the workspace's budgets of keys and pending events (a
  receipt over budget is a skip), receipts and history. *FairClaim*: the order of the
  runs of one workflow, which RunAdmission has, and the job names a dispatcher is
  enabled for.

Of the rest (`PROJECT.json` lists each component with its reason): calls, schedules, drafts and previews are planned;
identity, tables, governance and artifacts are records edited in one transaction;
the contracts, the web client, the CLI and the integrations are parsing,
presentation and I/O.


## Plan

In the order of what a failure would cost. `done` is in this directory.

1. `NodeAttempt`, `StepPromise` — done and proved.
2. `OutboxEvent`, `FairClaim` — done and proved.
3. `RunAdmission` — proved but for calls and human waits, which are not modelled: slots
   lent by a parent to its child and given back, runs that wait for a person.
4. `RunGraph` — done but for loops. Next: iterations as invocations of their own, and an
   abstract specification, a run as a graph of steps each settled once, that it
   implements; and under which hypothesis about branches `NeverUnadvanceable` and
   `LedgerTruth` hold of every graph.
5. `OAuthRefresh`, `PendingTask`, `EventCoordination`, `FailureStreak` — done and proved.
6. `WorkflowCall` — parent and child: outcome up, cancellation down, the slot.
7. `ScheduleOccurrence` — the claim of an occurrence, misfires, the pause.
8. `DraftPublication`, `PreviewAttempt` — compare-and-set outside runs.

Two to three actors and rows each, as here: each property above is about a pair
of rivals and one failure, and a second failure adds no new pair.
