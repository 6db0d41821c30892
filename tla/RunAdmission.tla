---------------------------- MODULE RunAdmission ----------------------------
(***************************************************************************)
(* The active-run slots of one workspace.  A run is accepted into the      *)
(* queue; the dispatcher reserves a slot for it in the transaction that    *)
(* claims its advance delivery; the coordinator that receives the delivery *)
(* turns the reservation into an active run or defers it; a run that only  *)
(* waits for a timer gives its slot back and competes for one again.  A    *)
(* workflow may have a limit of its own, which starts its runs in the      *)
(* order they were accepted.                                               *)
(*                                                                         *)
(* Every action is one transaction, except that a claim reads the run      *)
(* (Pick) before it holds the workspace's counter (Reserve).  Slots lent   *)
(* to a called run, and runs that wait for a person, are left out.         *)
(***************************************************************************)
EXTENDS Naturals, FiniteSets

CONSTANTS
    Workflows,     \* the workflows of the workspace
    Caps,          \* what a workflow's own limit may be; 0 is none
    Limits,        \* what the operator may set the workspace's limit to
    Waiters,       \* the runs that come to wait for a timer
    MaxRuns,       \* bound: runs accepted
    MaxEvents,     \* bound: advance deliveries of a run outstanding at once
    MaxSpent       \* bound: settings changed, runs canceled, jobs lost and
                   \* dispatchers stopped, all together

ASSUME BoundsAssumption ==
    /\ Caps \subseteq Nat
    /\ Limits \subseteq Nat \ {0}
    /\ MaxRuns \in Nat
    /\ MaxEvents \in Nat \ {0}
    /\ MaxSpent \in Nat
    /\ Waiters \subseteq Nat
    /\ Workflows # {}

(* A run's number is its admission ticket.                                 *)
Runs == 1 .. MaxRuns
Events == 1 .. MaxEvents
NoEvent == 0
NoCap == 0

VARIABLES
    run,        \* the workflow_runs rows
    hold,       \* workflow_run_active_admissions, by run
    event,      \* each run's advance-workflow-run rows that still matter
    limit,      \* the entitlement's active_run_limit
    cap,        \* workflow_concurrency_policies.active_run_limit
    touched,    \* history: a workflow's limit was changed
    accepted, spent   \* history: bounds spent

vars == <<run, hold, event, limit, cap, touched, accepted, spent>>
settings == <<limit, cap, touched>>

(* active is running or waiting with a slot, parked is waiting for a timer *)
(* without one (timed_wait_started_at).  A run waits for one timer here.   *)
Statuses == {"none", "queued", "active", "parked", "ended"}
RunRecord ==
    [status : Statuses, workflow : Workflows, cancel : BOOLEAN,
     timer : {"none", "set", "due", "over"}]
HoldRecord == [event : Events \union {NoEvent}, exempt : BOOLEAN, armed : BOOLEAN]

(* picked and leased are the claim before and after it reserves; sent is   *)
(* published with a job, lost is published without one; failed is given up.*)
EventStates ==
    {"free", "pending", "picked", "leased", "sent", "lost", "failed"}

TypeOK ==
    /\ run \in [Runs -> RunRecord]
    /\ hold \in [Runs -> HoldRecord]
    /\ event \in [Runs -> [Events -> EventStates]]
    /\ limit \in Limits
    /\ cap \in [Workflows -> Caps]
    /\ accepted \in 0 .. MaxRuns
    /\ touched \in BOOLEAN
    /\ spent \in 0 .. MaxSpent

NoHold == [event |-> NoEvent, exempt |-> FALSE, armed |-> FALSE]

Init ==
    /\ run = [r \in Runs |-> [status |-> "none", workflow |-> CHOOSE w \in Workflows : TRUE,
                               cancel |-> FALSE, timer |-> "none"]]
    /\ hold = [r \in Runs |-> NoHold]
    /\ event = [r \in Runs |-> [e \in Events |-> "free"]]
    /\ limit \in Limits
    /\ cap \in [Workflows -> Caps]
    /\ accepted = 0
    /\ touched = FALSE
    /\ spent = 0

Spend == spent < MaxSpent /\ spent' = spent + 1

-----------------------------------------------------------------------------
(* workflow_run_slot_counts: what occupies the workspace, and a workflow.  *)

Held(r) == hold[r].event # NoEvent
Active(r) == run[r].status = "active"
Queued(r) == run[r].status = "queued"

(* A reservation counts until its run is active: also that of an ended run.*)
Occupying(r) == Active(r) \/ (Held(r) /\ run[r].status \notin {"active", "parked"})
Occupied(others) == Cardinality({r \in others : Occupying(r)})

(* Mutant: a parked run gives up its place in its workflow's limit too.    *)
InWorkflowUnparked(w) ==
    {r \in Runs : run[r].workflow = w /\ (Active(r) \/ (Queued(r) /\ Held(r)))}

(* A parked run keeps its place in its workflow's own limit.               *)
InWorkflow(w) ==
    {r \in Runs : /\ run[r].workflow = w
                  /\ \/ run[r].status \in {"active", "parked"}
                     \/ Queued(r) /\ Held(r)}

-----------------------------------------------------------------------------
(* workflow_concurrency_admissible: grant is TRUE when a slot is reserved, *)
(* FALSE when the run starts.                                              *)

Capped(r) == cap[run[r].workflow] # NoCap

(* An earlier queued run of the workflow that r may not overtake.          *)
Ahead(q, r, grant) ==
    /\ q < r
    /\ run[q].workflow = run[r].workflow
    /\ Queued(q)
    /\ ~run[q].cancel
    /\ ~(Held(q) /\ (grant \/ hold[q].exempt))

Admissible(r, grant) ==
    \/ ~Queued(r)
    \/ ~Capped(r)
    \/ Held(r) /\ (grant \/ hold[r].exempt)
    \/ /\ \/ Held(r)
          \/ Cardinality(InWorkflow(run[r].workflow)) < cap[run[r].workflow]
       /\ \A q \in Runs : ~Ahead(q, r, grant)

(* workflow_run_active_admission_eligible: e may be published.  A control  *)
(* that can only end the run needs no slot.                                *)
NeedsSlot(r) == Queued(r) /\ ~run[r].cancel

Eligible(r, e) ==
    \/ ~NeedsSlot(r)
    \/ /\ Admissible(r, TRUE)
       /\ \/ hold[r].event = e
          \/ ~Held(r) /\ Occupied(Runs) < limit

(* Mutant: the order is asked as it was when the slot was granted.         *)
AvailableAsGranted(r) ==
    /\ Admissible(r, TRUE)
    /\ Occupied(Runs \ {r}) < limit

(* workflow_run_active_capacity_available: r may take a slot now.          *)
Available(r) ==
    /\ Admissible(r, FALSE)
    /\ Occupied(Runs \ {r}) < limit

-----------------------------------------------------------------------------
(* Updates the transactions share.                                         *)

EventIs(r, e, state) == event' = [event EXCEPT ![r][e] = state]

(* enqueueAdvance: a further delivery for r beside those outstanding.      *)
FreeEvents(r) == {e \in Events : event[r][e] = "free"}
Fresh(r) == CHOOSE e \in FreeEvents(r) : TRUE
NewEvent(r) == FreeEvents(r) # {} /\ EventIs(r, Fresh(r), "pending")

(* release_workflow_run_active_admission: the reservation bound to e.      *)
Released(r, e) == IF hold[r].event = e THEN NoHold ELSE hold[r]
Release(r, e) == hold' = [hold EXCEPT ![r] = Released(r, e)]

(* The status trigger deletes the reservation of a run that left the queue.*)
LeaveQueue(r, status) ==
    /\ run' = [run EXCEPT ![r].status = status]
    /\ hold' = [hold EXCEPT ![r] = NoHold]

-----------------------------------------------------------------------------
(* Commands and settings.                                                  *)

Accept(w) ==
    /\ accepted < MaxRuns
    /\ accepted' = accepted + 1
    /\ run' = [run EXCEPT ![accepted + 1].status = "queued",
                          ![accepted + 1].workflow = w]
    /\ EventIs(accepted + 1, 1, "pending")
    /\ UNCHANGED <<hold, settings, spent>>

Cancel(r) ==
    /\ run[r].status \in {"queued", "active", "parked"}
    /\ ~run[r].cancel
    /\ Spend
    /\ run' = [run EXCEPT ![r].cancel = TRUE]
    /\ NewEvent(r)
    /\ UNCHANGED <<hold, settings, accepted>>

ChangeCap(w, c) ==
    /\ c # cap[w]
    /\ c <= limit
    /\ Spend
    /\ touched' = TRUE
    /\ cap' = [cap EXCEPT ![w] = c]
    /\ UNCHANGED <<run, hold, event, limit, accepted>>

(* apply_instance_capacity, when the API starts with other settings.       *)
ChangeLimit(l) ==
    /\ l # limit
    /\ Spend
    /\ limit' = l
    /\ UNCHANGED <<run, hold, event, cap, touched, accepted>>

-----------------------------------------------------------------------------
(* The dispatcher's claim.                                                 *)

(* The candidates' filter, and what reserve reads before the counter.  The *)
(* cursor row lets one claim at a time reserve, one candidate by one.      *)
Reserving == \E r \in Runs, e \in Events : event[r][e] = "picked"

Pick(r, e) ==
    /\ event[r][e] = "pending"
    /\ ~Reserving
    /\ Eligible(r, e)
    /\ EventIs(r, e, IF NeedsSlot(r) THEN "picked" ELSE "leased")
    /\ UNCHANGED <<run, hold, settings, accepted, spent>>

Reservation(r, e) ==
    [event |-> e, exempt |-> cap[run[r].workflow] = NoCap, armed |-> FALSE]

(* Mutant: what the candidates' filter saw is not asked again.             *)
ReserveAsPicked(r, e) ==
    /\ event[r][e] = "picked"
    /\ EventIs(r, e, "leased")
    /\ hold' = IF Held(r) THEN hold ELSE [hold EXCEPT ![r] = Reservation(r, e)]
    /\ UNCHANGED <<run, settings, accepted, spent>>

(* reserve_workflow_run_active_admission under the counter.  The run may   *)
(* have started or been canceled meanwhile: it is reserved for all the     *)
(* same.                                                                   *)
Reserve(r, e) ==
    /\ event[r][e] = "picked"
    /\ IF Eligible(r, e)
       THEN /\ EventIs(r, e, "leased")
            /\ hold' = IF Held(r) THEN hold
                       ELSE [hold EXCEPT ![r] = Reservation(r, e)]
       ELSE EventIs(r, e, "pending") /\ UNCHANGED hold
    /\ UNCHANGED <<run, settings, accepted, spent>>

(* markPublished arms the recovery of the reservation.                     *)
Publish(r, e) ==
    /\ event[r][e] = "leased"
    /\ EventIs(r, e, "sent")
    /\ hold' = IF hold[r].event = e
               THEN [hold EXCEPT ![r].armed = TRUE] ELSE hold
    /\ UNCHANGED <<run, settings, accepted, spent>>

(* The dispatcher stops, or Redis refuses: the lease runs out.             *)
LeaseLapse(r, e) ==
    /\ event[r][e] \in {"picked", "leased"}
    /\ Spend
    /\ EventIs(r, e, "pending")
    /\ UNCHANGED <<run, hold, settings, accepted>>

LoseJob(r, e) ==
    /\ event[r][e] = "sent"
    /\ Spend
    /\ EventIs(r, e, "lost")
    /\ UNCHANGED <<run, hold, settings, accepted>>

-----------------------------------------------------------------------------
(* The stalled-work scan and the recovery of reservations.                 *)

Redeliver(r, e) ==
    /\ event[r][e] = "lost"
    /\ EventIs(r, e, "pending")
    /\ UNCHANGED <<run, hold, settings, accepted, spent>>

(* Mutant: the reservation stays with the delivery that was given up.      *)
GiveUpKeepingHold(r, e) ==
    /\ event[r][e] = "lost"
    /\ EventIs(r, e, "failed")
    /\ UNCHANGED <<run, hold, settings, accepted, spent>>

(* After the last redelivery.                                              *)
GiveUp(r, e) ==
    /\ event[r][e] = "lost"
    /\ EventIs(r, e, "failed")
    /\ Release(r, e)
    /\ UNCHANGED <<run, settings, accepted, spent>>

(* Mutant: a queued run is not counted among those still underway.         *)
ReplaceUnlessQueued(r, e) ==
    /\ event[r][e] = "failed"
    /\ EventIs(r, e, IF run[r].status \in {"ended", "queued"}
                     THEN "free" ELSE "pending")
    /\ UNCHANGED <<run, hold, settings, accepted, spent>>

(* replaceFailedRunJob: the new delivery takes the failed one's place.     *)
Replace(r, e) ==
    /\ event[r][e] = "failed"
    /\ EventIs(r, e, IF run[r].status = "ended" THEN "free" ELSE "pending")
    /\ UNCHANGED <<run, hold, settings, accepted, spent>>

(* recover_due_workflow_run_active_admissions: a published delivery of a   *)
(* run still queued is asked again under a new id.  recover_after is five  *)
(* minutes ahead: it may come at any time after.                           *)
Recover(r) ==
    /\ Held(r)
    /\ hold[r].armed
    /\ Queued(r)
    /\ event[r][hold[r].event] \in {"sent", "lost"}
    /\ NewEvent(r)
    /\ hold' = [hold EXCEPT ![r].event = Fresh(r), ![r].armed = FALSE]
    /\ UNCHANGED <<run, settings, accepted, spent>>

-----------------------------------------------------------------------------
(* The coordinator.                                                        *)

Consume(r, e) ==
    /\ EventIs(r, e, "free")
    /\ Release(r, e)
    /\ UNCHANGED run

End(r, e) == LeaveQueue(r, "ended") /\ EventIs(r, e, "free")

Start(r, e) == LeaveQueue(r, "active") /\ EventIs(r, e, "free")

(* deferCoordinatorForActiveCapacity: a new delivery takes this one's      *)
(* place, and the reservation bound to it moves over.                      *)
Defer(r, e) ==
    /\ EventIs(r, e, "pending")
    /\ hold' = IF hold[r].event = e
               THEN [hold EXCEPT ![r].armed = FALSE] ELSE hold
    /\ UNCHANGED run

(* Mutant: a run whose timer fired is not asked again when no slot is free.*)
ResumeOrDrop(r, e) ==
    IF Available(r)
    THEN /\ run' = [run EXCEPT ![r].status = "active", ![r].timer = "over"]
         /\ EventIs(r, e, "free")
         /\ Release(r, e)
    ELSE Consume(r, e)

(* reacquireSlotAfterTimedWait, when the timer has fired.                  *)
Resume(r, e) ==
    IF Available(r)
    THEN /\ run' = [run EXCEPT ![r].status = "active", ![r].timer = "over"]
         /\ EventIs(r, e, "free")
         /\ Release(r, e)
    ELSE /\ EventIs(r, e, "pending")
         /\ Release(r, e)
         /\ UNCHANGED run

StartOrDefer(r, e) == IF Available(r) THEN Start(r, e) ELSE Defer(r, e)

(* One advance.  What an active run does in it is Finish and Park.         *)
Deliver(r, e) ==
    /\ event[r][e] = "sent"
    /\ CASE run[r].status = "queued" ->
              IF run[r].cancel THEN End(r, e) ELSE StartOrDefer(r, e)
         [] run[r].status = "parked" ->
              IF run[r].cancel THEN End(r, e)
              ELSE IF run[r].timer = "due" THEN Resume(r, e)
              ELSE Consume(r, e)
         [] OTHER -> Consume(r, e)
    /\ UNCHANGED <<settings, accepted, spent>>

Finish(r) ==
    /\ Active(r)
    /\ LeaveQueue(r, "ended")
    /\ UNCHANGED <<event, settings, accepted, spent>>

(* releaseSlotDuringTimedWait.                                             *)
Park(r) ==
    /\ Active(r)
    /\ r \in Waiters
    /\ run[r].timer = "none"
    /\ ~run[r].cancel
    /\ run' = [run EXCEPT ![r].status = "parked", ![r].timer = "set"]
    /\ hold' = [hold EXCEPT ![r] = NoHold]
    /\ UNCHANGED <<event, settings, accepted, spent>>

(* The wakeup claim enqueues the advance when the timer fires.             *)
TimerFires(r) ==
    /\ run[r].status = "parked"
    /\ run[r].timer = "set"
    /\ run' = [run EXCEPT ![r].timer = "due"]
    /\ NewEvent(r)
    /\ UNCHANGED <<hold, settings, accepted, spent>>

-----------------------------------------------------------------------------

Next ==
    \/ \E w \in Workflows : Accept(w)
    \/ \E w \in Workflows, c \in Caps : ChangeCap(w, c)
    \/ \E l \in Limits : ChangeLimit(l)
    \/ \E r \in Runs : Cancel(r) \/ Recover(r) \/ Finish(r) \/ Park(r) \/ TimerFires(r)
    \/ \E r \in Runs, e \in Events :
          \/ Pick(r, e)
          \/ Reserve(r, e)
          \/ Publish(r, e)
          \/ LeaseLapse(r, e)
          \/ LoseJob(r, e)
          \/ Redeliver(r, e)
          \/ GiveUp(r, e)
          \/ Replace(r, e)
          \/ Deliver(r, e)

Spec == Init /\ [][Next]_vars

(* Dispatchers, the scan and the wakeup claim poll for ever, BullMQ hands  *)
(* out every job it holds, and a run that holds a slot ends or waits for   *)
(* a timer.  A claim takes workspaces in turn and a workspace's deliveries *)
(* by available_at, which a deferred one has five seconds ahead: what is   *)
(* eligible time and again is picked.                                      *)
Fairness ==
    /\ \A r \in Runs, e \in Events :
          /\ SF_vars(Pick(r, e))
          /\ WF_vars(Reserve(r, e) \/ Publish(r, e))
          /\ WF_vars(Redeliver(r, e))
          /\ WF_vars(Replace(r, e))
          /\ WF_vars(Deliver(r, e))
    /\ \A r \in Runs : WF_vars(Finish(r)) /\ WF_vars(TimerFires(r))

FairSpec == Spec /\ Fairness

-----------------------------------------------------------------------------

(* Runs that work or are about to.                                         *)
Working == {r \in Runs : Active(r) \/ (NeedsSlot(r) /\ Held(r))}

(* No step takes a slot beyond the workspace's limit, whichever way it     *)
(* takes it: a reservation, a start without one, the end of a timed wait.  *)
(* A limit that was lowered below what runs is not exceeded further        *)
(* (enforce_workflow_run_admission, reserve_..._active_admission).         *)
NeverOverGranted ==
    [][Cardinality(Working') > Cardinality(Working) =>
          Cardinality(Working') <= limit]_vars

(* The same of a workflow's own limit, in which a parked run keeps its     *)
(* place: no start asks again how many reservations and runs there are.    *)
Sharing(w) ==
    {r \in Runs : run[r].workflow = w /\ (r \in Working \/ run[r].status = "parked")}
CapRespected ==
    [][\A w \in Workflows :
          /\ cap[w] # NoCap
          /\ Cardinality(Sharing(w)') > Cardinality(Sharing(w))
          => Cardinality(Sharing(w)') <= cap[w]]_vars

(* A reservation is bound to a delivery that is still on its way: none is  *)
(* left behind by a delivery that was consumed, deferred, replaced or      *)
(* given up, where nothing would ever free the slot.                       *)
BoundToDelivery ==
    \A r \in Runs : Held(r) => event[r][hold[r].event] \notin {"free", "failed"}

(* Runs of a workflow whose limit was never touched start in the order     *)
(* they were accepted, however their deliveries are reordered, lost or     *)
(* recovered: "transport reordering cannot reverse actual start            *)
(* transitions" (docs/adr/058).                                            *)
Started(r) == Active(r) \/ run[r].status = "parked" \/
              (run[r].status = "ended" /\ ~run[r].cancel)
OrderedStarts ==
    ~touched => \A q, r \in Runs : Started(r) => ~Ahead(q, r, FALSE) \/ ~Capped(r)

(* A queued run starts or is canceled in the end, and a run whose timer    *)
(* fired goes on, through caps set and lowered, lost jobs, deliveries      *)
(* given up and runs that wait for an earlier one with a slot in hand.     *)
EveryRunLeavesQueue == \A r \in Runs : Queued(r) ~> ~Queued(r)
EveryTimedWaitEnds ==
    \A r \in Runs : run[r].status = "parked" ~> run[r].status # "parked"

(* "Lowering a limit does not interrupt active runs or revoke reserved     *)
(* starts" (docs/guides/concurrency.md): a run that holds a reservation    *)
(* leaves the queue.                                                       *)
ReservedStarts == \A r \in Runs : (Queued(r) /\ Held(r)) ~> ~Queued(r)

=============================================================================
