------------------------- MODULE RunAdmissionProofs -------------------------
(* What RunAdmission keeps for any number of workflows, runs, deliveries,  *)
(* limits and failures: its types, the binding of reservations, the order  *)
(* of starts and both limits.                                              *)
EXTENDS RunAdmission, FiniteSetTheorems, TLAPS

(* The binding of a reservation needs the types only to know that a fresh  *)
(* delivery is one, so both are kept together.                             *)
Inv == TypeOK /\ BoundToDelivery

LEMMA FreshIsFree ==
    ASSUME NEW r \in Runs, FreeEvents(r) # {}
    PROVE  Fresh(r) \in Events /\ event[r][Fresh(r)] = "free"
BY DEF Fresh, FreeEvents

LEMMA InvInit == Init => Inv
<1> SUFFICES ASSUME Init PROVE Inv
  OBVIOUS
<1>1. run \in [Runs -> RunRecord]
  <2>1. (CHOOSE w \in Workflows : TRUE) \in Workflows
    BY BoundsAssumption
  <2>2. FALSE \in BOOLEAN
    OBVIOUS
  <2> QED
    BY <2>1, <2>2 DEF Init, RunRecord, Statuses
<1>2. TypeOK
  <2>1. NoHold \in HoldRecord
    BY DEF NoHold, HoldRecord
  <2>2. hold \in [Runs -> HoldRecord]
    BY <2>1 DEF Init
  <2>3. event \in [Runs -> [Events -> EventStates]]
    BY DEF Init, EventStates
  <2>4. limit \in Limits /\ cap \in [Workflows -> Caps] /\ touched \in BOOLEAN
    BY Zenon DEF Init
  <2>5. accepted \in 0 .. MaxRuns /\ spent \in 0 .. MaxSpent
    BY BoundsAssumption DEF Init
  <2> QED
    BY <1>1, <2>2, <2>3, <2>4, <2>5, Zenon DEF TypeOK
<1>3. BoundToDelivery
  BY DEF Init, BoundToDelivery, Held, NoHold
<1> QED
  BY <1>2, <1>3 DEF Inv

(* Steps that only move a delivery on.                                     *)
LEMMA TransportInv ==
    ASSUME Inv, NEW r \in Runs, NEW e \in Events,
           \/ Pick(r, e) \/ LeaseLapse(r, e) \/ LoseJob(r, e)
           \/ Redeliver(r, e) \/ Replace(r, e)
    PROVE  Inv'
<1>1. PICK state \in EventStates : EventIs(r, e, state)
  BY DEF Pick, LeaseLapse, LoseJob, Redeliver, Replace, EventStates
<1>2. /\ UNCHANGED <<run, hold, limit, cap, touched, accepted>>
      /\ spent' \in 0 .. MaxSpent
  BY BoundsAssumption
     DEF Inv, TypeOK, Pick, LeaseLapse, LoseJob, Redeliver, Replace, Spend, settings
<1>3. TypeOK'
  BY <1>1, <1>2 DEF Inv, TypeOK, EventIs
<1>4. event[r][e] # "failed" => event'[r][e] \notin {"free", "failed"}
  BY DEF Inv, TypeOK, EventIs, Pick, LeaseLapse, LoseJob, Redeliver, Replace
<1>5. BoundToDelivery'
  BY <1>1, <1>2, <1>4 DEF Inv, TypeOK, BoundToDelivery, Held, EventIs
<1> QED
  BY <1>3, <1>5 DEF Inv

(* Commands and settings.                                                  *)
LEMMA CommandInv ==
    ASSUME Inv,
           \/ \E w \in Workflows : Accept(w)
           \/ \E w \in Workflows, c \in Caps : ChangeCap(w, c)
           \/ \E l \in Limits : ChangeLimit(l)
           \/ \E r \in Runs : Cancel(r)
    PROVE  Inv'
<1>1. ASSUME NEW w \in Workflows, Accept(w) PROVE Inv'
  <2>1. accepted + 1 \in Runs /\ accepted' \in 0 .. MaxRuns
    BY <1>1, BoundsAssumption DEF Inv, TypeOK, Accept, Runs
  <2>2. 1 \in Events
    BY BoundsAssumption DEF Events
  <2>3. run' \in [Runs -> RunRecord]
    <3>1. run \in [Runs -> RunRecord] /\ run[accepted + 1] \in RunRecord
      BY <2>1 DEF Inv, TypeOK
    <3>2. [run[accepted + 1] EXCEPT !.status = "queued", !.workflow = w]
             \in RunRecord
      BY <3>1 DEF RunRecord, Statuses
    <3>3. run' = [run EXCEPT ![accepted + 1] =
                   [run[accepted + 1] EXCEPT !.status = "queued", !.workflow = w]]
      BY <1>1, <2>1, <3>1 DEF Accept
    <3> QED
      BY <2>1, <3>1, <3>2, <3>3
  <2>4. event' \in [Runs -> [Events -> EventStates]]
    BY <1>1, <2>1, <2>2 DEF Inv, TypeOK, Accept, EventIs, EventStates
  <2>5. UNCHANGED <<hold, limit, cap, touched, spent>>
    BY <1>1 DEF Accept, settings
  <2>6. TypeOK'
    BY <2>1, <2>3, <2>4, <2>5 DEF Inv, TypeOK
  <2>7. PICK r \in Runs : event' = [event EXCEPT ![r][1] = "pending"]
    BY <1>1, <2>1 DEF Accept, EventIs
  <2>8. BoundToDelivery'
    BY <2>2, <2>5, <2>7 DEF Inv, TypeOK, BoundToDelivery, Held
  <2> QED
    BY <2>6, <2>8 DEF Inv
<1>2. ASSUME NEW w \in Workflows, NEW c \in Caps, ChangeCap(w, c) PROVE Inv'
  <2>1. cap' \in [Workflows -> Caps] /\ spent' \in 0 .. MaxSpent
    BY <1>2, BoundsAssumption DEF Inv, TypeOK, ChangeCap, Spend
  <2>2. touched' \in BOOLEAN /\ UNCHANGED <<run, hold, event, limit, accepted>>
    BY <1>2, Zenon DEF ChangeCap
  <2> QED
    BY <2>1, <2>2 DEF Inv, TypeOK, BoundToDelivery, Held
<1>3. ASSUME NEW l \in Limits, ChangeLimit(l) PROVE Inv'
  <2>1. /\ limit' \in Limits
        /\ spent' \in 0 .. MaxSpent
        /\ UNCHANGED <<run, hold, event, cap, touched, accepted>>
    BY <1>3, BoundsAssumption DEF Inv, TypeOK, ChangeLimit, Spend
  <2> QED
    BY <2>1 DEF Inv, TypeOK, BoundToDelivery, Held
<1>4. ASSUME NEW r \in Runs, Cancel(r) PROVE Inv'
  <2>1. Fresh(r) \in Events
    BY <1>4, FreshIsFree DEF Cancel, NewEvent
  <2>2. TRUE \in BOOLEAN
    OBVIOUS
  <2>3. run' \in [Runs -> RunRecord]
    <3>1. run \in [Runs -> RunRecord] /\ run[r] \in RunRecord
      BY DEF Inv, TypeOK
    <3>2. [run[r] EXCEPT !.cancel = TRUE] \in RunRecord
      BY <2>2, <3>1 DEF RunRecord
    <3>3. run' = [run EXCEPT ![r] = [run[r] EXCEPT !.cancel = TRUE]]
      BY <1>4, <3>1 DEF Cancel
    <3> QED
      BY <3>1, <3>2, <3>3
  <2>4. event' = [event EXCEPT ![r][Fresh(r)] = "pending"]
    BY <1>4 DEF Cancel, NewEvent, EventIs
  <2>5. event' \in [Runs -> [Events -> EventStates]]
    BY <2>1, <2>4 DEF Inv, TypeOK, EventStates
  <2>6. /\ UNCHANGED <<hold, limit, cap, touched, accepted>>
        /\ spent' \in 0 .. MaxSpent
    BY <1>4, BoundsAssumption DEF Inv, TypeOK, Cancel, Spend, settings
  <2>7. TypeOK'
    BY <2>3, <2>5, <2>6 DEF Inv, TypeOK
  <2>8. BoundToDelivery'
    BY <2>1, <2>4, <2>6 DEF Inv, TypeOK, BoundToDelivery, Held
  <2> QED
    BY <2>7, <2>8 DEF Inv
<1> QED
  BY <1>1, <1>2, <1>3, <1>4

(* Steps that grant, move or take away a reservation.                      *)
LEMMA HoldInv ==
    ASSUME Inv, NEW r \in Runs,
           \/ \E e \in Events : Reserve(r, e) \/ Publish(r, e) \/ GiveUp(r, e)
           \/ Recover(r)
    PROVE  Inv'
<1>1. NoHold \in HoldRecord
  BY DEF NoHold, HoldRecord
<1>2. ASSUME NEW e \in Events, Reserve(r, e) PROVE Inv'
  <2>1. PICK state \in EventStates \ {"free", "failed"} : EventIs(r, e, state)
    BY <1>2 DEF Reserve, EventStates
  <2>2. (cap[run[r].workflow] = NoCap) \in BOOLEAN
    OBVIOUS
  <2>3. Reservation(r, e) \in HoldRecord /\ Reservation(r, e).event = e
    BY <2>2 DEF Reservation, HoldRecord
  <2>4. /\ hold' = hold \/ hold' = [hold EXCEPT ![r] = Reservation(r, e)]
        /\ UNCHANGED <<run, limit, cap, touched, accepted, spent>>
    BY <1>2, Zenon DEF Reserve, settings
  <2>5. TypeOK'
    BY <2>1, <2>3, <2>4 DEF Inv, TypeOK, EventIs
  <2>6. BoundToDelivery'
    BY <2>1, <2>3, <2>4 DEF Inv, TypeOK, BoundToDelivery, Held, EventIs
  <2> QED
    BY <2>5, <2>6 DEF Inv
<1>3. ASSUME NEW e \in Events, Publish(r, e) PROVE Inv'
  <2>1. EventIs(r, e, "sent")
        /\ UNCHANGED <<run, limit, cap, touched, accepted, spent>>
    BY <1>3 DEF Publish, settings
  <2>2. TRUE \in BOOLEAN
    OBVIOUS
  <2>3. hold' = hold \/ hold' = [hold EXCEPT ![r].armed = TRUE]
    BY <1>3, Zenon DEF Publish
  <2>4. /\ hold' \in [Runs -> HoldRecord]
        /\ \A q \in Runs : hold'[q].event = hold[q].event
    <3>1. CASE hold' = hold
      BY <3>1 DEF Inv, TypeOK
    <3>2. CASE hold' = [hold EXCEPT ![r].armed = TRUE]
      BY <2>2, <3>2 DEF Inv, TypeOK, HoldRecord
    <3> QED
      BY <2>3, <3>1, <3>2
  <2>5. TypeOK'
    BY <2>1, <2>4 DEF Inv, TypeOK, EventIs, EventStates
  <2>6. BoundToDelivery'
    BY <2>1, <2>4 DEF Inv, TypeOK, BoundToDelivery, Held, EventIs
  <2> QED
    BY <2>5, <2>6 DEF Inv
<1>4. ASSUME NEW e \in Events, GiveUp(r, e) PROVE Inv'
  <2>1. /\ EventIs(r, e, "failed")
        /\ Release(r, e)
        /\ UNCHANGED <<run, limit, cap, touched, accepted, spent>>
    BY <1>4 DEF GiveUp, settings
  <2>2. hold' \in [Runs -> HoldRecord]
    BY <1>1, <2>1 DEF Inv, TypeOK, Release, Released
  <2>3. TypeOK'
    BY <2>1, <2>2 DEF Inv, TypeOK, EventIs, EventStates
  <2>4. BoundToDelivery'
    BY <2>1 DEF Inv, TypeOK, BoundToDelivery, Held, Release, Released,
                NoHold, EventIs
  <2> QED
    BY <2>3, <2>4 DEF Inv
<1>5. ASSUME Recover(r) PROVE Inv'
  <2>1. Fresh(r) \in Events
    BY <1>5, FreshIsFree DEF Recover, NewEvent
  <2>2. FALSE \in BOOLEAN
    OBVIOUS
  <2>3. /\ hold' = [hold EXCEPT ![r].event = Fresh(r), ![r].armed = FALSE]
        /\ event' = [event EXCEPT ![r][Fresh(r)] = "pending"]
        /\ UNCHANGED <<run, limit, cap, touched, accepted, spent>>
    BY <1>5 DEF Recover, NewEvent, EventIs, settings
  <2>4. /\ hold' \in [Runs -> HoldRecord]
        /\ hold'[r].event = Fresh(r)
        /\ \A q \in Runs \ {r} : hold'[q] = hold[q]
    BY <2>1, <2>2, <2>3 DEF Inv, TypeOK, HoldRecord
  <2>5. TypeOK'
    BY <2>1, <2>3, <2>4 DEF Inv, TypeOK, EventStates
  <2>6. BoundToDelivery'
    BY <2>1, <2>3, <2>4 DEF Inv, TypeOK, BoundToDelivery, Held
  <2> QED
    BY <2>5, <2>6 DEF Inv
<1> QED
  BY <1>2, <1>3, <1>4, <1>5

(* What the coordinator writes about a run's status and timer.             *)
LEMMA RunUpdate ==
    ASSUME Inv, NEW r \in Runs,
           \/ \E status \in Statuses : LeaveQueue(r, status)
           \/ run' = [run EXCEPT ![r].status = "active", ![r].timer = "over"]
           \/ run' = [run EXCEPT ![r].status = "parked", ![r].timer = "set"]
           \/ run' = [run EXCEPT ![r].timer = "due"]
    PROVE  run' \in [Runs -> RunRecord]
<1>1. ASSUME NEW status \in Statuses, LeaveQueue(r, status)
      PROVE  run' \in [Runs -> RunRecord]
  BY <1>1 DEF Inv, TypeOK, RunRecord, LeaveQueue
<1>2. ASSUME NEW status \in Statuses, NEW timer \in {"set", "due", "over"},
             \/ run' = [run EXCEPT ![r].status = status, ![r].timer = timer]
             \/ run' = [run EXCEPT ![r].timer = timer]
      PROVE  run' \in [Runs -> RunRecord]
  <2>3. run \in [Runs -> RunRecord] /\ run[r] \in RunRecord
    BY DEF Inv, TypeOK
  <2>4. /\ [run[r] EXCEPT !.status = status, !.timer = timer] \in RunRecord
        /\ [run[r] EXCEPT !.timer = timer] \in RunRecord
    BY <2>3 DEF RunRecord
  <2>1. CASE run' = [run EXCEPT ![r].status = status, ![r].timer = timer]
    <3>1. run' = [run EXCEPT ![r] =
                   [run[r] EXCEPT !.status = status, !.timer = timer]]
      BY <2>1, <2>3
    <3> QED
      BY <2>3, <2>4, <3>1
  <2>2. CASE run' = [run EXCEPT ![r].timer = timer]
    <3>1. run' = [run EXCEPT ![r] = [run[r] EXCEPT !.timer = timer]]
      BY <2>2, <2>3
    <3> QED
      BY <2>3, <2>4, <3>1
  <2> QED
    BY <1>2, <2>1, <2>2
<1>3. "active" \in Statuses /\ "parked" \in Statuses
  BY DEF Statuses
<1> QED
  BY <1>1, <1>2, <1>3

LEMMA DeliverInv ==
    ASSUME Inv, NEW r \in Runs, NEW e \in Events, Deliver(r, e)
    PROVE  Inv'
<1>1. NoHold \in HoldRecord /\ NoHold.event = NoEvent
  BY DEF NoHold, HoldRecord
<1>2. UNCHANGED <<limit, cap, touched, accepted, spent>>
  BY DEF Deliver, settings
<1>3. \/ Consume(r, e)
      \/ End(r, e)
      \/ StartOrDefer(r, e)
      \/ Resume(r, e)
  BY Zenon DEF Deliver
<1>4. \/ Consume(r, e)
      \/ End(r, e)
      \/ Start(r, e)
      \/ Defer(r, e)
      \/ /\ \/ run' = [run EXCEPT ![r].status = "active", ![r].timer = "over"]
            \/ UNCHANGED run
         /\ \E state \in {"free", "pending"} : EventIs(r, e, state)
         /\ Release(r, e)
  BY <1>3, Zenon DEF StartOrDefer, Resume
<1>5. run' \in [Runs -> RunRecord]
  BY <1>4, RunUpdate DEF Inv, TypeOK, Consume, End, Start, Defer, Statuses, LeaveQueue
<1>6. PICK state \in {"free", "pending"} : EventIs(r, e, state)
  BY <1>4 DEF Consume, End, Start, Defer
<1>7. CASE Defer(r, e)
  <2>1. FALSE \in BOOLEAN
    OBVIOUS
  <2>2. hold' = hold \/ hold' = [hold EXCEPT ![r].armed = FALSE]
    BY <1>7, Zenon DEF Defer
  <2>3. /\ hold' \in [Runs -> HoldRecord]
        /\ \A q \in Runs : hold'[q].event = hold[q].event
    <3>1. CASE hold' = hold
      BY <3>1 DEF Inv, TypeOK
    <3>2. CASE hold' = [hold EXCEPT ![r].armed = FALSE]
      BY <2>1, <3>2 DEF Inv, TypeOK, HoldRecord
    <3> QED
      BY <2>2, <3>1, <3>2
  <2>4. EventIs(r, e, "pending")
    BY <1>7 DEF Defer
  <2>5. TypeOK'
    BY <1>2, <1>5, <2>3, <2>4 DEF Inv, TypeOK, EventIs, EventStates
  <2>6. BoundToDelivery'
    BY <2>3, <2>4 DEF Inv, TypeOK, BoundToDelivery, Held, EventIs
  <2> QED
    BY <2>5, <2>6 DEF Inv
<1>8. CASE ~Defer(r, e)
  <2>1. /\ hold' = [hold EXCEPT ![r] = NoHold] \/ Release(r, e)
    BY <1>4, <1>8 DEF Consume, End, Start, LeaveQueue
  <2>2. /\ hold' \in [Runs -> HoldRecord]
        /\ hold'[r].event # e \/ e = NoEvent
        /\ hold'[r] \in {hold[r], NoHold}
        /\ \A q \in Runs \ {r} : hold'[q] = hold[q]
    BY <1>1, <2>1, BoundsAssumption
       DEF Inv, TypeOK, Release, Released, NoEvent, Events
  <2>3. TypeOK'
    BY <1>2, <1>5, <1>6, <2>2 DEF Inv, TypeOK, EventIs, EventStates
  <2>4. e # NoEvent
    BY DEF NoEvent, Events
  <2>5. BoundToDelivery'
    BY <1>1, <1>6, <2>2, <2>4 DEF Inv, TypeOK, BoundToDelivery, Held, EventIs
  <2> QED
    BY <2>3, <2>5 DEF Inv
<1> QED
  BY <1>7, <1>8

LEMMA RunInv ==
    ASSUME Inv, NEW r \in Runs, Finish(r) \/ Park(r) \/ TimerFires(r)
    PROVE  Inv'
<1>1. NoHold \in HoldRecord /\ NoHold.event = NoEvent
  BY DEF NoHold, HoldRecord
<1>2. UNCHANGED <<limit, cap, touched, accepted, spent>>
  BY DEF Finish, Park, TimerFires, settings
<1>3. run' \in [Runs -> RunRecord]
  BY RunUpdate DEF Finish, Park, TimerFires, Statuses
<1>4. CASE TimerFires(r)
  <2>1. Fresh(r) \in Events
    BY <1>4, FreshIsFree DEF TimerFires, NewEvent
  <2>2. hold' = hold /\ event' = [event EXCEPT ![r][Fresh(r)] = "pending"]
    BY <1>4 DEF TimerFires, NewEvent, EventIs
  <2>3. TypeOK'
    BY <1>2, <1>3, <2>1, <2>2 DEF Inv, TypeOK, EventStates
  <2>4. BoundToDelivery'
    BY <2>1, <2>2 DEF Inv, TypeOK, BoundToDelivery, Held
  <2> QED
    BY <2>3, <2>4 DEF Inv
<1>5. CASE Finish(r) \/ Park(r)
  <2>1. hold' = [hold EXCEPT ![r] = NoHold] /\ event' = event
    BY <1>5 DEF Finish, Park, LeaveQueue
  <2>2. TypeOK'
    BY <1>1, <1>2, <1>3, <2>1 DEF Inv, TypeOK
  <2>3. BoundToDelivery'
    BY <1>1, <2>1 DEF Inv, TypeOK, BoundToDelivery, Held
  <2> QED
    BY <2>2, <2>3 DEF Inv
<1> QED
  BY <1>4, <1>5

LEMMA InvStep == Inv /\ [Next]_vars => Inv'
<1> SUFFICES ASSUME Inv, [Next]_vars PROVE Inv'
  OBVIOUS
<1>1. CASE UNCHANGED vars
  BY <1>1 DEF Inv, TypeOK, BoundToDelivery, Held, vars
<1>2. CASE Next
  BY <1>2, CommandInv, TransportInv, HoldInv, DeliverInv, RunInv DEF Next
<1> QED
  BY <1>1, <1>2

(* Rows, reservations and deliveries keep their types and bounds.          *)
THEOREM TypeCorrect == Spec => []TypeOK
<1>1. Inv => TypeOK
  BY DEF Inv
<1> QED
  BY InvInit, InvStep, <1>1, PTL DEF Spec

(* However deliveries are deferred, recovered, given up or replaced, a     *)
(* reservation is bound to one that is still on its way.                   *)
THEOREM SlotsStayBound == Spec => []BoundToDelivery
<1>1. Inv => BoundToDelivery
  BY DEF Inv
<1> QED
  BY InvInit, InvStep, <1>1, PTL DEF Spec

(* Why starts keep their order.  Nothing happened yet to a run that was    *)
(* not accepted, and as long as no limit of a workflow was changed, a      *)
(* reservation of a workflow with a limit is never exempt from the order.  *)
Unaccepted ==
    \A r \in Runs : r > accepted =>
        run[r].status = "none" /\ ~Held(r) /\ \A e \in Events : event[r][e] = "free"
NoneExempt == ~touched => \A r \in Runs : Held(r) /\ Capped(r) => ~hold[r].exempt

(* OrderedStarts without the reservations: whoever waits and is earlier.   *)
Waiting(q) == Queued(q) /\ ~run[q].cancel
InOrder ==
    ~touched => \A q, r \in Runs :
        Started(r) /\ Capped(r) /\ q < r /\ run[q].workflow = run[r].workflow
            => ~Waiting(q)

OrderInv == Inv /\ Unaccepted /\ NoneExempt /\ InOrder

LEMMA OrderInit == Init => OrderInv
<1> SUFFICES ASSUME Init PROVE OrderInv
  OBVIOUS
<1>1. \A r \in Runs : /\ run[r].status = "none"
                     /\ ~Held(r)
                     /\ \A e \in Events : event[r][e] = "free"
  BY DEF Init, Held, NoHold
<1>2. \A r \in Runs : ~Started(r)
  BY <1>1 DEF Started, Active
<1> QED
  BY <1>1, <1>2, InvInit DEF OrderInv, Unaccepted, NoneExempt, InOrder

(* A step of r's deliveries, reservation or execution.                     *)
RunStep(r) ==
    \/ Cancel(r) \/ Recover(r) \/ Finish(r) \/ Park(r) \/ TimerFires(r)
    \/ \E e \in Events :
          \/ Pick(r, e) \/ Reserve(r, e) \/ Publish(r, e) \/ LeaseLapse(r, e)
          \/ LoseJob(r, e) \/ Redeliver(r, e) \/ GiveUp(r, e) \/ Replace(r, e)
          \/ Deliver(r, e)

(* It leaves every other run alone.                                        *)
Elsewhere(r) ==
    /\ \A q \in Runs \ {r} :
          run'[q] = run[q] /\ hold'[q] = hold[q] /\ event'[q] = event[q]
    /\ UNCHANGED <<cap, touched, accepted>>

LEMMA StepsAreLocal ==
    ASSUME OrderInv, NEW r \in Runs, RunStep(r)
    PROVE  Elsewhere(r) /\ r <= accepted
<1>1. /\ run \in [Runs -> RunRecord] /\ hold \in [Runs -> HoldRecord]
      /\ event \in [Runs -> [Events -> EventStates]]
  BY DEF OrderInv, Inv, TypeOK
<1>2. r \in Nat /\ accepted \in Nat
  BY BoundsAssumption DEF OrderInv, Inv, TypeOK, Runs
<1>3. run[r].status # "none" \/ Held(r) \/ (\E e \in Events : event[r][e] # "free")
      => r <= accepted
  BY <1>2 DEF OrderInv, Unaccepted
<1>4. CASE Cancel(r) \/ Recover(r) \/ Finish(r) \/ Park(r) \/ TimerFires(r)
  <2>1. r <= accepted
    BY <1>3, <1>4 DEF Cancel, Recover, Finish, Park, TimerFires, Active, Queued
  <2>2. Elsewhere(r)
    BY <1>1, <1>4
       DEF Elsewhere, Cancel, Recover, Finish, Park, TimerFires, NewEvent,
           EventIs, LeaveQueue, settings
  <2> QED
    BY <2>1, <2>2
<1>5. ASSUME NEW e \in Events,
             \/ Pick(r, e) \/ Reserve(r, e) \/ Publish(r, e) \/ LeaseLapse(r, e)
             \/ LoseJob(r, e) \/ Redeliver(r, e) \/ GiveUp(r, e) \/ Replace(r, e)
      PROVE  Elsewhere(r) /\ r <= accepted
  <2>1. r <= accepted
    BY <1>3, <1>5 DEF Pick, Reserve, Publish, LeaseLapse, LoseJob, Redeliver,
                      GiveUp, Replace
  <2>2. \E state : EventIs(r, e, state)
    BY <1>5, Zenon DEF Pick, Reserve, Publish, LeaseLapse, LoseJob, Redeliver,
                       GiveUp, Replace
  <2>3. \E mine : hold' = [hold EXCEPT ![r] = mine]
    <3>1. hold = [hold EXCEPT ![r] = hold[r]]
      BY <1>1
    <3>2. [hold EXCEPT ![r].armed = TRUE]
            = [hold EXCEPT ![r] = [hold[r] EXCEPT !.armed = TRUE]]
      BY <1>1
    <3> QED
      BY <1>5, <3>1, <3>2, Zenon
         DEF Pick, Reserve, Publish, LeaseLapse, LoseJob, Redeliver, GiveUp,
             Replace, Release
  <2>4. UNCHANGED <<run, cap, touched, accepted>>
    BY <1>5 DEF Pick, Reserve, Publish, LeaseLapse, LoseJob, Redeliver, GiveUp,
                Replace, settings
  <2> QED
    BY <1>1, <2>1, <2>2, <2>3, <2>4 DEF Elsewhere, EventIs
<1>6. ASSUME NEW e \in Events, Deliver(r, e)
      PROVE  Elsewhere(r) /\ r <= accepted
  <2>1. r <= accepted
    BY <1>3, <1>6 DEF Deliver
  <2>2. UNCHANGED <<cap, touched, accepted>>
    BY <1>6 DEF Deliver, settings
  <2>3. \/ Consume(r, e) \/ End(r, e) \/ StartOrDefer(r, e) \/ Resume(r, e)
    BY <1>6, Zenon DEF Deliver
  <2>4. \A q \in Runs \ {r} :
          run'[q] = run[q] /\ hold'[q] = hold[q] /\ event'[q] = event[q]
    BY <1>1, <2>3 DEF Consume, End, StartOrDefer, Start, Defer, Resume, LeaveQueue,
                      Release, EventIs
  <2> QED
    BY <2>1, <2>2, <2>4 DEF Elsewhere
<1> QED
  BY <1>4, <1>5, <1>6 DEF RunStep

(* What it may do to r: nobody comes to wait, and whoever starts has asked *)
(* for its turn.                                                           *)
LEMMA StepsKeepOrder ==
    ASSUME OrderInv, NEW r \in Runs, RunStep(r)
    PROVE  /\ run'[r].workflow = run[r].workflow
           /\ Waiting(r)' => Waiting(r)
           /\ Started(r)' => Started(r) \/ (Queued(r) /\ Available(r))
<1>1. run \in [Runs -> RunRecord]
  BY DEF OrderInv, Inv, TypeOK
<1> DEFINE Same == UNCHANGED run
           Begins == Queued(r) /\ Available(r)
                     /\ run' = [run EXCEPT ![r].status = "active"]
           Ends == /\ run' = [run EXCEPT ![r].status = "ended"]
                   /\ Active(r) \/ run[r].cancel
           Works(status, timer) ==
                   /\ run' = [run EXCEPT ![r].status = status, ![r].timer = timer]
                   /\ run[r].status \in {"active", "parked"}
           Fires == run' = [run EXCEPT ![r].timer = "due"]
           Stops == /\ run' = [run EXCEPT ![r].cancel = TRUE]
                    /\ run[r].status # "ended"
<1>2. \/ Same \/ Begins \/ Ends \/ Fires \/ Stops
      \/ Works("active", "over") \/ Works("parked", "set")
  <2>1. CASE Cancel(r) \/ Finish(r) \/ Park(r) \/ TimerFires(r)
    BY <2>1 DEF Cancel, Finish, Park, TimerFires, LeaveQueue, Active
  <2>2. CASE Recover(r)
    BY <2>2 DEF Recover
  <2>3. ASSUME NEW e \in Events,
               \/ Pick(r, e) \/ Reserve(r, e) \/ Publish(r, e) \/ LeaseLapse(r, e)
               \/ LoseJob(r, e) \/ Redeliver(r, e) \/ GiveUp(r, e) \/ Replace(r, e)
        PROVE  Same
    BY <2>3 DEF Pick, Reserve, Publish, LeaseLapse, LoseJob, Redeliver, GiveUp, Replace
  <2>4. ASSUME NEW e \in Events, Deliver(r, e)
        PROVE  Same \/ Begins \/ Ends \/ Works("active", "over")
    <3>1. CASE run[r].status = "queued"
      BY <2>4, <3>1
         DEF Deliver, End, StartOrDefer, Start, Defer, LeaveQueue, Queued
    <3>2. CASE run[r].status = "parked"
      BY <2>4, <3>2 DEF Deliver, End, Resume, Consume, LeaveQueue
    <3>3. CASE run[r].status \notin {"queued", "parked"}
      BY <2>4, <3>3 DEF Deliver, Consume
    <3> QED
      BY <3>1, <3>2, <3>3
  <2> QED
    BY <2>1, <2>2, <2>3, <2>4 DEF RunStep
<1>3. CASE Same
  BY <1>3 DEF Waiting, Started, Active, Queued
<1>4. CASE Begins
  BY <1>1, <1>4 DEF RunRecord, Waiting, Queued
<1>5. CASE Ends
  BY <1>1, <1>5 DEF RunRecord, Waiting, Started, Active, Queued
<1>6. CASE Fires
  BY <1>1, <1>6 DEF RunRecord, Waiting, Started, Active, Queued
<1>7. CASE Stops
  BY <1>1, <1>7 DEF RunRecord, Waiting, Started, Active, Queued
<1>8. CASE Works("active", "over") \/ Works("parked", "set")
  BY <1>1, <1>8 DEF RunRecord, Waiting, Started, Active, Queued
<1> QED
  BY <1>2, <1>3, <1>4, <1>5, <1>6, <1>7, <1>8

(* And to its reservation: it is exempt only if it was, or if it was made  *)
(* while the workflow had no limit.                                        *)
LEMMA StepsKeepExemption ==
    ASSUME OrderInv, NEW r \in Runs, RunStep(r), Held(r)'
    PROVE  \/ Held(r) /\ hold'[r].exempt = hold[r].exempt
           \/ hold'[r].exempt = (cap[run[r].workflow] = NoCap)
<1>1. hold \in [Runs -> HoldRecord]
  BY DEF OrderInv, Inv, TypeOK
<1> DEFINE Same == hold' = hold
           Armed(armed) == hold' = [hold EXCEPT ![r].armed = armed] /\ Held(r)
           Moved == Held(r) /\ \E e \in Events :
                       hold' = [hold EXCEPT ![r].event = e, ![r].armed = FALSE]
           Gone == hold' = [hold EXCEPT ![r] = NoHold]
           Made == \E e \in Events : hold' = [hold EXCEPT ![r] = Reservation(r, e)]
<1>2. Same \/ Armed(TRUE) \/ Armed(FALSE) \/ Moved \/ Gone \/ Made
  <2>1. CASE Cancel(r) \/ Finish(r) \/ Park(r) \/ TimerFires(r)
    BY <2>1 DEF Cancel, Finish, Park, TimerFires, LeaveQueue
  <2>2. CASE Recover(r)
    BY <2>2, FreshIsFree DEF Recover, NewEvent
  <2>3. ASSUME NEW e \in Events
        PROVE  Release(r, e) => Same \/ Gone
    BY <1>1 DEF Release, Released
  <2>4. ASSUME NEW e \in Events,
               \/ Pick(r, e) \/ Reserve(r, e) \/ LeaseLapse(r, e) \/ LoseJob(r, e)
               \/ Redeliver(r, e) \/ GiveUp(r, e) \/ Replace(r, e)
        PROVE  Same \/ Gone \/ Made
    BY <2>3, <2>4, Zenon
       DEF Pick, Reserve, LeaseLapse, LoseJob, Redeliver, GiveUp, Replace
  <2>5. \A e \in Events : hold[r].event = e => Held(r)
    BY DEF Held, NoEvent, Events
  <2>6. ASSUME NEW e \in Events, Publish(r, e) PROVE Same \/ Armed(TRUE)
    BY <2>5, <2>6, Zenon DEF Publish
  <2>7. ASSUME NEW e \in Events, Deliver(r, e) PROVE Same \/ Gone \/ Armed(FALSE)
    <3>1. \/ Consume(r, e) \/ End(r, e) \/ Start(r, e) \/ Defer(r, e) \/ Resume(r, e)
      BY <2>7, Zenon DEF Deliver, StartOrDefer
    <3> QED
      BY <2>3, <2>5, <3>1, Zenon
         DEF Consume, End, Start, Defer, Resume, LeaveQueue
  <2> QED
    BY <2>1, <2>2, <2>4, <2>6, <2>7, Zenon DEF RunStep
<1>3. CASE Same
  BY <1>3 DEF Held
<1>4. CASE Armed(TRUE) \/ Armed(FALSE) \/ Moved
  BY <1>1, <1>4 DEF HoldRecord
<1>5. CASE Gone
  BY <1>1, <1>5 DEF Held, NoHold
<1>6. CASE Made
  BY <1>1, <1>6 DEF Reservation
<1> QED
  BY <1>2, <1>3, <1>4, <1>5, <1>6

LEMMA RunStepOrder ==
    ASSUME OrderInv, NEW r \in Runs, RunStep(r), Inv'
    PROVE  OrderInv'
<1>1. Elsewhere(r) /\ r <= accepted
  BY StepsAreLocal
<1>2. Unaccepted'
  BY <1>1, BoundsAssumption
     DEF OrderInv, Inv, TypeOK, Unaccepted, Elsewhere, Held, Runs
<1>3. run'[r].workflow = run[r].workflow
  BY StepsKeepOrder
<1>4. NoneExempt'
  <2> SUFFICES ASSUME ~touched', NEW q \in Runs, Held(q)', Capped(q)'
               PROVE  ~hold'[q].exempt
    BY DEF NoneExempt
  <2>1. ~touched /\ Capped(q)
    BY <1>1, <1>3 DEF Elsewhere, Capped
  <2>2. CASE q # r
    BY <1>1, <2>1, <2>2 DEF OrderInv, NoneExempt, Elsewhere, Held
  <2>3. CASE q = r
    BY <2>1, <2>3, StepsKeepExemption DEF OrderInv, NoneExempt, Capped
  <2> QED
    BY <2>2, <2>3
<1>5. InOrder'
  <2> SUFFICES ASSUME ~touched', NEW q \in Runs, NEW s \in Runs, Started(s)',
                      Capped(s)', q < s, run'[q].workflow = run'[s].workflow
               PROVE  ~Waiting(q)'
    BY DEF InOrder
  <2>1. /\ run'[q].workflow = run[q].workflow
        /\ run'[s].workflow = run[s].workflow
    BY <1>1, <1>3 DEF Elsewhere
  <2>2. ~touched /\ Capped(s) /\ Capped(q) /\ run[q].workflow = run[s].workflow
    BY <1>1, <2>1 DEF Elsewhere, Capped
  <2>3. Waiting(q)' => Waiting(q)
    BY <1>1, StepsKeepOrder DEF Elsewhere, Waiting, Queued
  <2>4. Started(s) \/ (Queued(s) /\ Available(s))
    <3>1. CASE s = r
      BY <3>1, StepsKeepOrder
    <3>2. CASE s # r
      BY <1>1, <3>2 DEF Elsewhere, Started, Active
    <3> QED
      BY <3>1, <3>2
  <2>5. CASE Started(s)
    BY <2>2, <2>3, <2>5 DEF OrderInv, InOrder
  <2>6. CASE Queued(s) /\ Available(s)
    <3>1. ~(Held(s) /\ hold[s].exempt) /\ ~(Held(q) /\ hold[q].exempt)
      BY <2>2 DEF OrderInv, NoneExempt
    <3>2. ~Ahead(q, s, FALSE)
      BY <2>2, <2>6, <3>1 DEF Available, Admissible
    <3> QED
      BY <2>2, <2>3, <3>1, <3>2 DEF Ahead, Waiting
  <2> QED
    BY <2>4, <2>5, <2>6
<1> QED
  BY <1>2, <1>4, <1>5 DEF OrderInv

LEMMA OrderStep == OrderInv /\ [Next]_vars => OrderInv'
<1> SUFFICES ASSUME OrderInv, [Next]_vars PROVE OrderInv'
  OBVIOUS
<1>1. Inv'
  BY InvStep DEF OrderInv
<1>2. CASE UNCHANGED vars
  BY <1>1, <1>2
     DEF OrderInv, Unaccepted, NoneExempt, InOrder, Held, Capped, Started, Active,
         Waiting, Queued, vars
<1>3. ASSUME NEW w \in Workflows, Accept(w) PROVE OrderInv'
  <2>1. /\ accepted + 1 \in Runs /\ accepted \in Nat /\ accepted' = accepted + 1
        /\ run \in [Runs -> RunRecord] /\ event \in [Runs -> [Events -> EventStates]]
        /\ UNCHANGED <<hold, cap, touched>>
    BY <1>3, BoundsAssumption DEF OrderInv, Inv, TypeOK, Accept, Runs, settings
  <2>2. /\ run'[accepted + 1].status = "queued"
        /\ \A q \in Runs \ {accepted + 1} : run'[q] = run[q] /\ event'[q] = event[q]
    BY <1>3, <2>1 DEF Accept, RunRecord, EventIs
  <2>3. Unaccepted'
    BY <2>1, <2>2 DEF OrderInv, Unaccepted, Held, Runs
  <2>4. ~Held(accepted + 1)
    BY <2>1 DEF OrderInv, Unaccepted
  <2>5. NoneExempt'
    BY <2>1, <2>2, <2>4 DEF OrderInv, NoneExempt, Held, Capped
  <2>6. \A s \in Runs : Started(s)' => Started(s) /\ s <= accepted
    BY <2>1, <2>2 DEF OrderInv, Unaccepted, Started, Active, Runs
  <2>7. InOrder'
    BY <2>1, <2>2, <2>6 DEF OrderInv, InOrder, Capped, Waiting, Queued, Runs
  <2> QED
    BY <1>1, <2>3, <2>5, <2>7 DEF OrderInv
<1>4. ASSUME NEW w \in Workflows, NEW c \in Caps, ChangeCap(w, c) PROVE OrderInv'
  BY <1>1, <1>4 DEF OrderInv, ChangeCap, Unaccepted, NoneExempt, InOrder, Held
<1>5. ASSUME NEW l \in Limits, ChangeLimit(l) PROVE OrderInv'
  BY <1>1, <1>5
     DEF OrderInv, ChangeLimit, Unaccepted, NoneExempt, InOrder, Held, Capped,
         Started, Active, Waiting, Queued
<1>6. ASSUME NEW r \in Runs, RunStep(r) PROVE OrderInv'
  BY <1>1, <1>6, RunStepOrder
<1> QED
  BY <1>2, <1>3, <1>4, <1>5, <1>6, Zenon DEF Next, RunStep

(* While no limit of a workflow is changed, its runs start in the order    *)
(* they were accepted, whatever happens to their deliveries.               *)
THEOREM StartsInOrder == Spec => []OrderedStarts
<1>1. OrderInv => OrderedStarts
  BY DEF OrderInv, InOrder, OrderedStarts, Ahead, Waiting
<1> QED
  BY OrderInit, OrderStep, <1>1, PTL DEF Spec

(* Slots.  Who works, or is about to, occupies the workspace and its       *)
(* workflow.                                                               *)
LEMMA WorkingOccupies ==
    /\ \A q \in Working : q \in Runs /\ Occupying(q)
    /\ \A w \in Workflows : Sharing(w) \subseteq InWorkflow(w)
BY DEF Working, Occupying, Sharing, InWorkflow, Active, NeedsSlot, Queued

LEMMA RunsAreFinite == \A S \in SUBSET Runs : IsFiniteSet(S) /\ Cardinality(S) \in Nat
<1>1. IsFiniteSet(Runs)
  BY FS_Interval, BoundsAssumption DEF Runs
<1> QED
  BY <1>1, FS_Subset, FS_CardinalityType

(* One member more, and only as many as there was room for.                *)
LEMMA OneMore ==
    ASSUME NEW S \in SUBSET Runs, NEW T \in SUBSET Runs, NEW U \in SUBSET Runs,
           NEW r \in Runs, S \subseteq U, T \subseteq S \union {r},
           NEW n \in Nat, r \notin S => Cardinality(U) < n \/ r \notin T,
           Cardinality(T) > Cardinality(S)
    PROVE  Cardinality(T) <= n
<1>1. /\ IsFiniteSet(S) /\ IsFiniteSet(U) /\ IsFiniteSet(S \union {r})
      /\ Cardinality(S) \in Nat /\ Cardinality(T) \in Nat /\ Cardinality(U) \in Nat
  BY RunsAreFinite, FS_AddElement
<1>2. Cardinality(T) <= Cardinality(S \union {r})
  BY <1>1, FS_Subset
<1>3. Cardinality(S \union {r}) = IF r \in S THEN Cardinality(S) ELSE Cardinality(S) + 1
  BY <1>1, FS_AddElement
<1>4. r \notin S
  BY <1>1, <1>2, <1>3
<1>5. r \in T
  <2>1. ASSUME r \notin T PROVE FALSE
    <3>1. T \in SUBSET S
      BY <2>1
    <3>2. Cardinality(T) <= Cardinality(S)
      BY <1>1, <3>1, FS_Subset
    <3> QED
      BY <1>1, <3>2
  <2> QED
    BY <2>1
<1>6. Cardinality(S) <= Cardinality(U)
  BY <1>1, FS_Subset
<1> QED
  BY <1>1, <1>2, <1>3, <1>4, <1>5, <1>6

(* A run that a step brings to work has asked for its slot in that step:   *)
(* the claim before it reserves one, or the advance before it starts the   *)
(* run or goes on with it.                                                 *)
LEMMA SlotsAreAsked ==
    ASSUME OrderInv, NEW r \in Runs, RunStep(r), r \notin Working, (r \in Working)'
    PROVE  \/ /\ Queued(r) /\ ~Held(r)
              /\ Admissible(r, TRUE) /\ Occupied(Runs) < limit
           \/ Queued(r) /\ ~Held(r) /\ Available(r)
           \/ run[r].status = "parked" /\ Available(r)
<1>1. /\ run \in [Runs -> RunRecord] /\ hold \in [Runs -> HoldRecord]
      /\ run[r] \in RunRecord /\ hold[r] \in HoldRecord
  BY DEF OrderInv, Inv, TypeOK
<1> DEFINE Works == Active(r) \/ (Queued(r) /\ ~run[r].cancel /\ Held(r))
<1>2. ~Works
  BY DEF Working, NeedsSlot
<1>3. Works'
  <2>1. r \in Working'
    OBVIOUS
  <2> QED
    BY <2>1 DEF Working, NeedsSlot
<1>4. CASE Cancel(r) \/ Finish(r) \/ Park(r) \/ TimerFires(r)
  <2>1. \/ /\ Cancel(r) \/ TimerFires(r)
           /\ hold' = hold /\ run'[r].status = run[r].status
           /\ run'[r].cancel \/ run'[r].cancel = run[r].cancel
        \/ run'[r].status \in {"ended", "parked"}
    BY <1>1, <1>4 DEF Cancel, Finish, Park, TimerFires, LeaveQueue, RunRecord
  <2> QED
    BY <1>2, <1>3, <2>1 DEF Active, Queued, Held
<1>5. CASE Recover(r)
  <2>1. run' = run /\ Held(r) /\ Queued(r)
    BY <1>5 DEF Recover
  <2> QED
    BY <1>2, <1>3, <2>1 DEF Active, Queued
<1>6. ASSUME NEW e \in Events,
             \/ Pick(r, e) \/ LeaseLapse(r, e) \/ LoseJob(r, e)
             \/ Redeliver(r, e) \/ Replace(r, e)
      PROVE  FALSE
  <2>1. run' = run /\ hold' = hold
    BY <1>6 DEF Pick, LeaseLapse, LoseJob, Redeliver, Replace
  <2> QED
    BY <1>2, <1>3, <2>1 DEF Active, Queued, Held
<1>7. ASSUME NEW e \in Events, GiveUp(r, e) \/ Publish(r, e)
      PROVE  FALSE
  <2>1. run' = run
    BY <1>7 DEF GiveUp, Publish
  <2>2. Held(r)' => Held(r)
    BY <1>1, <1>7 DEF GiveUp, Publish, Release, Released, Held, NoHold, HoldRecord
  <2> QED
    BY <1>2, <1>3, <2>1, <2>2 DEF Active, Queued
<1>8. ASSUME NEW e \in Events, Reserve(r, e)
      PROVE  Queued(r) /\ ~Held(r) /\ Admissible(r, TRUE) /\ Occupied(Runs) < limit
  <2>1. run' = run /\ (hold' # hold => Eligible(r, e) /\ ~Held(r))
    BY <1>8 DEF Reserve
  <2>2. Eligible(r, e) /\ ~Held(r)
    BY <1>2, <1>3, <2>1 DEF Active, Queued, Held
  <2>3. NeedsSlot(r)
    BY <1>2, <1>3, <2>1 DEF Active, Queued, NeedsSlot
  <2>4. hold[r].event # e
    BY <2>2 DEF Held, NoEvent, Events
  <2> QED
    BY <2>2, <2>3, <2>4 DEF Eligible, NeedsSlot
<1>9. ASSUME NEW e \in Events, Deliver(r, e)
      PROVE  \/ Queued(r) /\ ~Held(r) /\ Available(r)
             \/ run[r].status = "parked" /\ Available(r)
  <2>1. CASE run[r].status = "queued" /\ run[r].cancel
    <3>1. run'[r].status = "ended"
      BY <1>1, <1>9, <2>1 DEF Deliver, End, LeaveQueue, RunRecord
    <3> QED
      BY <1>3, <3>1 DEF Active, Queued
  <2>2. CASE run[r].status = "queued" /\ ~run[r].cancel
    <3>1. StartOrDefer(r, e)
      BY <1>9, <2>2 DEF Deliver
    <3>2. ~Held(r)
      BY <1>2, <2>2 DEF Queued
    <3>3. CASE Available(r)
      BY <2>2, <3>2, <3>3 DEF Queued
    <3>4. CASE ~Available(r)
      <4>1. run' = run /\ (hold' = hold \/ hold' = [hold EXCEPT ![r].armed = FALSE])
        BY <3>1, <3>4, Zenon DEF StartOrDefer, Defer
      <4>2. Held(r)' => Held(r)
        BY <1>1, <4>1 DEF Held, HoldRecord
      <4> QED
        BY <1>2, <1>3, <4>1, <4>2 DEF Active, Queued
    <3> QED
      BY <3>3, <3>4
  <2>3. CASE run[r].status = "parked"
    <3>1. End(r, e) \/ Resume(r, e) \/ Consume(r, e)
      BY <1>9, <2>3 DEF Deliver
    <3>2. Available(r) \/ run' = run \/ run'[r].status = "ended"
      BY <1>1, <3>1 DEF End, Resume, Consume, LeaveQueue, RunRecord
    <3> QED
      BY <1>3, <2>3, <3>2 DEF Active, Queued
  <2>4. CASE run[r].status \notin {"queued", "parked"}
    <3>1. run' = run
      BY <1>9, <2>4 DEF Deliver, Consume
    <3> QED
      BY <1>2, <1>3, <2>4, <3>1 DEF Active, Queued
  <2> QED
    BY <2>1, <2>2, <2>3, <2>4
<1> HIDE DEF Works
<1> QED
  BY <1>4, <1>5, <1>6, <1>7, <1>8, <1>9, Zenon DEF RunStep

(* What a step of a run does to those that work, and to those that share a *)
(* workflow's limit: only that run may join them.                          *)
LEMMA OnlyOneJoins ==
    ASSUME OrderInv, NEW r \in Runs, RunStep(r)
    PROVE  /\ Working' \subseteq Working \union {r}
           /\ \A w \in Workflows : Sharing(w)' \subseteq Sharing(w) \union {r}
           /\ r \in Working => \A w \in Workflows : Sharing(w)' \subseteq Sharing(w)
           /\ run[r].status = "parked" => \A w \in Workflows : Sharing(w)' \subseteq Sharing(w)
<1>1. Elsewhere(r) /\ run'[r].workflow = run[r].workflow
  BY StepsAreLocal, StepsKeepOrder
<1>2. \A q \in Runs \ {r} : (q \in Working)' <=> q \in Working
  BY <1>1 DEF Elsewhere, Working, Active, NeedsSlot, Queued, Held
<1>3. Working' \subseteq Runs
  BY DEF Working
<1>4. \A w \in Workflows : \A q \in Runs \ {r} : (q \in Sharing(w))' <=> q \in Sharing(w)
  BY <1>1, <1>2 DEF Elsewhere, Sharing
<1>5. \A w \in Workflows : Sharing(w)' \subseteq Runs
  BY DEF Sharing
<1>6. r \in Working \/ run[r].status = "parked"
         => \A w \in Workflows : (r \in Sharing(w))' => r \in Sharing(w)
  BY <1>1 DEF Sharing
<1> QED
  BY <1>2, <1>3, <1>4, <1>5, <1>6

(* A run comes to share a workflow's limit only by coming to work.         *)
LEMMA JoinsByWorking ==
    ASSUME OrderInv, NEW r \in Runs, RunStep(r), NEW w \in Workflows,
           r \notin Sharing(w), (r \in Sharing(w))'
    PROVE  /\ run[r].workflow = w /\ Queued(r) /\ ~Held(r)
           /\ Admissible(r, TRUE) \/ Available(r)
<1>1. /\ run \in [Runs -> RunRecord] /\ run[r] \in RunRecord
      /\ run'[r].workflow = run[r].workflow
  BY StepsKeepOrder DEF OrderInv, Inv, TypeOK
<1>2. /\ run[r].workflow = w /\ r \notin Working /\ run[r].status # "parked"
      /\ (r \in Working)' \/ run'[r].status = "parked"
  BY <1>1 DEF Sharing
<1>3. run'[r].status # "parked"
  <2>1. CASE Park(r)
    <3>1. r \in Working
      BY <2>1 DEF Park, Working
    <3> QED
      BY <1>2, <3>1
  <2>2. CASE Cancel(r) \/ Recover(r) \/ Finish(r) \/ TimerFires(r)
    BY <1>1, <1>2, <2>2 DEF Cancel, Recover, Finish, TimerFires, LeaveQueue, RunRecord
  <2>3. ASSUME NEW e \in Events,
               \/ Pick(r, e) \/ Reserve(r, e) \/ Publish(r, e) \/ LeaseLapse(r, e)
               \/ LoseJob(r, e) \/ Redeliver(r, e) \/ GiveUp(r, e) \/ Replace(r, e)
        PROVE  run' = run
    BY <2>3 DEF Pick, Reserve, Publish, LeaseLapse, LoseJob, Redeliver, GiveUp, Replace
  <2>4. ASSUME NEW e \in Events, Deliver(r, e)
        PROVE  run'[r].status # "parked"
    <3>1. \/ Consume(r, e) \/ End(r, e) \/ Start(r, e) \/ Defer(r, e)
      BY <1>2, <2>4, Zenon DEF Deliver, StartOrDefer
    <3> QED
      BY <1>1, <1>2, <3>1 DEF Consume, End, Start, Defer, LeaveQueue, RunRecord
  <2> QED
    BY <1>2, <2>1, <2>2, <2>3, <2>4 DEF RunStep
<1>4. (r \in Working)' /\ r \notin Working
  BY <1>2, <1>3
<1> QED
  BY <1>2, <1>4, SlotsAreAsked

(* Runs are accepted without a slot, and settings move none.               *)
LEMMA OthersTakeNone ==
    ASSUME OrderInv,
           \/ UNCHANGED vars
           \/ \E w \in Workflows : Accept(w)
           \/ \E w \in Workflows, c \in Caps : ChangeCap(w, c)
           \/ \E l \in Limits : ChangeLimit(l)
    PROVE  /\ Working' = Working
           /\ \A w \in Workflows : Sharing(w)' = Sharing(w)
<1>1. CASE UNCHANGED <<run, hold>>
  BY <1>1 DEF Working, Sharing, Active, NeedsSlot, Queued, Held
<1>2. ASSUME NEW v \in Workflows, Accept(v)
      PROVE  /\ Working' = Working
             /\ \A w \in Workflows : Sharing(w)' = Sharing(w)
  <2> DEFINE new == accepted + 1
  <2>1. /\ new \in Runs /\ new > accepted
        /\ run \in [Runs -> RunRecord] /\ hold' = hold
    BY <1>2, BoundsAssumption DEF OrderInv, Inv, TypeOK, Accept, Runs
  <2>2. /\ run'[new].status = "queued"
        /\ \A q \in Runs \ {new} : run'[q] = run[q]
    <3>1. run' = [run EXCEPT ![new].status = "queued", ![new].workflow = v]
      BY <1>2 DEF Accept
    <3> HIDE DEF new
    <3> QED
      BY <2>1, <3>1 DEF RunRecord
  <2>3. run[new].status = "none" /\ ~Held(new)
    BY <2>1 DEF OrderInv, Unaccepted
  <2> HIDE DEF new
  <2>4. \A q \in Runs : (q \in Working)' <=> q \in Working
    BY <2>1, <2>2, <2>3 DEF Working, Active, NeedsSlot, Queued, Held
  <2>5. \A w \in Workflows : \A q \in Runs : (q \in Sharing(w))' <=> q \in Sharing(w)
    BY <2>1, <2>2, <2>3, <2>4 DEF Sharing, Working, Active, NeedsSlot, Queued
  <2>6. /\ Working \subseteq Runs /\ Working' \subseteq Runs
        /\ \A w \in Workflows : Sharing(w) \subseteq Runs /\ Sharing(w)' \subseteq Runs
    BY DEF Working, Sharing
  <2> QED
    BY <2>4, <2>5, <2>6
<1> QED
  BY <1>1, <1>2 DEF vars, ChangeCap, ChangeLimit

LEMMA LimitHolds ==
    ASSUME OrderInv, [Next]_vars, Cardinality(Working') > Cardinality(Working)
    PROVE  Cardinality(Working') <= limit
<1>1. Working \in SUBSET Runs /\ Working' \in SUBSET Runs /\ limit \in Nat
  BY BoundsAssumption DEF Working, OrderInv, Inv, TypeOK
<1>2. PICK r \in Runs : RunStep(r)
  <2>1. Working' # Working
    <3>1. Cardinality(Working) \in Nat
      BY <1>1, RunsAreFinite
    <3> QED
      BY <3>1
  <2> QED
    BY <2>1, OthersTakeNone DEF Next, RunStep
<1> DEFINE Others == {q \in Runs \ {r} : Occupying(q)}
           All == {q \in Runs : Occupying(q)}
<1>3. r \notin Working /\ r \in Working' => Cardinality(All) < limit \/ Cardinality(Others) < limit
  BY SlotsAreAsked, <1>2 DEF Available, Occupied
<1>4. Working \subseteq All /\ All \in SUBSET Runs /\ Others \in SUBSET Runs
  BY WorkingOccupies
<1>5. r \notin Working => Working \subseteq Others
  BY WorkingOccupies
<1>6. Working' \subseteq Working \union {r}
  BY <1>2, OnlyOneJoins
<1> HIDE DEF Others, All
<1>7. CASE r \in Working
  BY <1>1, <1>4, <1>6, <1>7, OneMore
<1>8. CASE r \notin Working
  <2>1. CASE r \notin Working' \/ Cardinality(All) < limit
    BY <1>1, <1>4, <1>6, <2>1, OneMore
  <2>2. CASE r \in Working' /\ Cardinality(Others) < limit
    BY <1>1, <1>4, <1>5, <1>6, <1>8, <2>2, OneMore
  <2> QED
    BY <1>3, <1>8, <2>1, <2>2
<1> QED
  BY <1>7, <1>8

LEMMA CapHolds ==
    ASSUME OrderInv, [Next]_vars, NEW w \in Workflows, cap[w] # NoCap,
           Cardinality(Sharing(w)') > Cardinality(Sharing(w))
    PROVE  Cardinality(Sharing(w)') <= cap[w]
<1>1. /\ Sharing(w) \in SUBSET Runs /\ Sharing(w)' \in SUBSET Runs
      /\ InWorkflow(w) \in SUBSET Runs /\ cap[w] \in Nat
  BY BoundsAssumption DEF Sharing, InWorkflow, OrderInv, Inv, TypeOK
<1>2. PICK r \in Runs : RunStep(r)
  <2>1. Sharing(w)' # Sharing(w)
    <3>1. Cardinality(Sharing(w)) \in Nat
      BY <1>1, RunsAreFinite
    <3> QED
      BY <3>1
  <2> QED
    BY <2>1, OthersTakeNone DEF Next, RunStep
<1>3. r \notin Sharing(w) => Cardinality(InWorkflow(w)) < cap[w] \/ r \notin Sharing(w)'
  <2> SUFFICES ASSUME r \notin Sharing(w), r \in Sharing(w)'
               PROVE  Cardinality(InWorkflow(w)) < cap[w]
    OBVIOUS
  <2>1. /\ run[r].workflow = w /\ Queued(r) /\ ~Held(r)
        /\ Admissible(r, TRUE) \/ Available(r)
    BY <1>2, JoinsByWorking
  <2>2. Capped(r)
    BY <2>1 DEF Capped
  <2> QED
    BY <2>1, <2>2 DEF Admissible, Available
<1>4. Sharing(w)' \subseteq Sharing(w) \union {r} /\ Sharing(w) \subseteq InWorkflow(w)
  BY <1>2, OnlyOneJoins, WorkingOccupies
<1> QED
  BY <1>1, <1>3, <1>4, OneMore

(* No step takes a slot beyond the workspace's limit, for any number of    *)
(* runs and whatever the limit was before: the claim asks under the        *)
(* counter, and an advance asks again before it starts or goes on.         *)
THEOREM LimitNeverOverGranted == Spec => NeverOverGranted
<1>1. OrderInv /\ [Next]_vars =>
          [Cardinality(Working') > Cardinality(Working) =>
              Cardinality(Working') <= limit]_vars
  BY LimitHolds
<1> QED
  BY OrderInit, OrderStep, <1>1, PTL DEF Spec, NeverOverGranted

(* The same of each workflow's own limit.                                  *)
THEOREM CapsRespected == Spec => CapRespected
<1>1. OrderInv /\ [Next]_vars =>
          [\A w \in Workflows :
              /\ cap[w] # NoCap
              /\ Cardinality(Sharing(w)') > Cardinality(Sharing(w))
              => Cardinality(Sharing(w)') <= cap[w]]_vars
  BY CapHolds
<1> QED
  BY OrderInit, OrderStep, <1>1, PTL DEF Spec, CapRespected

=============================================================================
