------------------------- MODULE OutboxEventProofs -------------------------
(***************************************************************************)
(* What OutboxEvent promises for any number of redeliveries, redispatches, *)
(* faults and lost jobs: its types, that a message is acted on at most     *)
(* once, that no published row is ever forgotten, and that while nothing   *)
(* is lost it has a job.  And what FairClaim promises for any number of    *)
(* workspaces: every one has its turn.                                     *)
(***************************************************************************)
EXTENDS OutboxEvent, FairClaim, FiniteSetTheorems, WellFoundedInduction, TLAPS

(* A row's delivery number has to leave room for the redispatches to come. *)
TypeInv == TypeOK /\ row.redeliveries <= MaxRedeliveries + redispatches

(* The receipt stands for the one time the operation was committed.  Once  *)
(* it is gone so are the row, every claim on it and every job for it.      *)
HandledInv ==
    /\ handled <= 1
    /\ receipt => handled = 1
    /\ handled > 0 /\ ~receipt =>
          /\ row.state = "gone"
          /\ flights = {}
          /\ \A r \in Deliveries : jobs[r] # "waiting"

LEMMA TypeInit == Init => TypeInv
<1> SUFFICES ASSUME Init PROVE TypeInv
  OBVIOUS
<1>1. row \in RowRecord /\ row.redeliveries = 0
  <2>1. PICK state \in {"pending", "published"}, sound \in BOOLEAN, kind \in Kinds :
           row = [state |-> state, token |-> 0, live |-> FALSE,
                  redeliveries |-> 0, due |-> FALSE, sound |-> sound,
                  kind |-> kind]
    BY DEF Init
  <2>2. 0 \in Deliveries
    BY BoundsAssumption DEF Deliveries
  <2> QED BY <2>1, <2>2 DEF RowRecord
<1>2. losses \in 0 .. MaxLosses
  BY BoundsAssumption DEF Init
<1>3. jobs \in [Deliveries -> {"none", "waiting", "retained"}]
  BY DEF Init
<1>4. flights \in SUBSET FlightRecord
  BY DEF Init
<1>5. 0 \in 0 .. MaxRedispatches /\ 0 \in 0 .. MaxFaults
  BY BoundsAssumption
<1>6. row.redeliveries <= MaxRedeliveries + redispatches
  BY <1>1, BoundsAssumption DEF Init
<1> QED BY <1>1, <1>2, <1>3, <1>4, <1>5, <1>6 DEF Init, TypeInv, TypeOK

(* A row with every part an action may replace. *)
Rewritten(state, token, live, redeliveries, due) ==
    [state |-> state, token |-> token, live |-> live,
     redeliveries |-> redeliveries, due |-> due, sound |-> row.sound,
     kind |-> row.kind]

LEMMA RewrittenType ==
    ASSUME TypeInv,
           NEW state \in {"pending", "published", "failed", "gone"},
           NEW token \in Nat, NEW live \in BOOLEAN,
           NEW redeliveries \in Deliveries, NEW due \in BOOLEAN
    PROVE  Rewritten(state, token, live, redeliveries, due) \in RowRecord
  BY DEF TypeInv, TypeOK, RowRecord, Rewritten

(* The rows of the commonest steps. *)
LEMMA RowTypes ==
    ASSUME TypeInv
    PROVE  /\ Unleased \in RowRecord
           /\ Published \in RowRecord
           /\ [row EXCEPT !.due = FALSE] \in RowRecord
           /\ [row EXCEPT !.due = TRUE] \in RowRecord
           /\ [row EXCEPT !.live = FALSE] \in RowRecord
           /\ [row EXCEPT !.state = "gone"] \in RowRecord
  BY DEF TypeInv, TypeOK, RowRecord, Unleased, Published

LEMMA FlightTypes ==
    ASSUME TypeInv, NEW f \in flights,
           NEW stage \in {"leased", "added", "refused"}
    PROVE  [f EXCEPT !.stage = stage] \in FlightRecord
  BY DEF TypeInv, TypeOK, FlightRecord

LEMMA TypeStep == TypeInv /\ [Next]_vars => TypeInv'
<1> SUFFICES ASSUME TypeInv, [Next]_vars PROVE TypeInv'
  OBVIOUS
<1> USE DEF TypeInv
<1>1. CASE Claim
  <2>1. row' \in RowRecord /\ row'.redeliveries = row.redeliveries
    <3>1. row' = Rewritten(row.state, claims + 1, TRUE, row.redeliveries, row.due)
      BY <1>1 DEF Claim, TypeOK, RowRecord, Rewritten
    <3>2. claims + 1 \in Nat
      BY DEF TypeOK
    <3>3. /\ row.state \in {"pending", "published", "failed", "gone"}
          /\ row.redeliveries \in Deliveries
          /\ row.due \in BOOLEAN
      BY DEF TypeOK, RowRecord
    <3>4. row' \in RowRecord
      BY <3>1, <3>2, <3>3, RewrittenType
    <3> QED BY <3>1, <3>4 DEF Rewritten
  <2>2. flights' \in SUBSET FlightRecord
    BY <1>1 DEF Claim, TypeOK, RowRecord, FlightRecord
  <2> QED BY <1>1, <2>1, <2>2 DEF Claim, TypeOK, history
<1>2. ASSUME NEW f \in flights,
             DispatcherStep(f) \/ Refuse(f) \/ MarkUnacknowledged(f) \/ Crash(f)
      PROVE  TypeInv'
  <2>1. flights' \in SUBSET FlightRecord
    BY <1>2, FlightTypes DEF DispatcherStep, Add, MarkPublished, Release,
       FailUnsound, Refuse, MarkUnacknowledged, Crash, Landed, AtStage, TypeOK
  <2>2. CASE Add(f)
    <3>1. jobs' \in [Deliveries -> {"none", "waiting", "retained"}]
      BY <2>2 DEF Add, TypeOK
    <3> QED BY <2>1, <2>2, <3>1 DEF Add, TypeOK, history
  <2>3. CASE MarkPublished(f)
    BY <2>1, <2>3, RowTypes DEF MarkPublished, Published, Unleased, TypeOK,
       RowRecord, history
  <2>4. CASE Release(f)
    BY <2>1, <2>4, RowTypes DEF Release, Unleased, TypeOK, RowRecord, history
  <2>5. CASE FailUnsound(f)
    <3>1. row' \in RowRecord /\ row'.redeliveries = row.redeliveries
      <4>1. \/ row' = row
            \/ \E due \in BOOLEAN :
                  row' = Rewritten("failed", 0, FALSE, row.redeliveries, due)
        <5>1. (row.kind \in Repairable) \in BOOLEAN
          OBVIOUS
        <5> QED BY <2>5, <5>1 DEF FailUnsound, Unleased, TypeOK, RowRecord, Rewritten
      <4>2. row.redeliveries \in Deliveries
        BY DEF TypeOK, RowRecord
      <4>3. CASE row' = row
        BY <4>3 DEF Rewritten, TypeOK
      <4>4. ASSUME NEW due \in BOOLEAN,
                   row' = Rewritten("failed", 0, FALSE, row.redeliveries, due)
            PROVE  row' \in RowRecord /\ row'.redeliveries = row.redeliveries
        <5>1. row' \in RowRecord
          BY <4>2, <4>4, RewrittenType
        <5> QED BY <4>4, <5>1 DEF Rewritten
      <4> QED BY <4>1, <4>3, <4>4
    <3> QED BY <2>1, <2>5, <3>1 DEF FailUnsound, TypeOK, history
  <2>6. CASE Refuse(f)
    BY <2>1, <2>6, BoundsAssumption DEF Refuse, Fault, TypeOK
  <2>7. CASE MarkUnacknowledged(f)
    BY <2>1, <2>7, RowTypes, BoundsAssumption DEF MarkUnacknowledged, Fault,
       Published, Unleased, TypeOK, RowRecord
  <2>8. CASE Crash(f)
    BY <2>1, <2>8, BoundsAssumption DEF Crash, Fault, TypeOK
  <2> QED BY <1>2, <2>2, <2>3, <2>4, <2>5, <2>6, <2>7, <2>8 DEF DispatcherStep
<1>3. CASE LeaseLapse
  BY <1>3, RowTypes, BoundsAssumption DEF LeaseLapse, Fault, TypeOK, RowRecord
<1>4. ASSUME NEW r \in Deliveries, Deliver(r) \/ LoseJob(r) \/ EvictJob(r)
      PROVE  TypeInv'
  <2>1. jobs' \in [Deliveries -> {"none", "waiting", "retained"}]
    BY <1>4 DEF Deliver, LoseJob, EvictJob, TypeOK
  <2>2. CASE Deliver(r)
    BY <2>1, <2>2, BoundsAssumption DEF Deliver, Handle, Fault, TypeOK
  <2>3. CASE LoseJob(r)
    BY <2>1, <2>3, BoundsAssumption DEF LoseJob, Loss, TypeOK
  <2>4. CASE EvictJob(r)
    BY <2>1, <2>4 DEF EvictJob, TypeOK, history
  <2> QED BY <1>4, <2>2, <2>3, <2>4
<1>5. CASE SettleOverdue
  <2>1. row' \in RowRecord /\ row'.redeliveries <= MaxRedeliveries + redispatches
    <3>1. CASE receipt
      BY <1>5, <3>1, RowTypes DEF SettleOverdue, TypeOK, RowRecord, history
    <3>2. CASE ~receipt /\ row.redeliveries >= MaxRedeliveries
      <4>1. \E due \in BOOLEAN :
               row' = Rewritten("failed", row.token, row.live,
                                row.redeliveries, due)
        <5>1. (row.kind \in Repairable) \in BOOLEAN
          OBVIOUS
        <5> QED BY <1>5, <3>2, <5>1 DEF SettleOverdue, TypeOK, RowRecord, Rewritten
      <4>2. /\ row.token \in Nat
            /\ row.live \in BOOLEAN
            /\ row.redeliveries \in Deliveries
        BY DEF TypeOK, RowRecord
      <4>3. ASSUME NEW due \in BOOLEAN,
                   row' = Rewritten("failed", row.token, row.live,
                                    row.redeliveries, due)
            PROVE  row' \in RowRecord /\ row'.redeliveries = row.redeliveries
        <5>1. row' \in RowRecord
          BY <4>2, <4>3, RewrittenType
        <5> QED BY <4>3, <5>1 DEF Rewritten
      <4> QED BY <1>5, <4>1, <4>3 DEF SettleOverdue, history
    <3>3. CASE ~receipt /\ ~(row.redeliveries >= MaxRedeliveries)
      <4>1. row' = Rewritten("pending", row.token, row.live,
                             row.redeliveries + 1, FALSE)
        BY <1>5, <3>3 DEF SettleOverdue, TypeOK, RowRecord, Rewritten
      <4>2. /\ row.token \in Nat
            /\ row.live \in BOOLEAN
        BY DEF TypeOK, RowRecord
      <4>3. /\ row.redeliveries + 1 \in Deliveries
            /\ row.redeliveries + 1 <= MaxRedeliveries + redispatches
        BY <3>3, BoundsAssumption DEF TypeOK, RowRecord, Deliveries
      <4>4. row' \in RowRecord
        BY <4>1, <4>2, <4>3, RewrittenType
      <4> QED BY <1>5, <4>1, <4>3, <4>4 DEF Rewritten, SettleOverdue, history
    <3> QED BY <3>1, <3>2, <3>3
  <2> QED BY <1>5, <2>1 DEF SettleOverdue, TypeOK, history
<1>6. CASE DateUndated
  BY <1>6, RowTypes DEF DateUndated, TypeOK, RowRecord, history
<1>7. CASE ReadFailed
  BY <1>7 DEF ReadFailed, TypeOK, history
<1>8. CASE ReplaceFailed
  BY <1>8, RowTypes DEF ReplaceFailed, TypeOK, RowRecord
<1>9. CASE Redispatch
  <2>1. row' \in RowRecord /\ row'.redeliveries <= MaxRedeliveries + redispatches'
    <3>1. row' = Rewritten("pending", 0, FALSE, row.redeliveries + 1, row.due)
      BY <1>9 DEF Redispatch, Unleased, TypeOK, RowRecord, Rewritten
    <3>2. /\ row.redeliveries + 1 \in Deliveries
          /\ row.redeliveries + 1 <= MaxRedeliveries + redispatches'
      <4>1. row.redeliveries \in Nat /\ redispatches \in 0 .. MaxRedispatches
        BY DEF TypeOK, RowRecord, Deliveries
      <4>2. redispatches' = redispatches + 1 /\ redispatches < MaxRedispatches
        BY <1>9 DEF Redispatch
      <4> QED
        BY <4>1, <4>2, BoundsAssumption DEF Deliveries
    <3>3. row.due \in BOOLEAN
      BY DEF TypeOK, RowRecord
    <3>4. row' \in RowRecord
      BY <3>1, <3>2, <3>3, RewrittenType
    <3> QED BY <3>1, <3>2, <3>4 DEF Rewritten
  <2> QED BY <1>9, <2>1, BoundsAssumption DEF Redispatch, TypeOK
<1>10. CASE DeleteRow
  BY <1>10, RowTypes DEF DeleteRow, TypeOK, RowRecord, history
<1>11. CASE DeleteReceipt
  BY <1>11 DEF DeleteReceipt, TypeOK, history
<1>12. CASE UNCHANGED vars
  BY <1>12 DEF vars, TypeOK
<1> QED
  BY <1>1, <1>2, <1>3, <1>4, <1>5, <1>6, <1>7, <1>8, <1>9, <1>10, <1>11, <1>12
  DEF Next

(* Every reachable state of a row and its publications has its types,      *)
(* however often the row is redelivered and redispatched.                  *)
THEOREM TypeCorrect == Spec => []TypeOK
<1>1. TypeInv => TypeOK
  BY DEF TypeInv
<1> QED BY <1>1, TypeInit, TypeStep, PTL DEF Spec

-----------------------------------------------------------------------------

LEMMA HandledInit == Init => HandledInv
  BY DEF Init, HandledInv

LEMMA HandledStep == TypeInv /\ HandledInv /\ [Next]_vars => HandledInv'
<1> SUFFICES ASSUME TypeInv, HandledInv, [Next]_vars PROVE HandledInv'
  OBVIOUS
<1>1. handled \in Nat
  BY DEF TypeInv, TypeOK
<1>2. CASE Claim
  BY <1>2 DEF Claim, Leasable, HandledInv, history
<1>3. ASSUME NEW f \in flights,
             DispatcherStep(f) \/ Refuse(f) \/ MarkUnacknowledged(f) \/ Crash(f)
      PROVE  HandledInv'
  <2>1. UNCHANGED <<handled, receipt>>
    BY <1>3 DEF DispatcherStep, Add, MarkPublished, Release, FailUnsound,
       Refuse, MarkUnacknowledged, Crash, history
  <2> QED BY <2>1, <1>3 DEF HandledInv
<1>4. CASE LeaseLapse
  <2>1. row'.state = row.state
    BY <1>4 DEF LeaseLapse, TypeInv, TypeOK, RowRecord
  <2> QED BY <1>4, <2>1 DEF LeaseLapse, HandledInv
<1>5. ASSUME NEW r \in Deliveries, Deliver(r) \/ LoseJob(r) \/ EvictJob(r)
      PROVE  HandledInv'
  <2>1. CASE Deliver(r)
    <3>1. receipt' /\ handled' = 1
      BY <2>1, <1>1 DEF Deliver, Handle, HandledInv
    <3> QED BY <3>1 DEF HandledInv
  <2>2. CASE LoseJob(r)
    BY <2>2 DEF LoseJob, HandledInv
  <2>3. CASE EvictJob(r)
    <3>1. \A s \in Deliveries : jobs'[s] = "waiting" => jobs[s] = "waiting"
      BY <2>3 DEF EvictJob, TypeInv, TypeOK
    <3> QED BY <2>3, <3>1 DEF EvictJob, HandledInv, history
  <2> QED BY <1>5, <2>1, <2>2, <2>3
<1>6. CASE SettleOverdue
  BY <1>6 DEF SettleOverdue, HandledInv, history
<1>7. CASE DateUndated
  BY <1>7 DEF DateUndated, Undated, HandledInv, history
<1>8. CASE ReadFailed
  BY <1>8 DEF ReadFailed, HandledInv, history
<1>9. CASE ReplaceFailed
  <2>1. row'.state = row.state
    BY <1>9 DEF ReplaceFailed, TypeInv, TypeOK, RowRecord
  <2> QED BY <1>9, <2>1 DEF ReplaceFailed, HandledInv
<1>10. CASE Redispatch
  BY <1>10 DEF Redispatch, HandledInv
<1>11. CASE DeleteRow
  <2>1. row'.state = "gone"
    BY <1>11 DEF DeleteRow, TypeInv, TypeOK, RowRecord
  <2> QED BY <1>11, <2>1 DEF DeleteRow, HandledInv, history
<1>12. CASE DeleteReceipt
  BY <1>12 DEF DeleteReceipt, Quiet, HandledInv, history
<1>13. CASE UNCHANGED vars
  BY <1>13 DEF vars, HandledInv
<1> QED
  BY <1>2, <1>3, <1>4, <1>5, <1>6, <1>7, <1>8, <1>9, <1>10, <1>11, <1>12, <1>13
  DEF Next

(* A message is acted on at most once, whatever is redelivered, stalled,   *)
(* redispatched or retained.                                               *)
THEOREM HandledAtMostOnce == Spec => []HandledOnce
<1>1. HandledInv => HandledOnce
  BY DEF HandledInv, HandledOnce
<1> QED
  BY <1>1, TypeInit, TypeStep, HandledInit, HandledStep, PTL DEF Spec

-----------------------------------------------------------------------------

LEMMA WatchStep == TypeInv /\ [Next]_vars => [Unwatched' => Unwatched]_vars
<1> SUFFICES ASSUME TypeInv, Next, Unwatched' PROVE Unwatched \/ UNCHANGED vars
  OBVIOUS
<1> USE DEF Unwatched, Undated, TypeInv, TypeOK, RowRecord
<1>1. CASE Claim
  BY <1>1 DEF Claim, Leasable
<1>2. ASSUME NEW f \in flights,
             DispatcherStep(f) \/ Refuse(f) \/ MarkUnacknowledged(f) \/ Crash(f)
      PROVE  Unwatched
  <2>1. UNCHANGED <<receipt, replaced>>
    BY <1>2 DEF DispatcherStep, Add, MarkPublished, Release, FailUnsound,
       Refuse, MarkUnacknowledged, Crash, history
  <2>2. \/ row' = row
        \/ row' = Published
        \/ row' = Unleased /\ row.state = "pending"
        \/ row'.state = "failed"
    BY <1>2 DEF DispatcherStep, Add, MarkPublished, Release, FailUnsound,
       Refuse, MarkUnacknowledged, Crash, CurrentLease, Unleased
  <2> QED BY <2>1, <2>2 DEF Published, Unleased
<1>3. CASE LeaseLapse
  BY <1>3 DEF LeaseLapse
<1>4. ASSUME NEW r \in Deliveries, Deliver(r) \/ LoseJob(r) \/ EvictJob(r)
      PROVE  Unwatched
  BY <1>4 DEF Deliver, Handle, LoseJob, EvictJob, history
<1>5. CASE SettleOverdue
  BY <1>5 DEF SettleOverdue, history
<1>6. CASE DateUndated
  BY <1>6 DEF DateUndated
<1>7. CASE ReadFailed
  BY <1>7 DEF ReadFailed, history
<1>8. CASE ReplaceFailed
  BY <1>8 DEF ReplaceFailed
<1>9. CASE Redispatch
  BY <1>9 DEF Redispatch, Unleased
<1>10. CASE DeleteRow
  BY <1>10 DEF DeleteRow
<1>11. CASE DeleteReceipt
  BY <1>11 DEF DeleteReceipt
<1> QED
  BY <1>1, <1>2, <1>3, <1>4, <1>5, <1>6, <1>7, <1>8, <1>9, <1>10, <1>11 DEF Next

(* No step leaves a published row without a date, a receipt or an owner    *)
(* who replaced it.                                                        *)
THEOREM NothingForgotten == Spec => NeverForgotten
  BY TypeInit, TypeStep, WatchStep, PTL DEF Spec, NeverForgotten

-----------------------------------------------------------------------------
(* While nothing was lost and nobody acted on the message, every job that  *)
(* was ever added for the row is still waiting: a flight that is past its  *)
(* add has one, and so has a row that was marked after such a flight.      *)

Undelivered == losses = 0 /\ ~receipt /\ row.state # "gone"
HasJob == \E r \in Deliveries : jobs[r] = "waiting"

JobInv ==
    Undelivered =>
        /\ \A r \in Deliveries : jobs[r] # "retained"
        /\ \A f \in flights : f.stage = "added" => jobs[f.delivery] = "waiting"
        /\ row.state = "published" => HasJob

LEMMA JobInit == Init => JobInv
<1> SUFFICES ASSUME Init, Undelivered PROVE JobInv
  BY DEF JobInv
<1>1. row.state # "published"
  BY DEF Init, Undelivered
<1> QED BY <1>1 DEF Init, JobInv

(* Steps that leave the jobs alone: no flight passes for one past its add, *)
(* and no row becomes published.                                           *)
LEMMA JobsSame ==
    ASSUME JobInv, UNCHANGED jobs, Undelivered' => Undelivered,
           \A f \in flights' : f.stage = "added" =>
              \E g \in flights : g.stage = "added" /\ g.delivery = f.delivery,
           row'.state = "published" /\ Undelivered' =>
              row.state = "published" \/ HasJob
    PROVE  JobInv'
  BY DEF JobInv, HasJob

LEMMA JobStep == TypeInv /\ JobInv /\ [Next]_vars => JobInv'
<1> SUFFICES ASSUME TypeInv, JobInv, [Next]_vars PROVE JobInv'
  OBVIOUS
<1>1. /\ row \in RowRecord /\ losses \in Nat
      /\ flights \in SUBSET FlightRecord
      /\ jobs \in [Deliveries -> {"none", "waiting", "retained"}]
  BY BoundsAssumption DEF TypeInv, TypeOK
<1>2. CASE Claim
  <2>1. row'.state = row.state
    BY <1>1, <1>2 DEF Claim, RowRecord
  <2> QED BY <1>2, <2>1, JobsSame DEF Claim, Undelivered, history
<1>3. ASSUME NEW f \in flights, Add(f) PROVE JobInv'
  <2>1. /\ UNCHANGED <<row, receipt, losses>> /\ f.delivery \in Deliveries
        /\ jobs' = IF jobs[f.delivery] = "none"
                   THEN [jobs EXCEPT ![f.delivery] = "waiting"] ELSE jobs
    BY <1>1, <1>3 DEF Add, JobId, history, FlightRecord
  <2> SUFFICES ASSUME Undelivered
               PROVE  /\ \A r \in Deliveries : jobs'[r] # "retained"
                      /\ \A g \in flights' : g.stage = "added" =>
                            jobs'[g.delivery] = "waiting"
                      /\ row.state = "published" => HasJob'
    BY <2>1 DEF JobInv, Undelivered
  <2>2. /\ \A r \in Deliveries : jobs'[r] # "retained"
        /\ \A r \in Deliveries : jobs[r] = "waiting" => jobs'[r] = "waiting"
        /\ jobs'[f.delivery] = "waiting"
    BY <1>1, <2>1 DEF JobInv
  <2>3. \A g \in flights' :
           g \in flights \/ g.delivery = f.delivery
    BY <1>1, <1>3 DEF Add, AtStage, FlightRecord
  <2>4. \A g \in flights : g.delivery \in Deliveries
    BY <1>1 DEF FlightRecord
  <2> QED BY <2>2, <2>3, <2>4 DEF JobInv, HasJob
<1>4. ASSUME NEW f \in flights,
             \/ MarkPublished(f) \/ Release(f) \/ FailUnsound(f)
             \/ Refuse(f) \/ MarkUnacknowledged(f) \/ Crash(f)
      PROVE  JobInv'
  <2>1. UNCHANGED <<jobs, receipt, losses>>
    BY <1>4 DEF MarkPublished, Release, FailUnsound, Refuse,
       MarkUnacknowledged, Crash, history
  <2>2. \A g \in flights' : g.stage = "added" => g \in flights
    BY <1>1, <1>4 DEF MarkPublished, Release, FailUnsound, Refuse,
       MarkUnacknowledged, Crash, Landed, AtStage, FlightRecord
  <2>3. \/ row' = row
        \/ row.state = "pending" /\ f.stage = "added"
        \/ row.state = "pending" /\ row'.state # "published"
    BY <1>1, <1>4 DEF MarkPublished, Release, FailUnsound, Refuse,
       MarkUnacknowledged, Crash, CurrentLease, Unleased, RowRecord
  <2>4. Undelivered' => Undelivered
    BY <2>1, <2>3 DEF Undelivered
  <2>5. f.stage = "added" /\ Undelivered => HasJob
    BY <1>1 DEF JobInv, HasJob, FlightRecord
  <2> QED BY <2>1, <2>2, <2>3, <2>4, <2>5, JobsSame
<1>5. CASE LeaseLapse
  <2>1. row'.state = row.state
    BY <1>1, <1>5 DEF LeaseLapse, RowRecord
  <2> QED BY <1>5, <2>1, JobsSame DEF LeaseLapse, Undelivered
<1>6. ASSUME NEW r \in Deliveries, Deliver(r) \/ LoseJob(r) \/ EvictJob(r)
      PROVE  JobInv'
  <2>1. CASE Deliver(r)
    BY <2>1 DEF Deliver, Handle, JobInv, Undelivered
  <2>2. CASE LoseJob(r)
    BY <1>1, <2>2 DEF LoseJob, Loss, JobInv, Undelivered
  <2>3. CASE EvictJob(r)
    <3>1. ~Undelivered /\ UNCHANGED <<row, receipt, losses>>
      BY <2>3 DEF EvictJob, JobInv, history
    <3> QED BY <3>1 DEF JobInv, Undelivered
  <2> QED BY <1>6, <2>1, <2>2, <2>3
<1>7. CASE SettleOverdue
  <2>1. /\ UNCHANGED <<jobs, flights, receipt, losses>>
        /\ row.state # "gone"
        /\ row'.state = "published" => row.state = "published"
    BY <1>1, <1>7 DEF SettleOverdue, RowRecord, history
  <2> QED BY <2>1, JobsSame DEF Undelivered
<1>8. CASE DateUndated \/ ReadFailed \/ ReplaceFailed
  <2>1. /\ UNCHANGED <<jobs, flights, receipt, losses>>
        /\ row'.state = row.state
    BY <1>1, <1>8 DEF DateUndated, ReadFailed, ReplaceFailed, RowRecord, history
  <2> QED BY <2>1, JobsSame DEF Undelivered
<1>9. CASE Redispatch
  <2>1. /\ UNCHANGED <<jobs, flights, receipt, losses>>
        /\ row.state = "failed" /\ row'.state = "pending"
    BY <1>1, <1>9 DEF Redispatch, Unleased, RowRecord
  <2> QED BY <2>1, JobsSame DEF Undelivered
<1>10. CASE DeleteRow
  <2>1. row'.state = "gone"
    BY <1>1, <1>10 DEF DeleteRow, RowRecord
  <2> QED BY <2>1 DEF JobInv, Undelivered
<1>11. CASE DeleteReceipt
  BY <1>11 DEF DeleteReceipt, JobInv, Undelivered
<1>12. CASE UNCHANGED vars
  BY <1>12 DEF vars, JobInv, Undelivered, HasJob
<1> QED
  BY <1>2, <1>3, <1>4, <1>5, <1>6, <1>7, <1>8, <1>9, <1>10, <1>11, <1>12
  DEF Next, DispatcherStep

(* PublishedHasJob: as long as the transport loses nothing, markPublished  *)
(* only ever follows an accepted add whose job still waits.                *)
THEOREM PublicationHasJob == Spec => []PublishedHasJob
<1>1. JobInv => PublishedHasJob
  BY DEF JobInv, Undelivered, HasJob, PublishedHasJob
<1> QED
  BY <1>1, TypeInit, TypeStep, JobInit, JobStep, PTL DEF Spec

-----------------------------------------------------------------------------
(* How the claims share their batches (FairClaim).                         *)

(* Some number is the least of its kind, and the greatest under a bound.   *)
LEMMA LeastNumber ==
    ASSUME NEW S, S \subseteq Nat, S # {}
    PROVE  \E m \in S : \A n \in S : m <= n
<1> DEFINE Less == {p \in Nat \X Nat : p[1] < p[2]}
<1>1. IsWellFoundedOn(Less, Nat)
  BY NatLessThanWellFounded, Zenon DEF OpToRel
<1>2. PICK m \in S : \A n \in S : <<n, m>> \notin Less
  <2> HIDE DEF Less
  <2>1. \A T : T \subseteq Nat /\ T # {} => \E x \in T : \A y \in T : ~(<<y, x>> \in Less)
    BY <1>1, WFMin, Zenon
  <2>2. \E x \in S : \A y \in S : ~(<<y, x>> \in Less)
    BY <2>1, Zenon
  <2> QED BY <2>2, Zenon
<1>3. \A n \in S : ~(n < m)
  BY <1>2
<1> QED BY <1>3

LEMMA GreatestNumber ==
    ASSUME NEW bound \in Nat, NEW S, S \subseteq 0 .. bound, S # {}
    PROVE  \E m \in S : \A n \in S : n <= m
<1> DEFINE T == {bound - n : n \in S}
<1>1. T \subseteq Nat /\ T # {}
  <2>1. \A n \in S : bound - n \in Nat
    OBVIOUS
  <2>2. T \subseteq Nat
    BY <2>1
  <2>3. T # {}
    OBVIOUS
  <2> QED BY <2>2, <2>3
<1>2. PICK k \in T : \A n \in T : k <= n
  BY <1>1, LeastNumber
<1>3. PICK m \in S : k = bound - m
  OBVIOUS
<1>4. ASSUME NEW n \in S PROVE n <= m
  <2>1. bound - m <= bound - n
    BY <1>2, <1>3
  <2> QED BY <2>1
<1> QED BY <1>4

(* The turn of the workspaces, as numbers; and who is before w in it.      *)
Rank(w) == IF w > cursor THEN w ELSE w + WorkspaceCount
Ahead(w) == {v \in Workspaces : Before(v, w)}

LEMMA RankOrder ==
    ASSUME cursor \in 0 .. WorkspaceCount, NEW v \in Workspaces, NEW w \in Workspaces
    PROVE  /\ Rank(v) \in 0 .. 2 * WorkspaceCount
           /\ Before(v, w) <=> Rank(v) < Rank(w)
           /\ Rank(v) = Rank(w) <=> v = w
BY ClaimAssumption DEF Rank, Before, Workspaces

LEMMA WorkspacesFinite ==
    /\ IsFiniteSet(Workspaces) /\ Cardinality(Workspaces) = WorkspaceCount
    /\ \A S : S \subseteq Workspaces => IsFiniteSet(S) /\ Cardinality(S) \in Nat
<1>1. IsFiniteSet(Workspaces) /\ Cardinality(Workspaces) = WorkspaceCount
  BY ClaimAssumption, FS_Interval DEF Workspaces
<1>2. ASSUME NEW S, S \subseteq Workspaces PROVE IsFiniteSet(S) /\ Cardinality(S) \in Nat
  <2>1. IsFiniteSet(S)
    BY <1>1, <1>2, FS_Subset
  <2> QED BY <2>1, FS_CardinalityType
<1> QED BY <1>1, <1>2

(* Some workspace of every kind is the first in the turn, and one the last. *)
LEMMA FirstInTurn ==
    ASSUME cursor \in 0 .. WorkspaceCount, NEW S, S \subseteq Workspaces, S # {}
    PROVE  /\ \E u \in S : \A v \in S : ~Before(v, u)
           /\ \E u \in S : \A v \in S \ {u} : Before(v, u)
<1> DEFINE ranks == {Rank(v) : v \in S}
<1>1. ranks \subseteq 0 .. 2 * WorkspaceCount /\ ranks # {}
  BY RankOrder
<1>2. \E u \in S : \A v \in S : ~Before(v, u)
  <2>1. ranks \subseteq Nat
    BY <1>1, ClaimAssumption
  <2>2. PICK k \in ranks : \A n \in ranks : k <= n
    BY <1>1, <2>1, LeastNumber
  <2>3. PICK u \in S : k = Rank(u)
    OBVIOUS
  <2>4. ASSUME NEW v \in S PROVE ~Before(v, u)
    <3>1. Rank(u) <= Rank(v)
      BY <2>2, <2>3
    <3> QED BY <3>1, RankOrder
  <2> QED BY <2>4
<1>3. \E u \in S : \A v \in S \ {u} : Before(v, u)
  <2>1. 2 * WorkspaceCount \in Nat
    BY ClaimAssumption
  <2>2. PICK k \in ranks : \A n \in ranks : n <= k
    BY <1>1, <2>1, GreatestNumber
  <2>3. PICK u \in S : k = Rank(u)
    OBVIOUS
  <2>4. ASSUME NEW v \in S, v # u PROVE Before(v, u)
    <3>1. Rank(v) <= Rank(u)
      BY <2>2, <2>3
    <3> QED BY <2>4, <3>1, RankOrder
  <2> QED BY <2>4
<1> QED BY <1>2, <1>3

(* A round has at most as many workspaces as the batch has rows; and just  *)
(* as many, all before w, if w waits and is left out.                      *)
LEMMA RoundSize ==
    ASSUME cursor \in 0 .. WorkspaceCount
    PROVE  /\ Cardinality(Round) <= BatchLimit
           /\ \A w \in Waiting \ Round : /\ Cardinality(Round) >= BatchLimit
                                         /\ \A u \in Round : Before(u, w)
<1>1. Round \subseteq Workspaces /\ Waiting \subseteq Workspaces
  BY DEF Round, Waiting
<1>2. BatchLimit \in Nat /\ BatchLimit > 0
  BY ClaimAssumption
<1> DEFINE queue(w) == {v \in Waiting : Before(v, w)}
<1>3. \A w : IsFiniteSet(queue(w)) /\ Cardinality(queue(w)) \in Nat
  <2>1. \A w : queue(w) \subseteq Workspaces
    BY <1>1
  <2> QED BY <2>1, WorkspacesFinite
<1>4. IsFiniteSet(Round) /\ Cardinality(Round) \in Nat
  BY <1>1, WorkspacesFinite
<1>5. \A w : w \in Round <=> w \in Waiting /\ Cardinality(queue(w)) < BatchLimit
  BY DEF Round
<1>6. Cardinality(Round) <= BatchLimit
  <2>1. CASE Round = {}
    BY <1>2, <2>1, FS_EmptySet
  <2>2. CASE Round # {}
    <3>1. PICK u \in Round : \A v \in Round \ {u} : Before(v, u)
      BY <1>1, <2>2, FirstInTurn
    <3>2. Round \ {u} \subseteq queue(u)
      BY <1>5, <3>1
    <3>3. Cardinality(Round \ {u}) = Cardinality(Round) - 1
      BY <1>4, <3>1, FS_RemoveElement
    <3>4. Cardinality(Round \ {u}) <= Cardinality(queue(u))
      BY <1>3, <3>2, FS_Subset
    <3>5. Cardinality(queue(u)) < BatchLimit
      BY <1>5, <3>1
    <3> HIDE DEF queue
    <3> QED BY <1>2, <1>3, <1>4, <3>3, <3>4, <3>5
  <2> QED BY <2>1, <2>2
<1>7. ASSUME NEW w \in Waiting, w \notin Round, NEW u \in Round PROVE Before(u, w)
  <2> SUFFICES ASSUME ~Before(u, w) PROVE FALSE
    OBVIOUS
  <2>1. u \in Workspaces /\ w \in Workspaces
    BY <1>1
  <2>2. queue(w) \subseteq queue(u)
    BY <1>1, <2>1, RankOrder
  <2>3. Cardinality(queue(w)) <= Cardinality(queue(u))
    BY <1>3, <2>2, FS_Subset
  <2> HIDE DEF queue
  <2> QED BY <1>2, <1>3, <1>5, <1>7, <2>3
<1>8. ASSUME NEW w \in Waiting, w \notin Round PROVE Cardinality(Round) >= BatchLimit
  <2> SUFFICES ASSUME Cardinality(Round) < BatchLimit PROVE FALSE
    BY <1>2, <1>4
  <2>1. PICK u \in Waiting \ Round : \A v \in Waiting \ Round : ~Before(v, u)
    <3>1. Waiting \ Round \subseteq Workspaces /\ Waiting \ Round # {}
      BY <1>1, <1>8
    <3> QED BY <3>1, FirstInTurn
  <2>2. queue(u) \subseteq Round
    BY <2>1
  <2>3. Cardinality(queue(u)) <= Cardinality(Round)
    BY <1>4, <2>2, FS_Subset
  <2> HIDE DEF queue
  <2> QED BY <1>2, <1>3, <1>4, <1>5, <2>1, <2>3
<1> HIDE DEF queue
<1> QED BY <1>6, <1>7, <1>8

(* An equal share is at least a row, so a workspace in the round whose rows *)
(* are not all locked gets one: the earliest it could have.                *)
LEMMA EarliestIsSome ==
    ASSUME NEW S, S # {}, \A r \in S : r.at \in Nat, NEW n, 0 < n
    PROVE  Earliest(S, n) # {}
<1> DEFINE places == {r.at : r \in S}
<1>1. places \subseteq Nat /\ places # {}
  OBVIOUS
<1>2. PICK m \in places : \A k \in places : m <= k
  BY <1>1, LeastNumber
<1>3. PICK r \in S : m = r.at
  OBVIOUS
<1>4. ASSUME NEW q \in S PROVE ~(q.at < r.at)
  <2>1. r.at <= q.at
    BY <1>2, <1>3
  <2>2. q.at \in Nat /\ r.at \in Nat
    OBVIOUS
  <2> QED BY <2>1, <2>2
<1>5. {q \in S : q.at < r.at} = {}
  BY <1>4
<1>6. Cardinality({q \in S : q.at < r.at}) = 0
  BY <1>5, FS_EmptySet
<1>7. r \in Earliest(S, n)
  BY <1>3, <1>6 DEF Earliest
<1> QED BY <1>7

LEMMA AdmittedIsSome ==
    ASSUME NEW S, S # {}, \A r \in S : r.at \in Nat,
           NEW slots, \A r \in S : r.kind = "start" => 0 < slots
    PROVE  Admitted(S, slots) # {}
<1> DEFINE starts == {r \in S : r.kind = "start"}
<1>1. CASE S \ starts # {}
  BY <1>1 DEF Admitted
<1>2. CASE S \ starts = {}
  <2>1. starts # {} /\ (\A r \in starts : r.at \in Nat) /\ 0 < slots
    BY <1>2
  <2>2. Earliest(starts, slots) # {}
    <3> HIDE DEF starts
    <3> QED BY <2>1, EarliestIsSome
  <2> QED BY <2>2 DEF Admitted
<1> QED BY <1>1, <1>2

LEMMA ShareIsSome ==
    ASSUME cursor \in 0 .. WorkspaceCount, Round # {}
    PROVE  0 < Share(Round)
<1>1. Round \subseteq Workspaces
  BY DEF Round, Waiting
<1>2. IsFiniteSet(Round) /\ Cardinality(Round) \in Nat
  BY <1>1, WorkspacesFinite
<1>3. Cardinality(Round) # 0
  BY <1>2, FS_EmptySet
<1>4. Cardinality(Round) <= BatchLimit /\ BatchLimit \in Nat
  BY RoundSize, ClaimAssumption
<1>5. ASSUME NEW c \in Nat, NEW b \in Nat, c # 0, c <= b PROVE 0 < b \div c
  BY <1>5
<1> QED BY <1>2, <1>3, <1>4, <1>5 DEF Share

(* Where the turn stands after a claim: those before w who had their rows  *)
(* are behind it.                                                          *)
LEMMA TurnMovesOn ==
    ASSUME cursor \in 0 .. WorkspaceCount, NEW w \in Workspaces, NEW last \in Workspaces,
           Before(last, w), cursor' = last
    PROVE  \A v \in Workspaces : Before(v, w)' => Before(v, w) /\ Before(last, v)
BY ClaimAssumption DEF Before, Workspaces

(* Every claim that leaves w what it could have takes BatchLimit others    *)
(* out of its way.                                                         *)
TurnInv ==
    /\ cursor \in 0 .. WorkspaceCount
    /\ DOMAIN rows = Workspaces
    /\ \A w \in Workspaces : \A r \in rows[w] : r.at \in Nat
    /\ passed \in [Workspaces -> Nat]
    /\ \A w \in Workspaces :
          passed[w] * BatchLimit + Cardinality(Ahead(w)) <= WorkspaceCount - 1

LEMMA AheadOthers ==
    ASSUME NEW w \in Workspaces
    PROVE  /\ IsFiniteSet(Ahead(w))
           /\ Cardinality(Ahead(w)) \in Nat
           /\ Cardinality(Ahead(w)) <= WorkspaceCount - 1
<1>1. Ahead(w) \subseteq Workspaces \ {w}
  BY ClaimAssumption DEF Ahead, Before, Workspaces
<1>2. IsFiniteSet(Workspaces \ {w}) /\ Cardinality(Workspaces \ {w}) = WorkspaceCount - 1
  BY WorkspacesFinite, FS_RemoveElement
<1>3. IsFiniteSet(Ahead(w)) /\ Cardinality(Ahead(w)) <= Cardinality(Workspaces \ {w})
  BY <1>1, <1>2, FS_Subset
<1>4. Cardinality(Ahead(w)) \in Nat
  BY <1>3, FS_CardinalityType
<1> QED BY <1>2, <1>3, <1>4

LEMMA TurnInit == ClaimInit => TurnInv
<1> SUFFICES ASSUME ClaimInit PROVE TurnInv
  OBVIOUS
<1>1. cursor \in 0 .. WorkspaceCount
  BY ClaimAssumption DEF ClaimInit, NoWorkspace
<1>2. ASSUME NEW w \in Workspaces
      PROVE  passed[w] * BatchLimit + Cardinality(Ahead(w)) <= WorkspaceCount - 1
  <2>1. passed[w] * BatchLimit = 0
    BY ClaimAssumption DEF ClaimInit
  <2> QED BY <2>1, AheadOthers
<1> QED BY <1>1, <1>2 DEF ClaimInit, TurnInv

LEMMA ClaimTurn == TurnInv /\ ClaimBatch => TurnInv'
<1> SUFFICES ASSUME TurnInv, ClaimBatch PROVE TurnInv'
  OBVIOUS
<1> DEFINE share == Share(Round)
<1>1. cursor \in 0 .. WorkspaceCount /\ Round # {} /\ Round \subseteq Workspaces
  BY DEF TurnInv, ClaimBatch, Round, Waiting
<1>2. cursor' \in Round /\ \A u \in Round \ {cursor'} : Before(u, cursor')
  <2>1. \E w \in Round : \A u \in Round \ {w} : Before(u, w)
    BY <1>1, FirstInTurn
  <2>2. cursor' = CHOOSE w \in Round : \A u \in Round \ {w} : Before(u, w)
    BY DEF ClaimBatch
  <2> QED BY <2>1, <2>2
<1>3. PICK x \in Round : \E locked \in SUBSET rows[x] :
        LET Open(w) == IF w = x THEN rows[w] \ locked ELSE rows[w]
            leased == [w \in Workspaces |->
                IF w \notin Round THEN {}
                ELSE Admitted(Earliest(Eligible(w) \cap Open(w), share), free[w])]
        IN  /\ rows' = [w \in Workspaces |-> rows[w] \ leased[w]]
            /\ free' = [w \in Workspaces |->
                  free[w] - Cardinality({r \in leased[w] : r.kind = "start"})]
            /\ passed' = [w \in Workspaces |->
                  IF leased[w] # {} \/ CouldHave(w) \cap Open(w) = {}
                  THEN 0 ELSE passed[w] + 1]
  BY Zenon DEF ClaimBatch
<1>3a. PICK locked \in SUBSET rows[x] :
        LET Open(w) == IF w = x THEN rows[w] \ locked ELSE rows[w]
            leased == [w \in Workspaces |->
                IF w \notin Round THEN {}
                ELSE Admitted(Earliest(Eligible(w) \cap Open(w), share), free[w])]
        IN  /\ rows' = [w \in Workspaces |-> rows[w] \ leased[w]]
            /\ free' = [w \in Workspaces |->
                  free[w] - Cardinality({r \in leased[w] : r.kind = "start"})]
            /\ passed' = [w \in Workspaces |->
                  IF leased[w] # {} \/ CouldHave(w) \cap Open(w) = {}
                  THEN 0 ELSE passed[w] + 1]
  BY <1>3, Zenon
<1> DEFINE Open(w) == IF w = x THEN rows[w] \ locked ELSE rows[w]
<1> DEFINE leased == [w \in Workspaces |->
                IF w \notin Round THEN {}
                ELSE Admitted(Earliest(Eligible(w) \cap Open(w), share), free[w])]
<1> DEFINE had(w) == leased[w]
<1>4. /\ rows' = [w \in Workspaces |-> rows[w] \ had(w)]
      /\ passed' = [w \in Workspaces |->
            IF had(w) # {} \/ CouldHave(w) \cap Open(w) = {} THEN 0 ELSE passed[w] + 1]
  BY <1>3a, Zenon
<1>5. \A w \in Workspaces : Open(w) \subseteq rows[w]
  OBVIOUS
<1>6. ASSUME NEW w \in Round, CouldHave(w) \cap Open(w) # {} PROVE had(w) # {}
  <2> DEFINE candidates == Eligible(w) \cap Open(w)
  <2>1. CouldHave(w) = Eligible(w)
    BY DEF CouldHave, Eligible
  <2>2. candidates # {} /\ \A r \in candidates : r.at \in Nat
    BY <1>1, <1>5, <1>6, <2>1 DEF TurnInv
  <2>3. 0 < share
    BY <1>1, ShareIsSome
  <2>4. Earliest(candidates, share) # {}
    <3> HIDE DEF candidates, share
    <3> QED BY <2>2, <2>3, EarliestIsSome
  <2>5. Earliest(candidates, share) \subseteq candidates
    BY DEF Earliest
  <2>6. \A r \in candidates : r.kind = "start" => 0 < free[w]
    BY DEF Eligible
  <2>7. Admitted(Earliest(candidates, share), free[w]) # {}
    <3> DEFINE some == Earliest(candidates, share)
    <3>1. /\ some # {} /\ \A r \in some : r.at \in Nat
          /\ \A r \in some : r.kind = "start" => 0 < free[w]
      BY <2>2, <2>4, <2>5, <2>6
    <3> HIDE DEF some
    <3>2. Admitted(some, free[w]) # {}
      BY <3>1, AdmittedIsSome
    <3> QED BY <3>2 DEF some
  <2>8. leased[w] = Admitted(Earliest(candidates, share), free[w])
    <3> HIDE DEF share
    <3> QED BY <1>1
  <2> HIDE DEF share, leased
  <2> QED BY <2>7, <2>8
<1> HIDE DEF had, Open, share, leased
<1>7. cursor' \in 0 .. WorkspaceCount
  BY <1>1, <1>2, ClaimAssumption DEF Workspaces
<1>8. DOMAIN rows' = Workspaces /\ \A w \in Workspaces : \A r \in rows'[w] : r.at \in Nat
  BY <1>4 DEF TurnInv
<1>9. passed' \in [Workspaces -> Nat]
  BY <1>4 DEF TurnInv
<1>10. ASSUME NEW w \in Workspaces
       PROVE  passed'[w] * BatchLimit + Cardinality(Ahead(w)') <= WorkspaceCount - 1
  <2>1. /\ IsFiniteSet(Ahead(w)') /\ Cardinality(Ahead(w)') \in Nat
        /\ Cardinality(Ahead(w)') <= WorkspaceCount - 1
    <3>1. Ahead(w)' \subseteq Workspaces \ {w}
      BY ClaimAssumption DEF Ahead, Before, Workspaces
    <3>2. IsFiniteSet(Workspaces \ {w}) /\ Cardinality(Workspaces \ {w}) = WorkspaceCount - 1
      BY WorkspacesFinite, FS_RemoveElement
    <3>3. IsFiniteSet(Ahead(w)') /\ Cardinality(Ahead(w)') <= Cardinality(Workspaces \ {w})
      BY <3>1, <3>2, FS_Subset
    <3>4. Cardinality(Ahead(w)') \in Nat
      BY <3>3, FS_CardinalityType
    <3> QED BY <3>2, <3>3, <3>4
  <2>2. CASE had(w) # {} \/ CouldHave(w) \cap Open(w) = {}
    <3>1. passed'[w] = 0
      BY <1>4, <2>2
    <3>2. passed'[w] * BatchLimit = 0
      BY <3>1, ClaimAssumption
    <3> QED BY <2>1, <3>2
  <2>3. CASE had(w) = {} /\ CouldHave(w) \cap Open(w) # {}
    <3>1. passed'[w] = passed[w] + 1
      BY <1>4, <2>3
    <3>2. w \in Waiting \ Round
      <4>1. w \notin Round
        BY <1>6, <2>3
      <4>2. rows[w] # {}
        BY <1>5, <2>3
      <4> QED BY <4>1, <4>2 DEF Waiting
    <3>3. Cardinality(Round) >= BatchLimit /\ \A u \in Round : Before(u, w)
      BY <1>1, <3>2, RoundSize
    <3>4. Ahead(w)' \subseteq Ahead(w) /\ Ahead(w)' \cap Round = {}
      <4>1. \A v \in Workspaces : Before(v, w)' => Before(v, w) /\ Before(cursor', v)
        BY <1>1, <1>2, <3>3, TurnMovesOn
      <4>2. \A v \in Workspaces : Before(v, w)' => v \notin Round
        <5>1. \A v \in Workspaces : Before(cursor', v) => ~Before(v, cursor') /\ v # cursor'
          BY <1>1, <1>2, RankOrder, ClaimAssumption
        <5> QED BY <1>2, <4>1, <5>1
      <4> QED BY <4>1, <4>2 DEF Ahead
    <3>5. Round \subseteq Ahead(w)
      BY <1>1, <3>3 DEF Ahead
    <3>6. Cardinality(Ahead(w)') + Cardinality(Round) <= Cardinality(Ahead(w))
      <4>1. IsFiniteSet(Round) /\ Cardinality(Round) \in Nat
        BY <1>1, WorkspacesFinite
      <4>2. Cardinality(Ahead(w)' \cup Round)
              = Cardinality(Ahead(w)') + Cardinality(Round) - Cardinality(Ahead(w)' \cap Round)
        BY <2>1, <4>1, FS_Union
      <4>3. Cardinality(Ahead(w)' \cap Round) = 0
        BY <3>4, FS_EmptySet
      <4>4. Cardinality(Ahead(w)' \cup Round) <= Cardinality(Ahead(w))
        BY <3>4, <3>5, AheadOthers, FS_Subset
      <4> QED BY <2>1, <4>1, <4>2, <4>3, <4>4
    <3>7. passed'[w] * BatchLimit = passed[w] * BatchLimit + BatchLimit
      <4>1. passed[w] \in Nat /\ BatchLimit \in Nat
        BY ClaimAssumption DEF TurnInv
      <4> QED BY <3>1, <4>1
    <3>8. passed[w] * BatchLimit + Cardinality(Ahead(w)) <= WorkspaceCount - 1
      BY DEF TurnInv
    <3>9. passed[w] * BatchLimit \in Nat /\ BatchLimit \in Nat /\ WorkspaceCount \in Nat
      BY ClaimAssumption DEF TurnInv
    <3>10. Cardinality(Round) \in Nat /\ Cardinality(Ahead(w)) \in Nat
      BY <1>1, WorkspacesFinite, AheadOthers
    <3> QED BY <2>1, <3>3, <3>6, <3>7, <3>8, <3>9, <3>10
  <2> QED BY <2>2, <2>3
<1> QED BY <1>7, <1>8, <1>9, <1>10 DEF TurnInv

LEMMA TurnStep == TurnInv /\ [ClaimNext]_claimVars => TurnInv'
<1> SUFFICES ASSUME TurnInv, [ClaimNext]_claimVars PROVE TurnInv'
  OBVIOUS
<1>1. ASSUME cursor' = cursor, passed' = passed, DOMAIN rows' = Workspaces,
             \A v \in Workspaces : \A r \in rows'[v] : r.at \in Nat
      PROVE  TurnInv'
  <2>1. \A w : Ahead(w)' = Ahead(w)
    BY <1>1 DEF Ahead, Before
  <2> QED BY <1>1, <2>1 DEF TurnInv
<1>2. ASSUME NEW w \in Workspaces, NEW n \in Places(w), NEW kind,
             rows' = [rows EXCEPT ![w] = @ \cup {[at |-> n, kind |-> kind]}]
      PROVE  /\ DOMAIN rows' = Workspaces
             /\ \A v \in Workspaces : \A r \in rows'[v] : r.at \in Nat
  <2>1. n \in Nat
    BY ClaimAssumption DEF Places
  <2> QED BY <1>2, <2>1 DEF TurnInv
<1>3. ASSUME NEW w \in Workspaces, Appear(w) PROVE TurnInv'
  BY <1>1, <1>2, <1>3 DEF Appear
<1>4. ASSUME NEW w \in Workspaces, SlotFreed(w) PROVE TurnInv'
  BY <1>1, <1>4 DEF SlotFreed, TurnInv
<1>5. ASSUME NEW w \in Workspaces, LeaseLapses(w) PROVE TurnInv'
  BY <1>1, <1>2, <1>5 DEF LeaseLapses
<1>6. CASE ClaimBatch
  BY <1>6, ClaimTurn
<1>7. CASE UNCHANGED claimVars
  BY <1>1, <1>7 DEF claimVars, TurnInv
<1> QED BY <1>3, <1>4, <1>5, <1>6, <1>7 DEF ClaimNext

(* TurnComes: no workspace is left what it could have more often than the  *)
(* others before it can fill batches, for any number of workspaces, batch  *)
(* size, slots and rows (leaseFairOutboxBatch).                            *)
THEOREM EveryTurnComes == ClaimSpec => []TurnComes
<1>1. TurnInv => TurnComes
  <2> SUFFICES ASSUME TurnInv, NEW w \in Workspaces
               PROVE  passed[w] <= (WorkspaceCount - 1) \div BatchLimit
    BY DEF TurnComes
  <2>1. passed[w] \in Nat /\ Cardinality(Ahead(w)) \in Nat
    BY AheadOthers DEF TurnInv
  <2>2. passed[w] * BatchLimit + Cardinality(Ahead(w)) <= WorkspaceCount - 1
    BY DEF TurnInv
  <2>3. passed[w] * BatchLimit \in Nat
    BY <2>1, ClaimAssumption
  <2>4. passed[w] * BatchLimit <= WorkspaceCount - 1
    BY <2>1, <2>2, <2>3, ClaimAssumption
  <2>5. ASSUME NEW p \in Nat, NEW b \in Nat, b > 0, NEW n \in Nat, p * b <= n
        PROVE  p <= n \div b
    BY <2>5
  <2>6. BatchLimit \in Nat /\ BatchLimit > 0 /\ WorkspaceCount - 1 \in Nat
    BY ClaimAssumption
  <2> QED BY <2>1, <2>4, <2>5, <2>6
<1> QED BY <1>1, TurnInit, TurnStep, PTL DEF ClaimSpec

=============================================================================
