------------------------- MODULE NodeAttemptProofs -------------------------
(***************************************************************************)
(* Proofs about NodeAttempt for every number of workers, attempts, events  *)
(* and faults.  The first part is type correctness; the second is that an  *)
(* unsafe side effect is made at most once.                                *)
(***************************************************************************)
EXTENDS NodeAttempt, TLAPS

-----------------------------------------------------------------------------
(* Type correctness.  Two facts the types do not say are needed: the       *)
(* node's current attempt was admitted, and a worker that reports holds an *)
(* outcome.                                                                *)

CurrentAdmitted == attempt[node.current].status # "absent"
ReportHasOutcome ==
    \A w \in Workers :
        worker[w].phase = "reporting" => worker[w].outcome.status # "none"

TypeInv == TypeOK /\ CurrentAdmitted /\ ReportHasOutcome

(* The rows and memory the actions write are records of their types.       *)
LEMMA RowTypes ==
    /\ 1 \in Numbers
    /\ 1 \in Events
    /\ NoOutcome \in Outcomes
    /\ \A status \in Settled \union {"suspended"} : Plain(status) \in Outcomes
    /\ \A kind \in FailureKinds, possibly \in BOOLEAN :
          Failure(kind, possibly) \in Outcomes
    /\ Absent \in AttemptRecord
    /\ \A resume \in BOOLEAN : Admitted(resume) \in AttemptRecord
    /\ NoEvent \in OutboxRecord
    /\ \A n \in Numbers : Pending(n) \in OutboxRecord
    /\ Idle \in WorkerRecord
<1>1. 1 \in Numbers /\ 1 \in Events
  BY BoundsAssumption DEF Numbers, LastNumber, Events
<1>2. /\ NoOutcome \in Outcomes
      /\ \A status \in Settled \union {"suspended"} : Plain(status) \in Outcomes
      /\ \A kind \in FailureKinds, possibly \in BOOLEAN :
            Failure(kind, possibly) \in Outcomes
  BY DEF NoOutcome, Plain, Failure, Outcomes, FailureKinds
<1>3. Absent \in AttemptRecord
  BY <1>2, StepAssumption DEF Absent, AttemptRecord, AttemptStatuses
<1>4. \A resume \in BOOLEAN : Admitted(resume) \in AttemptRecord
  BY <1>3 DEF Admitted, AttemptRecord, AttemptStatuses, Open
<1>5. NoEvent \in OutboxRecord
  BY <1>1 DEF NoEvent, OutboxRecord
<1>6. \A n \in Numbers : Pending(n) \in OutboxRecord
  BY DEF Pending, OutboxRecord
<1>7. Idle \in WorkerRecord
  BY <1>1, <1>2 DEF Idle, WorkerRecord, Phases
<1> QED
  BY <1>1, <1>2, <1>3, <1>4, <1>5, <1>6, <1>7

(* What a row becomes when one or a few of its fields change.              *)
LEMMA AttemptUpdate ==
    ASSUME NEW r \in AttemptRecord
    PROVE  /\ [r EXCEPT !.marked = TRUE] \in AttemptRecord
           /\ \A status \in AttemptStatuses :
                 [r EXCEPT !.status = status, !.owner = NoWorker, !.live = FALSE]
                    \in AttemptRecord
           /\ \A status \in AttemptStatuses, outcome \in Outcomes,
                 decision \in {"none", "pending"} :
                 [r EXCEPT !.status = status, !.owner = NoWorker, !.live = FALSE,
                           !.result = outcome, !.decision = decision]
                    \in AttemptRecord
           /\ \A w \in Workers, fence \in Nat :
                 [r EXCEPT !.status = "running", !.owner = w, !.live = TRUE,
                           !.fence = fence] \in AttemptRecord
<1>1. TRUE \in BOOLEAN /\ FALSE \in BOOLEAN
  OBVIOUS
<1>2. [r EXCEPT !.marked = TRUE] \in AttemptRecord
  BY <1>1 DEF AttemptRecord
<1>3. ASSUME NEW status \in AttemptStatuses
      PROVE  [r EXCEPT !.status = status, !.owner = NoWorker, !.live = FALSE]
                \in AttemptRecord
  BY <1>1 DEF AttemptRecord
<1>4. ASSUME NEW status \in AttemptStatuses, NEW outcome \in Outcomes,
             NEW decision \in {"none", "pending"}
      PROVE  [r EXCEPT !.status = status, !.owner = NoWorker, !.live = FALSE,
                       !.result = outcome, !.decision = decision]
                \in AttemptRecord
  BY <1>1 DEF AttemptRecord
<1>5. ASSUME NEW w \in Workers, NEW fence \in Nat
      PROVE  [r EXCEPT !.status = "running", !.owner = w, !.live = TRUE,
                       !.fence = fence] \in AttemptRecord
  <2>1. "running" \in AttemptStatuses
    BY DEF AttemptStatuses, Open
  <2> QED
    BY <1>1, <2>1 DEF AttemptRecord
<1> QED
  BY <1>2, <1>3, <1>4, <1>5

LEMMA TypeInit == Init => TypeInv
<1> SUFFICES ASSUME Init PROVE TypeInv
  OBVIOUS
<1>1. attempt \in [Numbers -> AttemptRecord]
  BY RowTypes DEF Init
<1>2. node \in NodeRecord
  BY RowTypes DEF Init, NodeRecord, NodeStatuses
<1>3. /\ outbox \in [Events -> OutboxRecord]
      /\ receipt \in [Events -> {"none", "incomplete", "complete"}]
      /\ queue \in SUBSET Events
  BY RowTypes DEF Init
<1>4. worker \in [Workers -> WorkerRecord] /\ effects \in [Numbers -> Nat]
  BY RowTypes DEF Init
<1>5. /\ run \in RunStatuses
      /\ cancelRequested \in BOOLEAN /\ deadlineExpired \in BOOLEAN
      /\ deadlineWoken \in BOOLEAN /\ wake \in BOOLEAN
  BY Zenon DEF Init, RunStatuses
<1>6. /\ revision \in Nat
      /\ faults \in 0 .. MaxFaults /\ losses \in 0 .. MaxLosses
  BY BoundsAssumption DEF Init
<1>7. CurrentAdmitted
  BY RowTypes DEF Init, CurrentAdmitted, Admitted, Absent
<1>8. ReportHasOutcome
  BY DEF Init, ReportHasOutcome, Idle
<1> QED
  BY <1>1, <1>2, <1>3, <1>4, <1>5, <1>6, <1>7, <1>8 DEF TypeInv, TypeOK

Flags ==
    /\ cancelRequested \in BOOLEAN
    /\ deadlineExpired \in BOOLEAN
    /\ deadlineWoken \in BOOLEAN
    /\ wake \in BOOLEAN
Rows ==
    /\ attempt \in [Numbers -> AttemptRecord]
    /\ node \in NodeRecord
    /\ run \in RunStatuses
    /\ revision \in Nat
    /\ outbox \in [Events -> OutboxRecord]
    /\ receipt \in [Events -> {"none", "incomplete", "complete"}]
    /\ queue \in SUBSET Events
    /\ worker \in [Workers -> WorkerRecord]
    /\ effects \in [Numbers -> Nat]
    /\ faults \in 0 .. MaxFaults
    /\ losses \in 0 .. MaxLosses
Facts == CurrentAdmitted /\ ReportHasOutcome

LEMMA TypeParts ==
    /\ TypeInv <=> Flags /\ Rows /\ Facts
    /\ TypeInv' <=> Flags' /\ Rows' /\ Facts'
BY Zenon DEF TypeInv, TypeOK, Flags, Rows, Facts

LEMMA TransportTypes ==
    ASSUME TypeInv, NEW e \in Events,
           \/ Publish(e) \/ FailPublication(e) \/ LoseJob(e)
           \/ SettleOverdueDelivery(e) \/ ReplaceFailedJob(e)
    PROVE  TypeInv'
<1>1. Flags'
  BY TypeParts, Zenon
     DEF Flags, Publish, FailPublication, LoseJob, SettleOverdueDelivery,
         ReplaceFailedJob, runVars
<1>2. Facts'
  BY TypeParts, Zenon
     DEF Facts, CurrentAdmitted, ReportHasOutcome, Publish, FailPublication,
         LoseJob, SettleOverdueDelivery, ReplaceFailedJob
<1>3. outbox' \in [Events -> OutboxRecord]
  <2>1. outbox \in [Events -> OutboxRecord] /\ e \in Events
    BY TypeParts DEF Rows
  <2>2. CASE Publish(e) \/ LoseJob(e)
    BY <2>1, <2>2 DEF Publish, LoseJob, OutboxRecord
  <2>3. CASE FailPublication(e)
    BY <2>1, <2>3 DEF FailPublication, OutboxRecord
  <2>4. CASE SettleOverdueDelivery(e)
    <3>1. outbox[e] \in OutboxRecord /\ FALSE \in BOOLEAN
      BY <2>1
    <3>2. /\ [outbox[e] EXCEPT !.due = FALSE] \in OutboxRecord
          /\ [outbox[e] EXCEPT !.state = "pending", !.due = FALSE] \in OutboxRecord
          /\ [outbox[e] EXCEPT !.state = "failed"] \in OutboxRecord
      BY <3>1 DEF OutboxRecord
    <3>3. \/ outbox' = [outbox EXCEPT ![e] = [outbox[e] EXCEPT !.due = FALSE]]
          \/ outbox' = [outbox EXCEPT ![e] =
                          [outbox[e] EXCEPT !.state = "pending", !.due = FALSE]]
          \/ outbox' = [outbox EXCEPT ![e] = [outbox[e] EXCEPT !.state = "failed"]]
      BY <2>1, <2>4 DEF SettleOverdueDelivery
    <3> QED
      BY <2>1, <3>2, <3>3
  <2>5. CASE ReplaceFailedJob(e)
    <3> DEFINE n == outbox[e].number
               dropped == [outbox EXCEPT ![e].due = FALSE]
    <3>1. dropped \in [Events -> OutboxRecord]
      BY <2>1 DEF OutboxRecord
    <3>2. Pending(n) \in OutboxRecord
      BY <2>1, RowTypes DEF OutboxRecord
    <3> HIDE DEF dropped
    <3>3. outbox' = dropped
            \/ \E f \in Events : outbox' = [dropped EXCEPT ![f] = Pending(n)]
      BY <2>5 DEF ReplaceFailedJob, FreeEvents, dropped
    <3> QED
      BY <3>1, <3>2, <3>3
  <2> QED
    BY <2>2, <2>3, <2>4, <2>5
<1>4. queue' \in SUBSET Events /\ losses' \in 0 .. MaxLosses
  BY TypeParts, BoundsAssumption
     DEF Rows, Publish, FailPublication, LoseJob, SettleOverdueDelivery,
         ReplaceFailedJob, Loss, bounds
<1>5. UNCHANGED <<attempt, node, run, revision, receipt, worker, effects, faults>>
  BY Zenon
     DEF Publish, FailPublication, LoseJob, SettleOverdueDelivery,
         ReplaceFailedJob, runVars, bounds
<1> QED
  BY <1>1, <1>2, <1>3, <1>4, <1>5, TypeParts DEF Rows

(* A worker that reports, moves on or lets go holds a typed memory.        *)
LEMMA HoldUpdate ==
    ASSUME TypeInv, NEW w \in Workers,
           \/ \E outcome \in Outcomes :
                 outcome.status # "none" /\ Reporting(w, outcome)
           \/ \E phase \in Phases \ {"reporting"} : InPhase(w, phase)
           \/ LetGo(w)
    PROVE  worker' \in [Workers -> WorkerRecord] /\ ReportHasOutcome'
<1>1. worker \in [Workers -> WorkerRecord] /\ ReportHasOutcome
  BY TypeParts DEF Rows, Facts
<1>2. CASE \E outcome \in Outcomes :
              outcome.status # "none" /\ Reporting(w, outcome)
  <2>1. PICK outcome \in Outcomes :
            outcome.status # "none" /\ Reporting(w, outcome)
    BY <1>2
  <2>2. worker' \in [Workers -> WorkerRecord]
    <3>1. worker[w] \in WorkerRecord /\ "reporting" \in Phases
      BY <1>1 DEF Phases
    <3>2. [worker[w] EXCEPT !.phase = "reporting", !.outcome = outcome]
             \in WorkerRecord
      BY <3>1 DEF WorkerRecord
    <3>3. worker' = [worker EXCEPT ![w] =
             [worker[w] EXCEPT !.phase = "reporting", !.outcome = outcome]]
      BY <1>1, <2>1 DEF Reporting
    <3> QED
      BY <1>1, <3>2, <3>3
  <2>3. \A v \in Workers : worker'[v] =
           IF v = w
           THEN [worker[w] EXCEPT !.phase = "reporting", !.outcome = outcome]
           ELSE worker[v]
    BY <1>1, <2>1 DEF Reporting
  <2>4. worker'[w].outcome = outcome
    BY <1>1, <2>3 DEF WorkerRecord
  <2> QED
    BY <1>1, <2>1, <2>2, <2>3, <2>4 DEF ReportHasOutcome
<1>3. CASE \E phase \in Phases \ {"reporting"} : InPhase(w, phase)
  BY <1>1, <1>3 DEF InPhase, ReportHasOutcome, WorkerRecord
<1>4. CASE LetGo(w)
  BY <1>1, <1>4, RowTypes DEF LetGo, ReportHasOutcome, Idle
<1> QED
  BY <1>2, <1>3, <1>4

(* The outcomes a worker can report.                                       *)
LEMMA ReportedOutcomes ==
    ASSUME TypeInv, NEW w \in Workers
    PROVE  /\ AbortReason # "none" =>
                 \A dispatched \in BOOLEAN :
                    ControlOutcome(AbortReason, dispatched)
                       \in {Plain(status) : status \in Settled}
           /\ Ambiguous(w) \in Outcomes
           /\ Ambiguous(w).status # "none"
           /\ \A kind \in {"retry", "failed"} :
                 /\ Definite(w, kind) \in Outcomes
                 /\ Definite(w, kind).status # "none"
           /\ \A status \in Settled \union {"suspended"} :
                 Plain(status) \in Outcomes /\ Plain(status).status # "none"
           /\ \A kind \in FailureKinds, possibly \in BOOLEAN :
                 /\ Failure(kind, possibly) \in Outcomes
                 /\ Failure(kind, possibly).status # "none"
<1>1. AbortReason # "none" => AbortReason \in Settled
  BY DEF AbortReason, Settled
<1>2. \A status \in Settled \union {"suspended"} :
         Plain(status) \in Outcomes /\ Plain(status).status # "none"
  BY RowTypes DEF Plain, Settled
<1>3. \A kind \in FailureKinds, possibly \in BOOLEAN :
         /\ Failure(kind, possibly) \in Outcomes
         /\ Failure(kind, possibly).status # "none"
  BY RowTypes DEF Failure
<1>4. ASSUME AbortReason # "none", NEW dispatched \in BOOLEAN
      PROVE  ControlOutcome(AbortReason, dispatched)
                \in {Plain(status) : status \in Settled}
  BY <1>1, <1>4 DEF ControlOutcome, Settled
<1>5. /\ Ambiguous(w) \in Outcomes /\ Ambiguous(w).status # "none"
      /\ \A kind \in {"retry", "failed"} :
            /\ Definite(w, kind) \in Outcomes
            /\ Definite(w, kind).status # "none"
  BY <1>3 DEF Ambiguous, Definite, FailureKinds
<1> QED
  BY <1>2, <1>3, <1>4, <1>5

(* The steps of a worker that touch nothing but its memory.                *)
LEMMA MemoryTypes ==
    ASSUME TypeInv, NEW w \in Workers,
           \/ LoadInputs(w) \/ EndWithoutDispatch(w) \/ MarkRefused(w)
           \/ Return(w) \/ HeartbeatAbort(w) \/ CompleteRefused(w)
    PROVE  TypeInv'
<1>1. UNCHANGED onlyWorker
  BY Zenon
     DEF LoadInputs, EndWithoutDispatch, MarkRefused, Return, HeartbeatAbort,
         CompleteRefused
<1>2. /\ worker[w].unresolved \in BOOLEAN
      /\ \A status \in Settled : Plain(status) \in Outcomes
                                  /\ Plain(status).status # "none"
  BY TypeParts, ReportedOutcomes DEF Rows, WorkerRecord
<1>3. \/ \E outcome \in Outcomes :
            outcome.status # "none" /\ Reporting(w, outcome)
      \/ \E phase \in Phases \ {"reporting"} : InPhase(w, phase)
      \/ LetGo(w)
  <2>1. CASE LoadInputs(w)
    BY <2>1, <1>2, ReportedOutcomes DEF LoadInputs, Phases, Settled
  <2>2. CASE EndWithoutDispatch(w)
    BY <2>2, ReportedOutcomes DEF EndWithoutDispatch, Settled, FailureKinds
  <2>3. CASE MarkRefused(w)
    BY <2>3, <1>2, ReportedOutcomes DEF MarkRefused, Phases
  <2>4. CASE Return(w)
    BY <2>4, ReportedOutcomes DEF Return, Settled
  <2>5. CASE HeartbeatAbort(w)
    BY <2>5, <1>2, ReportedOutcomes DEF HeartbeatAbort
  <2>6. CASE CompleteRefused(w)
    BY <2>6 DEF CompleteRefused
  <2> QED
    BY <2>1, <2>2, <2>3, <2>4, <2>5, <2>6
<1>4. worker' \in [Workers -> WorkerRecord] /\ ReportHasOutcome'
  BY <1>3, HoldUpdate
<1> QED
  BY <1>1, <1>4, TypeParts
     DEF onlyWorker, runVars, bounds, Flags, Rows, Facts, CurrentAdmitted

LEMMA ClaimTypes ==
    ASSUME TypeInv, NEW w \in Workers, NEW e \in Events, ClaimDelivery(w, e)
    PROVE  TypeInv'
<1> DEFINE n == outbox[e].number
<1>1. /\ n \in Numbers /\ revision \in Nat
      /\ attempt \in [Numbers -> AttemptRecord] /\ node \in NodeRecord
      /\ worker \in [Workers -> WorkerRecord]
      /\ receipt \in [Events -> {"none", "incomplete", "complete"}]
      /\ CurrentAdmitted /\ ReportHasOutcome
  BY TypeParts DEF Rows, Facts, OutboxRecord
<1>2. UNCHANGED <<runVars, wake, revision, outbox, queue, effects, bounds>>
  BY DEF ClaimDelivery
<1>3. /\ receipt' \in [Events -> {"none", "incomplete", "complete"}]
      /\ attempt' \in [Numbers -> AttemptRecord] /\ node' \in NodeRecord
      /\ worker' \in [Workers -> WorkerRecord]
      /\ CurrentAdmitted' /\ ReportHasOutcome'
  <2>1. CASE ClaimSettled(w, e) \/ ClaimRunning(w, e)
    <3>1. UNCHANGED <<attempt, node, worker>>
      BY <2>1 DEF ClaimSettled, ClaimRunning
    <3>2. receipt' \in [Events -> {"none", "incomplete", "complete"}]
      BY <1>1, <2>1 DEF ClaimSettled, ClaimRunning
    <3> QED
      BY <1>1, <3>1, <3>2 DEF CurrentAdmitted, ReportHasOutcome
  <2>2. CASE ClaimReady(w, e)
    <3>1. receipt' \in [Events -> {"none", "incomplete", "complete"}]
      BY <1>1, <2>2 DEF ClaimReady
    <3>2. node' \in NodeRecord /\ node'.current = node.current
      BY <1>1, <2>2 DEF ClaimReady, NodeRecord, NodeStatuses
    <3>3. /\ attempt' \in [Numbers -> AttemptRecord]
          /\ attempt'[n].status = "running"
          /\ \A m \in Numbers \ {n} : attempt'[m] = attempt[m]
      <4> DEFINE claimed ==
            [attempt[n] EXCEPT !.status = "running", !.owner = w, !.live = TRUE,
                               !.fence = attempt[n].fence + 1]
      <4>1. attempt[n] \in AttemptRecord /\ attempt[n].fence + 1 \in Nat
        BY <1>1 DEF AttemptRecord
      <4>2. claimed \in AttemptRecord
        BY <4>1, AttemptUpdate
      <4>3. claimed.status = "running"
        BY <4>1 DEF AttemptRecord
      <4>4. attempt' = [attempt EXCEPT ![n] = claimed]
        BY <1>1, <2>2 DEF ClaimReady
      <4> HIDE DEF claimed
      <4> QED
        BY <1>1, <4>2, <4>3, <4>4
    <3>4. Unresolved(n) \in BOOLEAN
      BY <1>1 DEF Unresolved, PriorDispatchUnresolved, AttemptRecord
    <3>5. worker' \in [Workers -> WorkerRecord] /\ ReportHasOutcome'
      BY <1>1, <2>2, <3>4, RowTypes
         DEF ClaimReady, WorkerRecord, AttemptRecord, Phases, ReportHasOutcome
    <3>6. CurrentAdmitted'
      BY <1>1, <3>2, <3>3 DEF CurrentAdmitted, NodeRecord
    <3> QED
      BY <3>1, <3>2, <3>3, <3>5, <3>6
  <2> QED
    BY <2>1, <2>2 DEF ClaimDelivery
<1> QED
  BY <1>2, <1>3, TypeParts DEF runVars, bounds, Flags, Rows, Facts

LEMMA DispatchTypes ==
    ASSUME TypeInv, NEW w \in Workers, MarkDispatched(w) \/ Send(w)
    PROVE  TypeInv'
<1>1. /\ worker \in [Workers -> WorkerRecord] /\ worker[w].number \in Numbers
      /\ attempt \in [Numbers -> AttemptRecord] /\ effects \in [Numbers -> Nat]
      /\ node \in NodeRecord /\ CurrentAdmitted
  BY TypeParts DEF Rows, Facts, WorkerRecord
<1>2. worker' \in [Workers -> WorkerRecord] /\ ReportHasOutcome'
  BY HoldUpdate DEF MarkDispatched, Send, Phases
<1>3. /\ UNCHANGED <<node, runVars, wake, revision, outbox, receipt, queue,
                     bounds>>
      /\ attempt' = attempt
           \/ attempt' = [attempt EXCEPT ![worker[w].number].marked = TRUE]
  BY DEF MarkDispatched, Send
<1>4. /\ attempt' \in [Numbers -> AttemptRecord]
      /\ \A n \in Numbers : attempt'[n].status = attempt[n].status
  <2>1. CASE attempt' = attempt
    BY <1>1, <2>1
  <2>2. CASE attempt' = [attempt EXCEPT ![worker[w].number].marked = TRUE]
    <3> DEFINE m == worker[w].number
               marked == [attempt[m] EXCEPT !.marked = TRUE]
    <3>1. marked \in AttemptRecord /\ marked.status = attempt[m].status
      <4>1. attempt[m] \in AttemptRecord
        BY <1>1
      <4> QED BY <4>1 DEF AttemptRecord
    <3>2. attempt' = [attempt EXCEPT ![m] = marked]
      BY <2>2, Zenon
    <3> HIDE DEF marked
    <3> QED
      BY <1>1, <3>1, <3>2
  <2> QED
    BY <1>3, <2>1, <2>2
<1>5. effects' \in [Numbers -> Nat]
  BY <1>1 DEF MarkDispatched, Send
<1>6. CurrentAdmitted'
  BY <1>1, <1>3, <1>4 DEF CurrentAdmitted, NodeRecord
<1> QED
  BY <1>2, <1>3, <1>4, <1>5, <1>6, TypeParts
     DEF runVars, bounds, Flags, Rows, Facts

LEMMA CompleteTypes ==
    ASSUME TypeInv, NEW w \in Workers,
           CompleteDuplicate(w) \/ CompleteCommit(w) \/ Crash(w)
    PROVE  TypeInv'
<1>1. /\ worker \in [Workers -> WorkerRecord] /\ worker[w] \in WorkerRecord
      /\ attempt \in [Numbers -> AttemptRecord] /\ node \in NodeRecord
      /\ receipt \in [Events -> {"none", "incomplete", "complete"}]
      /\ CurrentAdmitted /\ ReportHasOutcome
      /\ worker[w].number \in Numbers /\ worker[w].event \in Events
      /\ worker[w].outcome \in Outcomes
      /\ faults \in 0 .. MaxFaults
  BY TypeParts DEF Rows, Facts, WorkerRecord
<1>2. worker' \in [Workers -> WorkerRecord] /\ ReportHasOutcome'
  <2>1. LetGo(w) \/ UNCHANGED worker
    BY DEF CompleteDuplicate, CompleteCommit, Crash
  <2> QED
    BY <2>1, <1>1, HoldUpdate DEF ReportHasOutcome
<1>3. CASE CompleteDuplicate(w)
  <2>1. receipt' \in [Events -> {"none", "incomplete", "complete"}]
    BY <1>1, <1>3 DEF CompleteDuplicate
  <2>2. UNCHANGED <<attempt, node, runVars, wake, revision, outbox, queue,
                    effects, bounds>>
    BY <1>3 DEF CompleteDuplicate
  <2> QED
    BY <2>1, <2>2, <1>1, <1>2, TypeParts
       DEF runVars, bounds, Flags, Rows, Facts, CurrentAdmitted
<1>4. CASE CompleteCommit(w)
  <2> DEFINE n == worker[w].number
             outcome == worker[w].outcome
  <2>1. receipt' \in [Events -> {"none", "incomplete", "complete"}]
    BY <1>1, <1>4 DEF CompleteCommit
  <2>2. /\ outcome.status # "none"
        /\ outcome.status \in Settled \union {"suspended", "executor_failure"}
        /\ DurableStatus(outcome) \in Settled
    BY <1>1, <1>4
       DEF CompleteCommit, ReportHasOutcome, Outcomes, DurableStatus, Settled
  <2>3. /\ attempt' \in [Numbers -> AttemptRecord]
        /\ attempt'[n].status = DurableStatus(outcome)
        /\ \A m \in Numbers \ {n} : attempt'[m] = attempt[m]
    <3> DEFINE decision ==
                 IF outcome.status = "executor_failure" THEN "pending" ELSE "none"
               settled ==
                 [attempt[n] EXCEPT
                    !.status = DurableStatus(outcome), !.owner = NoWorker,
                    !.live = FALSE, !.result = outcome, !.decision = decision]
    <3>1. /\ attempt[n] \in AttemptRecord /\ outcome \in Outcomes
          /\ DurableStatus(outcome) \in AttemptStatuses
          /\ decision \in {"none", "pending"}
      BY <1>1, <2>2 DEF AttemptStatuses
    <3>2. attempt' = [attempt EXCEPT ![n] = settled]
      BY <1>1, <1>4 DEF CompleteCommit
    <3> HIDE DEF decision
    <3>3. settled \in AttemptRecord
      BY <3>1, AttemptUpdate
    <3>4. settled.status = DurableStatus(outcome)
      BY <3>1 DEF AttemptRecord
    <3> HIDE DEF settled
    <3> QED
      BY <1>1, <3>2, <3>3, <3>4
  <2>4. node' \in NodeRecord /\ node'.current = node.current
    BY <1>1, <1>4, <2>2 DEF CompleteCommit, NodeRecord, NodeStatuses
  <2>5. CurrentAdmitted'
    BY <1>1, <2>2, <2>3, <2>4 DEF CurrentAdmitted, NodeRecord, Settled
  <2>6. wake' = TRUE
        /\ UNCHANGED <<runVars, revision, outbox, queue, effects, bounds>>
    BY <1>4 DEF CompleteCommit
  <2> QED
    BY <2>1, <2>3, <2>4, <2>5, <2>6, <1>2, TypeParts
       DEF runVars, bounds, Flags, Rows, Facts
<1>5. CASE Crash(w)
  <2>1. /\ UNCHANGED <<attempt, node, runVars, wake, revision, outbox, receipt,
                       queue, effects, losses>>
        /\ faults' \in 0 .. MaxFaults
    BY <1>1, <1>5, BoundsAssumption DEF Crash, Fault
  <2> QED
    BY <2>1, <1>1, <1>2, TypeParts
       DEF runVars, Flags, Rows, Facts, CurrentAdmitted
<1> QED
  BY <1>3, <1>4, <1>5

LEMMA EnqueueTypes ==
    ASSUME TypeInv, NEW n \in Numbers, EnqueueAttempt(n)
    PROVE  outbox' \in [Events -> OutboxRecord]
BY TypeParts, RowTypes DEF Rows, EnqueueAttempt, FreeEvents

LEMMA RecoveryTypes ==
    ASSUME TypeInv, NEW n \in Numbers,
           LeaseLapse(n) \/ Reclaim(n) \/ SettleUnknown(n)
    PROVE  TypeInv'
<1>1. /\ attempt \in [Numbers -> AttemptRecord] /\ node \in NodeRecord
      /\ CurrentAdmitted /\ faults \in 0 .. MaxFaults
  BY TypeParts DEF Rows, Facts
<1>2. UNCHANGED <<runVars, revision, receipt, queue, worker, effects, losses>>
  BY DEF LeaseLapse, Reclaim, SettleUnknown, bounds
<1>3. /\ attempt' \in [Numbers -> AttemptRecord]
      /\ attempt'[n].status # "absent"
      /\ \A m \in Numbers \ {n} : attempt'[m] = attempt[m]
  <2>1. CASE LeaseLapse(n)
    BY <1>1, <2>1 DEF LeaseLapse, AttemptRecord
  <2>2. CASE Reclaim(n)
    BY <1>1, <2>2, StepAssumption
       DEF Reclaim, AttemptRecord, AttemptStatuses, Open
  <2>3. CASE SettleUnknown(n)
    BY <1>1, <2>3, StepAssumption
       DEF SettleUnknown, AttemptRecord, AttemptStatuses, Settled
  <2> QED
    BY <2>1, <2>2, <2>3
<1>4. node' \in NodeRecord /\ node'.current = node.current
  <2>1. CASE LeaseLapse(n)
    BY <1>1, <2>1 DEF LeaseLapse
  <2>2. CASE Reclaim(n)
    BY <1>1, <2>2 DEF Reclaim, NodeRecord, NodeStatuses
  <2>3. CASE SettleUnknown(n)
    BY <1>1, <2>3 DEF SettleUnknown, NodeRecord, NodeStatuses, Settled
  <2> QED
    BY <2>1, <2>2, <2>3
<1>5. outbox' \in [Events -> OutboxRecord]
  <2>1. CASE LeaseLapse(n) \/ SettleUnknown(n)
    BY <2>1, TypeParts DEF LeaseLapse, SettleUnknown, Rows
  <2>2. CASE Reclaim(n)
    BY <2>2, EnqueueTypes DEF Reclaim
  <2> QED
    BY <2>1, <2>2
<1>6. faults' \in 0 .. MaxFaults
  BY <1>1, BoundsAssumption
     DEF LeaseLapse, Reclaim, SettleUnknown, Fault, bounds
<1>7. wake' = TRUE \/ wake' = wake
  BY DEF LeaseLapse, Reclaim, SettleUnknown
<1>8. CurrentAdmitted'
  BY <1>1, <1>3, <1>4 DEF CurrentAdmitted, NodeRecord
<1> QED
  BY <1>2, <1>3, <1>4, <1>5, <1>6, <1>7, <1>8, TypeParts
     DEF runVars, Flags, Rows, Facts, ReportHasOutcome

LEMMA ControlTypes ==
    ASSUME TypeInv,
           \/ Cancel \/ DeadlinePasses \/ ClaimDueDeadline \/ TimerDue
           \/ ClaimDueWakeup \/ AdvanceEnded
    PROVE  TypeInv'
<1>1. UNCHANGED <<attempt, run, revision, outbox, receipt, queue, worker,
                  effects, bounds>>
  BY Zenon
     DEF Cancel, DeadlinePasses, ClaimDueDeadline, TimerDue, ClaimDueWakeup,
         AdvanceEnded, runVars
<1>2. Flags'
  BY TypeParts, Zenon
     DEF Flags, Cancel, DeadlinePasses, ClaimDueDeadline, TimerDue,
         ClaimDueWakeup, AdvanceEnded, runVars
<1>3. node' \in NodeRecord /\ node'.current = node.current
  BY TypeParts
     DEF Rows, NodeRecord, Cancel, DeadlinePasses, ClaimDueDeadline, TimerDue,
         ClaimDueWakeup, AdvanceEnded
<1> QED
  BY <1>1, <1>2, <1>3, TypeParts
     DEF bounds, Rows, Facts, CurrentAdmitted, ReportHasOutcome

LEMMA AdvanceTypes ==
    ASSUME TypeInv, Advance
    PROVE  TypeInv'
<1>1. /\ attempt \in [Numbers -> AttemptRecord] /\ node \in NodeRecord
      /\ outbox \in [Events -> OutboxRecord]
      /\ run \in RunStatuses /\ revision \in Nat /\ node.current \in Numbers
      /\ CurrentAdmitted
  BY TypeParts DEF Rows, Facts, NodeRecord
<1>2. /\ UNCHANGED <<cancelRequested, deadlineExpired, deadlineWoken, receipt,
                     queue, worker, effects, faults, losses>>
      /\ wake' = FALSE /\ revision' \in Nat
  BY <1>1 DEF Advance, NoChange, bounds
<1>3. \A status \in Settled : TerminalRunStatus(status) \in RunStatuses
  BY DEF TerminalRunStatus, AbortReason, RunStatuses, Settled
<1>4. /\ attempt' \in [Numbers -> AttemptRecord] /\ node' \in NodeRecord
      /\ outbox' \in [Events -> OutboxRecord] /\ run' \in RunStatuses
      /\ CurrentAdmitted'
  <2>1. CASE DecideFailure
    <3> DEFINE n == node.current
    <3>1. FailureDecision(n) \in Settled \union {"retry"}
      BY DEF FailureDecision, AbortReason, Settled
    <3>2. /\ attempt' \in [Numbers -> AttemptRecord]
          /\ attempt'[n].status = attempt[n].status
      BY <1>1, <2>1, <3>1 DEF DecideFailure, AttemptRecord
    <3>3. /\ node' \in NodeRecord /\ node'.current = n
          /\ run' \in RunStatuses
      BY <1>1, <1>3, <2>1, <3>1
         DEF DecideFailure, NodeRecord, NodeStatuses
    <3> QED
      BY <1>1, <2>1, <3>2, <3>3 DEF DecideFailure, CurrentAdmitted
  <2>2. CASE StopWaiting
    <3>1. AbortReason \in Settled
      BY <2>2 DEF StopWaiting, AbortReason, Settled
    <3> QED
      BY <1>1, <1>3, <2>2, <3>1
         DEF StopWaiting, NodeRecord, NodeStatuses, CurrentAdmitted
  <2>3. CASE Resume
    <3> DEFINE n == node.current + 1
    <3>1. n \in Numbers
      BY <2>3 DEF Resume
    <3>2. /\ attempt' \in [Numbers -> AttemptRecord]
          /\ attempt'[n].status = "ready"
      <4>1. Admitted(node.wait = "node_wait") \in AttemptRecord
        BY RowTypes
      <4>2. Admitted(node.wait = "node_wait").status = "ready"
        BY DEF Admitted, Absent
      <4> QED
        BY <1>1, <2>3, <3>1, <4>1, <4>2 DEF Resume
    <3>3. node' \in NodeRecord /\ node'.current = n
      BY <1>1, <2>3, <3>1 DEF Resume, NodeRecord, NodeStatuses
    <3>4. outbox' \in [Events -> OutboxRecord] /\ run' = run
      BY <2>3, <3>1, EnqueueTypes DEF Resume
    <3> QED
      BY <1>1, <3>2, <3>3, <3>4 DEF CurrentAdmitted
  <2>4. CASE FinishRun
    BY <1>1, <1>3, <2>4 DEF FinishRun, CurrentAdmitted
  <2>5. CASE ConsumeFacts
    BY <1>1, <2>5 DEF ConsumeFacts, CurrentAdmitted
  <2> QED
    BY <2>1, <2>2, <2>3, <2>4, <2>5 DEF Advance, NoChange
<1> QED
  BY <1>2, <1>4, TypeParts DEF Flags, Rows, Facts, ReportHasOutcome

LEMMA CloseRunTypes ==
    ASSUME TypeInv, CloseRun
    PROVE  /\ attempt' \in [Numbers -> AttemptRecord]
           /\ node' \in NodeRecord
           /\ run' \in RunStatuses
           /\ revision' \in Nat
           /\ CurrentAdmitted'
<1>1. /\ attempt \in [Numbers -> AttemptRecord] /\ node \in NodeRecord
      /\ node.current \in Numbers /\ revision \in Nat /\ CurrentAdmitted
  BY TypeParts DEF Rows, Facts, NodeRecord
<1>2. ASSUME NEW n \in Numbers
      PROVE  /\ EmergencyAttempt(n) \in AttemptRecord
             /\ attempt[n].status # "absent" =>
                   EmergencyAttempt(n).status \in Settled
  <2>1. CASE attempt[n].status \in Open
    <3> DEFINE status == IF Class # "safe" /\ attempt[n].marked
                         THEN "outcome_unknown" ELSE "canceled"
               closed == [attempt[n] EXCEPT
                            !.status = status, !.owner = NoWorker, !.live = FALSE]
    <3>1. attempt[n] \in AttemptRecord
      BY <1>1
    <3>2. status \in Settled /\ status \in AttemptStatuses
      BY DEF Settled, AttemptStatuses
    <3>3. EmergencyAttempt(n) = closed
      BY <2>1 DEF EmergencyAttempt
    <3> HIDE DEF status
    <3>4. closed \in AttemptRecord
      BY <3>1, <3>2, AttemptUpdate
    <3>5. closed.status = status
      BY <3>1 DEF AttemptRecord
    <3> HIDE DEF closed
    <3> QED
      BY <3>2, <3>3, <3>4, <3>5
  <2>2. CASE attempt[n].status \notin Open
    <3>1. attempt[n] \in AttemptRecord /\ EmergencyAttempt(n) = attempt[n]
      BY <1>1, <2>2 DEF EmergencyAttempt
    <3> QED
      BY <2>2, <3>1 DEF AttemptRecord, AttemptStatuses
  <2> QED
    BY <2>1, <2>2
<1>3. attempt' = [n \in Numbers |-> EmergencyAttempt(n)]
  BY DEF CloseRun
<1>4. attempt' \in [Numbers -> AttemptRecord]
  BY <1>2, <1>3
<1>5. EmergencyAttempt(node.current).status \in Settled
  BY <1>1, <1>2 DEF CurrentAdmitted
<1>6. EmergencyNodeStatus \in Settled
  BY <1>5 DEF EmergencyNodeStatus, Settled
<1>7. node' \in NodeRecord /\ node'.current = node.current
  BY <1>1, <1>6 DEF CloseRun, NodeRecord, NodeStatuses
<1>8. run' \in RunStatuses /\ revision' \in Nat
  BY <1>1 DEF CloseRun, RunStatuses, Settled
<1>9. CurrentAdmitted'
  BY <1>1, <1>3, <1>5, <1>7 DEF CurrentAdmitted, Settled
<1> QED
  BY <1>4, <1>7, <1>8, <1>9

LEMMA EmergencyTypes ==
    ASSUME TypeInv,
           CoordinatorGivesUp \/ \E w \in Workers : WorkerGivesUp(w)
    PROVE  TypeInv'
<1>1. /\ faults \in 0 .. MaxFaults
      /\ receipt \in [Events -> {"none", "incomplete", "complete"}]
      /\ worker \in [Workers -> WorkerRecord]
  BY TypeParts DEF Rows
<1>2. CASE CoordinatorGivesUp
  <2>1. /\ UNCHANGED <<cancelRequested, deadlineExpired, deadlineWoken, outbox,
                       receipt, queue, worker, effects, losses>>
        /\ wake' = FALSE /\ faults' \in 0 .. MaxFaults /\ CloseRun
    BY <1>1, <1>2, BoundsAssumption DEF CoordinatorGivesUp, Fault
  <2> QED
    BY <2>1, CloseRunTypes, TypeParts
       DEF Flags, Rows, Facts, ReportHasOutcome
<1>3. ASSUME NEW w \in Workers, WorkerGivesUp(w) PROVE TypeInv'
  <2>1. worker' \in [Workers -> WorkerRecord] /\ ReportHasOutcome'
    BY <1>3, HoldUpdate DEF WorkerGivesUp
  <2>2. /\ UNCHANGED <<cancelRequested, deadlineExpired, deadlineWoken, wake,
                       outbox, queue, effects, losses>>
        /\ faults' \in 0 .. MaxFaults
    BY <1>1, <1>3, BoundsAssumption DEF WorkerGivesUp, Fault
  <2>3. CASE CloseRun /\ receipt' = [receipt EXCEPT ![worker[w].event] = "complete"]
    <3>1. receipt' \in [Events -> {"none", "incomplete", "complete"}]
      BY <1>1, <2>3
    <3> QED
      BY <2>1, <2>2, <2>3, <3>1, CloseRunTypes, TypeParts
         DEF Flags, Rows, Facts
  <2>4. CASE UNCHANGED <<attempt, node, run, revision, receipt>>
    BY <2>1, <2>2, <2>4, TypeParts
       DEF Flags, Rows, Facts, CurrentAdmitted
  <2> QED
    BY <1>3, <2>3, <2>4 DEF WorkerGivesUp
<1> QED
  BY <1>2, <1>3

LEMMA TypeStep == TypeInv /\ [Next]_vars => TypeInv'
<1> SUFFICES ASSUME TypeInv, [Next]_vars PROVE TypeInv'
  OBVIOUS
<1>1. CASE UNCHANGED vars
  BY <1>1, TypeParts
     DEF vars, Flags, Rows, Facts, CurrentAdmitted, ReportHasOutcome
<1>2. ASSUME NEW e \in Events,
             \/ Publish(e) \/ FailPublication(e) \/ LoseJob(e)
             \/ SettleOverdueDelivery(e) \/ ReplaceFailedJob(e)
      PROVE  TypeInv'
  BY <1>2, TransportTypes
<1>3. ASSUME NEW w \in Workers, NEW e \in Events, ClaimDelivery(w, e)
      PROVE  TypeInv'
  BY <1>3, ClaimTypes
<1>4. ASSUME NEW w \in Workers, WorkerStep(w) \/ Crash(w) PROVE TypeInv'
  BY <1>4, MemoryTypes, DispatchTypes, CompleteTypes DEF WorkerStep
<1>5. ASSUME NEW n \in Numbers,
             LeaseLapse(n) \/ RecoverExpired(n) \/ OperatorSettleUnknown(n)
      PROVE  TypeInv'
  BY <1>5, RecoveryTypes DEF RecoverExpired, OperatorSettleUnknown
<1>6. CASE \/ Cancel \/ DeadlinePasses \/ ClaimDueDeadline \/ TimerDue
           \/ ClaimDueWakeup \/ AdvanceEnded
  BY <1>6, ControlTypes
<1>7. CASE Advance
  BY <1>7, AdvanceTypes
<1>8. CASE CoordinatorGivesUp \/ \E w \in Workers : WorkerGivesUp(w)
  BY <1>8, EmergencyTypes
<1> QED
  BY <1>1, <1>2, <1>3, <1>4, <1>5, <1>6, <1>7, <1>8 DEF Next

(* Every state of the step's rows, queue and workers is one the schema and *)
(* the handler's types allow.                                              *)
THEOREM TypeCorrect == Spec => []TypeOK
<1>1. TypeInv => TypeOK
  BY DEF TypeInv
<1> QED
  BY TypeInit, TypeStep, <1>1, PTL DEF Spec

-----------------------------------------------------------------------------
(* An unsafe effect is made at most once.  The invariant follows the one   *)
(* permission to send that a step can hold:                                *)
(*   - a fence belongs to one worker, and only the newest one can mark;    *)
(*   - a marked attempt never becomes ready again, so it is marked once,   *)
(*     and the marker comes before the effect;                             *)
(*   - while its lease is current, a worker that has not marked holds an   *)
(*     unmarked attempt, and one that reports "retry, not dispatched"      *)
(*     holds a clean one: no effect and no permission outstanding;         *)
(*   - so the step only moves to a later attempt over clean ones.          *)

Clean(n) ==
    /\ effects[n] = 0
    /\ \A v \in Workers : ~(worker[v].phase = "marked" /\ worker[v].number = n)

Holding(w) ==
    LET n == worker[w].number IN
    /\ worker[w].phase # "idle"
    /\ attempt[n].status = "running"
    /\ attempt[n].fence = worker[w].fence

SentNothing(r) ==
    \/ r.phase \in {"missed", "unsent"}
    \/ /\ r.phase = "reporting"
       /\ r.outcome.kind = "retry"
       /\ ~r.outcome.possibly

Fenced ==
    \A w \in Workers : worker[w].phase # "idle" =>
        /\ worker[w].number <= node.current
        /\ worker[w].fence <= attempt[worker[w].number].fence
OneHolder ==
    \A v, w \in Workers :
        /\ v # w
        /\ worker[v].phase # "idle" /\ worker[w].phase # "idle"
        /\ worker[v].number = worker[w].number
        => worker[v].fence # worker[w].fence
FutureUntouched == \A n \in Numbers : n > node.current => effects[n] = 0
MarkedOnce ==
    \A n \in Numbers :
        /\ effects[n] <= 1
        /\ effects[n] > 0 => attempt[n].marked
        /\ attempt[n].marked => attempt[n].status # "ready"
OnePermission ==
    /\ \A w \in Workers : worker[w].phase = "marked" =>
          attempt[worker[w].number].marked /\ effects[worker[w].number] = 0
    /\ \A v, w \in Workers :
          v # w /\ worker[v].phase = "marked" /\ worker[w].phase = "marked" =>
             worker[v].number # worker[w].number
HolderClean ==
    \A w \in Workers : Holding(w) =>
        /\ worker[w].phase \in {"claimed", "executing"} =>
              ~attempt[worker[w].number].marked
        /\ SentNothing(worker[w]) => Clean(worker[w].number)
RetryClean ==
    \A n \in Numbers :
        /\ attempt[n].status = "failed"
        /\ attempt[n].result.kind = "retry"
        /\ ~attempt[n].result.possibly
        => Clean(n)
PastClean ==
    /\ \A n \in Numbers : n < node.current => Clean(n)
    /\ node.status = "waiting" => Clean(node.current)
NeverSuspends == \A w \in Workers : worker[w].outcome.status # "suspended"

EffectInv ==
    /\ Fenced
    /\ OneHolder
    /\ FutureUntouched
    /\ MarkedOnce
    /\ OnePermission
    /\ HolderClean
    /\ RetryClean
    /\ PastClean
    /\ NeverSuspends

(* What the steps below use of the types.                                  *)
LEMMA Typed ==
    ASSUME TypeInv
    PROVE  /\ attempt \in [Numbers -> AttemptRecord]
           /\ node \in NodeRecord /\ node.current \in Numbers
           /\ worker \in [Workers -> WorkerRecord]
           /\ effects \in [Numbers -> Nat]
           /\ \A w \in Workers :
                 /\ worker[w].number \in Numbers
                 /\ worker[w].fence \in Nat
                 /\ worker[w].phase \in Phases
                 /\ worker[w].unresolved \in BOOLEAN
           /\ \A n \in Numbers : attempt[n].fence \in Nat /\ effects[n] \in Nat
           /\ Numbers \subseteq Nat
BY TypeParts DEF Rows, NodeRecord, WorkerRecord, AttemptRecord, Numbers

LEMMA EffectInit == Init => EffectInv
<1> SUFFICES ASSUME Init PROVE EffectInv
  OBVIOUS
<1>1. /\ \A w \in Workers : worker[w] = Idle
      /\ Idle.phase = "idle" /\ Idle.outcome.status = "none"
  BY DEF Init, Idle, NoOutcome, Plain
<1>2. \A n \in Numbers : effects[n] = 0 /\ Clean(n)
  BY <1>1 DEF Init, Clean
<1>3. \A n \in Numbers :
         ~attempt[n].marked /\ attempt[n].status \in {"ready", "absent"}
  BY DEF Init, Admitted, Absent
<1>4. /\ Fenced /\ OneHolder /\ OnePermission /\ HolderClean /\ NeverSuspends
      /\ RetryClean
  BY <1>1, <1>3
     DEF Fenced, OneHolder, OnePermission, HolderClean, Holding, NeverSuspends,
         RetryClean
<1>5. FutureUntouched /\ MarkedOnce
  BY <1>2, <1>3 DEF FutureUntouched, MarkedOnce
<1>6. PastClean
  BY <1>2 DEF Init, PastClean
<1> QED
  BY <1>4, <1>5, <1>6 DEF EffectInv

(* Steps that leave attempts, workers, effects and the node's place alone. *)
LEMMA ElsewhereKeepsEffects ==
    ASSUME EffectInv, UNCHANGED <<attempt, worker, effects>>,
           node'.current = node.current, node'.status = "waiting" =>
              node.status = "waiting"
    PROVE  EffectInv'
<1>1. \A n \in Numbers : Clean(n) => Clean(n)'
  BY DEF Clean
<1>2. Clean(node.current) => Clean(node.current)'
  BY DEF Clean
<1>3. /\ Fenced' /\ OneHolder' /\ FutureUntouched' /\ MarkedOnce'
      /\ OnePermission' /\ NeverSuspends'
  BY Zenon
     DEF EffectInv, Fenced, OneHolder, FutureUntouched, MarkedOnce,
         OnePermission, NeverSuspends
<1>4. HolderClean' /\ RetryClean'
  BY Zenon
     DEF EffectInv, HolderClean, RetryClean, Holding, SentNothing, Clean
<1>5. PastClean'
  BY Zenon DEF EffectInv, PastClean, Clean
<1> QED
  BY <1>3, <1>4, <1>5 DEF EffectInv

(* Steps of one worker that change nothing but its memory: it keeps its    *)
(* lease or lets go, gains no permission, and claims to have sent nothing  *)
(* only where nothing was sent.                                            *)
LEMMA MemoryKeepsEffects ==
    ASSUME TypeInv, EffectInv, NEW w \in Workers, NEW r \in WorkerRecord,
           UNCHANGED <<attempt, node, effects>>,
           worker' = [worker EXCEPT ![w] = r],
           r.phase # "idle" => /\ worker[w].phase # "idle"
                               /\ r.number = worker[w].number
                               /\ r.fence = worker[w].fence,
           r.phase # "marked",
           r.phase \in {"claimed", "executing"} =>
              worker[w].phase \in {"claimed", "executing"},
           Holding(w) /\ SentNothing(r) =>
              /\ effects[r.number] = 0
              /\ \A v \in Workers \ {w} :
                    ~(worker[v].phase = "marked" /\ worker[v].number = r.number),
           r.outcome.status # "suspended"
    PROVE  EffectInv'
<1> USE Typed
<1>1. /\ worker'[w] = r
      /\ \A v \in Workers \ {w} : worker'[v] = worker[v]
  OBVIOUS
<1>2. \A n : Clean(n) => Clean(n)'
  BY <1>1 DEF Clean
<1>3. Fenced' /\ OneHolder' /\ NeverSuspends'
  BY <1>1 DEF EffectInv, Fenced, OneHolder, NeverSuspends
<1>4. FutureUntouched' /\ MarkedOnce' /\ OnePermission'
  BY <1>1 DEF EffectInv, FutureUntouched, MarkedOnce, OnePermission
<1>5. RetryClean' /\ PastClean'
  BY <1>2 DEF EffectInv, RetryClean, PastClean
<1>6. HolderClean'
  <2>1. ASSUME NEW v \in Workers \ {w}, Holding(v)'
        PROVE  /\ worker'[v].phase \in {"claimed", "executing"} =>
                     ~attempt'[worker'[v].number].marked
               /\ SentNothing(worker'[v]) => Clean(worker[v].number)'
    <3>1. worker'[v] = worker[v] /\ attempt' = attempt /\ Holding(v)
      BY <1>1, <2>1 DEF Holding
    <3>2. /\ worker[v].phase \in {"claimed", "executing"} =>
                ~attempt[worker[v].number].marked
          /\ SentNothing(worker[v]) => Clean(worker[v].number)
      BY <3>1, Zenon DEF EffectInv, HolderClean
    <3>3. Clean(worker[v].number) => Clean(worker[v].number)'
      BY <1>1, <3>1 DEF Clean
    <3> QED
      BY <3>1, <3>2, <3>3, Zenon
  <2>2. ASSUME Holding(w)'
        PROVE  /\ worker'[w].phase \in {"claimed", "executing"} =>
                     ~attempt'[worker'[w].number].marked
               /\ SentNothing(worker'[w]) => Clean(worker[w].number)'
    <3>1. Holding(w)
      BY <1>1, <2>2 DEF Holding
    <3>2. r.phase \in {"claimed", "executing"} =>
             ~attempt[worker[w].number].marked
      BY <3>1, Zenon DEF EffectInv, HolderClean
    <3>3. SentNothing(r) => Clean(r.number)'
      BY <1>1, <3>1 DEF Clean
    <3>4. r.number = worker[w].number /\ worker'[w] = r /\ attempt' = attempt
      BY <1>1, <2>2 DEF Holding
    <3> QED
      BY <3>2, <3>3, <3>4, Zenon
  <2> QED
    BY <2>1, <2>2, Zenon DEF HolderClean
<1> QED
  BY <1>3, <1>4, <1>5, <1>6 DEF EffectInv

LEMMA UnmarkedClean ==
    ASSUME TypeInv, EffectInv, NEW n \in Numbers, ~attempt[n].marked
    PROVE  Clean(n)
BY Typed DEF EffectInv, MarkedOnce, OnePermission, Clean

(* A worker that asks for no repeat, or that holds a clean attempt.        *)
MayReport(w, outcome) ==
    /\ outcome \in Outcomes
    /\ outcome.status # "suspended"
    /\ Holding(w) /\ outcome.kind = "retry" /\ ~outcome.possibly =>
          /\ effects[worker[w].number] = 0
          /\ \A v \in Workers \ {w} :
                ~(worker[v].phase = "marked"
                  /\ worker[v].number = worker[w].number)

LEMMA ReportKeepsEffects ==
    ASSUME TypeInv, EffectInv, NEW w \in Workers, NEW outcome,
           UNCHANGED <<attempt, node, effects>>, worker[w].phase # "idle",
           Reporting(w, outcome), MayReport(w, outcome)
    PROVE  EffectInv'
<1> DEFINE r == [worker[w] EXCEPT !.phase = "reporting", !.outcome = outcome]
<1>1. /\ worker[w] \in WorkerRecord /\ outcome \in Outcomes
      /\ worker' = [worker EXCEPT ![w] = r]
  BY Typed DEF Reporting, MayReport
<1>2. /\ r \in WorkerRecord
      /\ r.phase = "reporting" /\ r.outcome = outcome
      /\ r.number = worker[w].number /\ r.fence = worker[w].fence
  BY <1>1 DEF WorkerRecord, Phases
<1>3. Holding(w) /\ SentNothing(r) =>
         /\ effects[r.number] = 0
         /\ \A v \in Workers \ {w} :
               ~(worker[v].phase = "marked" /\ worker[v].number = r.number)
  BY <1>2 DEF SentNothing, MayReport
<1>4. outcome.status # "suspended"
  BY DEF MayReport
<1> HIDE DEF r
<1> QED
  BY <1>1, <1>2, <1>3, <1>4, MemoryKeepsEffects

LEMMA LetGoKeepsEffects ==
    ASSUME TypeInv, EffectInv, NEW w \in Workers, LetGo(w),
           UNCHANGED <<attempt, node, effects>>
    PROVE  EffectInv'
<1>1. /\ Idle \in WorkerRecord /\ Idle.phase = "idle"
      /\ Idle.outcome.status # "suspended"
  BY RowTypes DEF Idle, NoOutcome, Plain
<1>2. ~SentNothing(Idle)
  BY DEF SentNothing, Idle
<1> QED
  BY <1>1, <1>2, MemoryKeepsEffects DEF LetGo

LEMMA PhaseKeepsEffects ==
    ASSUME TypeInv, EffectInv, NEW w \in Workers,
           NEW phase \in {"executing", "missed", "unsent"}, InPhase(w, phase),
           UNCHANGED <<attempt, node, effects>>, worker[w].phase # "idle",
           phase = "executing" => worker[w].phase \in {"claimed", "executing"},
           Holding(w) /\ phase # "executing" =>
              /\ effects[worker[w].number] = 0
              /\ \A v \in Workers \ {w} :
                    ~(worker[v].phase = "marked"
                      /\ worker[v].number = worker[w].number)
    PROVE  EffectInv'
<1> DEFINE r == [worker[w] EXCEPT !.phase = phase]
<1>1. worker[w] \in WorkerRecord /\ worker' = [worker EXCEPT ![w] = r]
  BY Typed DEF InPhase
<1>2. /\ r \in WorkerRecord
      /\ r.phase = phase /\ r.outcome = worker[w].outcome
      /\ r.number = worker[w].number /\ r.fence = worker[w].fence
  BY <1>1 DEF WorkerRecord, Phases
<1>3. worker[w].outcome.status # "suspended"
  BY DEF EffectInv, NeverSuspends
<1>4. Holding(w) /\ SentNothing(r) =>
         /\ effects[r.number] = 0
         /\ \A v \in Workers \ {w} :
               ~(worker[v].phase = "marked" /\ worker[v].number = r.number)
  BY <1>2 DEF SentNothing
<1> HIDE DEF r
<1> QED
  BY <1>1, <1>2, <1>3, <1>4, MemoryKeepsEffects

(* What an unsafe step's worker reports before it is back from a send.     *)
LEMMA HarmlessReports ==
    ASSUME Class = "unsafe", TypeInv, NEW w \in Workers
    PROVE  /\ \A dispatched \in BOOLEAN : AbortReason # "none" =>
                 MayReport(w, ControlOutcome(AbortReason, dispatched))
           /\ \A status \in Settled : MayReport(w, Plain(status))
           /\ \A possibly \in BOOLEAN :
                 MayReport(w, Failure("outcome_unknown", possibly))
           /\ MayReport(w, Ambiguous(w))
<1>1. \A status \in Settled : MayReport(w, Plain(status))
  BY RowTypes DEF MayReport, Plain, Settled
<1>2. \A possibly \in BOOLEAN :
         MayReport(w, Failure("outcome_unknown", possibly))
  BY RowTypes DEF MayReport, Failure, FailureKinds
<1>3. MayReport(w, Ambiguous(w))
  BY <1>2 DEF Ambiguous
<1>4. ASSUME NEW dispatched \in BOOLEAN, AbortReason # "none"
      PROVE  MayReport(w, ControlOutcome(AbortReason, dispatched))
  <2>1. ControlOutcome(AbortReason, dispatched)
           \in {Plain(status) : status \in Settled}
    BY <1>4, ReportedOutcomes
  <2> QED
    BY <1>1, <2>1
<1> QED
  BY <1>1, <1>2, <1>3, <1>4

LEMMA MemoryStepKeepsEffects ==
    ASSUME Class = "unsafe", TypeInv, EffectInv, NEW w \in Workers,
           \/ LoadInputs(w) \/ EndWithoutDispatch(w) \/ MarkRefused(w)
           \/ Return(w) \/ HeartbeatAbort(w) \/ CompleteDuplicate(w)
           \/ CompleteRefused(w) \/ Crash(w)
    PROVE  EffectInv'
<1> DEFINE n == worker[w].number
<1>1. UNCHANGED <<attempt, node, effects>>
  BY Zenon
     DEF LoadInputs, EndWithoutDispatch, MarkRefused, Return, HeartbeatAbort,
         CompleteDuplicate, CompleteRefused, Crash, onlyWorker
<1>2. n \in Numbers /\ worker[w].unresolved \in BOOLEAN
  BY Typed
<1>3. Holding(w) /\ worker[w].phase \in {"claimed", "executing"} => Clean(n)
  <2>1. Holding(w) /\ worker[w].phase \in {"claimed", "executing"} =>
           ~attempt[n].marked
    BY Zenon DEF EffectInv, HolderClean
  <2> QED
    BY <2>1, <1>2, UnmarkedClean
<1>4. Holding(w) /\ worker[w].phase \in {"missed", "unsent"} => Clean(n)
  BY Zenon DEF EffectInv, HolderClean, SentNothing
<1>5. ASSUME NEW kind \in {"retry", "failed"},
             worker[w].phase \in {"claimed", "executing", "missed", "unsent"}
      PROVE  MayReport(w, Failure(kind, FALSE))
  <2>1. /\ Failure(kind, FALSE) \in Outcomes
        /\ Failure(kind, FALSE).status # "suspended"
    BY RowTypes DEF Failure, FailureKinds
  <2>2. Holding(w) => Clean(n)
    BY <1>3, <1>4, <1>5
  <2> QED
    BY <2>1, <2>2 DEF MayReport, Clean
<1>6. CASE LoadInputs(w)
  <2>1. worker[w].phase = "claimed"
    BY <1>6 DEF LoadInputs
  <2>2. \/ \E outcome : MayReport(w, outcome) /\ Reporting(w, outcome)
        \/ InPhase(w, "executing")
    BY <1>2, <1>6, HarmlessReports DEF LoadInputs, Settled
  <2> QED
    BY <1>1, <2>1, <2>2, ReportKeepsEffects, PhaseKeepsEffects
<1>7. CASE EndWithoutDispatch(w)
  <2>1. worker[w].phase = "executing"
    BY <1>7 DEF EndWithoutDispatch
  <2>2. \E outcome : MayReport(w, outcome) /\ Reporting(w, outcome)
    BY <1>5, <1>7, <2>1, HarmlessReports DEF EndWithoutDispatch
  <2> QED
    BY <1>1, <2>1, <2>2, ReportKeepsEffects
<1>8. CASE MarkRefused(w)
  <2>1. worker[w].phase = "executing"
    BY <1>8 DEF MarkRefused
  <2>2. \/ \E outcome : MayReport(w, outcome) /\ Reporting(w, outcome)
        \/ InPhase(w, "unsent")
    BY <1>2, <1>8, HarmlessReports DEF MarkRefused
  <2>3. Holding(w) =>
           /\ effects[n] = 0
           /\ \A v \in Workers \ {w} :
                 ~(worker[v].phase = "marked" /\ worker[v].number = n)
    BY <1>3, <2>1 DEF Clean
  <2> QED
    BY <1>1, <2>1, <2>2, <2>3, ReportKeepsEffects, PhaseKeepsEffects
<1>9. CASE Return(w)
  <2>1. worker[w].phase \in {"applied", "missed", "unsent"}
    BY <1>9 DEF Return
  <2>2. \A kind \in {"retry", "failed"} :
           worker[w].phase \in {"missed", "unsent"} =>
              MayReport(w, Definite(w, kind))
    BY <1>5, HarmlessReports DEF Definite
  <2>3. \E outcome : MayReport(w, outcome) /\ Reporting(w, outcome)
    BY <1>9, <2>2, HarmlessReports DEF Return, Settled
  <2> QED
    BY <1>1, <2>1, <2>3, ReportKeepsEffects
<1>10. CASE HeartbeatAbort(w)
  <2>1. worker[w].phase \in {"executing", "marked", "applied", "missed", "unsent"}
    BY <1>10 DEF HeartbeatAbort
  <2>2. \E outcome : MayReport(w, outcome) /\ Reporting(w, outcome)
    BY <1>2, <1>10, HarmlessReports DEF HeartbeatAbort
  <2> QED
    BY <1>1, <2>1, <2>2, ReportKeepsEffects
<1>11. CASE CompleteDuplicate(w) \/ CompleteRefused(w) \/ Crash(w)
  BY <1>1, <1>11, LetGoKeepsEffects
     DEF CompleteDuplicate, CompleteRefused, Crash
<1> QED
  BY <1>6, <1>7, <1>8, <1>9, <1>10, <1>11

(* Marking: only the holder of an unmarked attempt gets here.              *)
LEMMA MarkKeepsEffects ==
    ASSUME TypeInv, EffectInv, NEW w \in Workers, MarkDispatched(w)
    PROVE  EffectInv'
<1> DEFINE n == worker[w].number
<1>1. /\ worker[w].phase = "executing" /\ n \in Numbers
      /\ attempt[n].status = "running" /\ node.status = "running"
      /\ node.current = n /\ Holding(w)
      /\ UNCHANGED <<node, effects>>
  BY Typed DEF MarkDispatched, LeaseCurrent, Holding
<1>2. ~attempt[n].marked
  BY <1>1, Zenon DEF EffectInv, HolderClean
<1>3. Clean(n)
  BY <1>1, <1>2, UnmarkedClean
<1>4. PICK phase \in {"marked", "unsent"} : InPhase(w, phase)
  BY DEF MarkDispatched
<1>5. /\ worker'[w] = [worker[w] EXCEPT !.phase = phase]
      /\ worker'[w].phase = phase /\ worker'[w].number = n
      /\ worker'[w].fence = worker[w].fence
      /\ worker'[w].outcome = worker[w].outcome
      /\ \A v \in Workers \ {w} : worker'[v] = worker[v]
  BY <1>4, Typed DEF InPhase, WorkerRecord
<1>6. /\ attempt'[n].marked = TRUE
      /\ \A m \in Numbers : /\ attempt'[m].status = attempt[m].status
                            /\ attempt'[m].fence = attempt[m].fence
                            /\ attempt'[m].result = attempt[m].result
      /\ \A m \in Numbers \ {n} : attempt'[m] = attempt[m]
  <2>1. attempt' = [attempt EXCEPT ![n] = [attempt[n] EXCEPT !.marked = TRUE]]
    BY DEF MarkDispatched
  <2>2. attempt[n] \in AttemptRecord /\ attempt' \in [Numbers -> AttemptRecord]
    <3>1. attempt \in [Numbers -> AttemptRecord] /\ attempt[n] \in AttemptRecord
      BY <1>1, Typed
    <3>2. [attempt[n] EXCEPT !.marked = TRUE] \in AttemptRecord
      BY <3>1, AttemptUpdate
    <3> QED
      BY <1>1, <2>1, <3>1, <3>2
  <2>3. /\ attempt'[n] = [attempt[n] EXCEPT !.marked = TRUE]
        /\ \A m \in Numbers \ {n} : attempt'[m] = attempt[m]
    BY <1>1, <2>1, Typed
  <2>4. /\ attempt'[n].marked = TRUE
        /\ attempt'[n].status = attempt[n].status
        /\ attempt'[n].fence = attempt[n].fence
        /\ attempt'[n].result = attempt[n].result
    <3>1. attempt[n] \in AttemptRecord
      BY <2>2
    <3> QED
      BY <2>3, <3>1 DEF AttemptRecord
  <2> QED
    BY <2>3, <2>4
<1>7. ASSUME NEW m \in Numbers, Clean(m), m # n PROVE Clean(m)'
  <2>1. effects' = effects
    BY <1>1
  <2>2. worker'[w].number # m /\ \A v \in Workers \ {w} : worker'[v] = worker[v]
    BY <1>5, <1>7
  <2> QED
    BY <1>7, <2>1, <2>2 DEF Clean
<1>8. phase = "unsent" => Clean(n)'
  BY <1>1, <1>3, <1>5 DEF Clean
<1>9. Fenced' /\ OneHolder' /\ NeverSuspends'
  <2>1. \A v \in Workers :
           /\ worker'[v].phase # "idle" => worker[v].phase # "idle"
           /\ worker'[v].number = worker[v].number
           /\ worker'[v].fence = worker[v].fence
           /\ worker'[v].outcome = worker[v].outcome
    BY <1>1, <1>5
  <2>2. Fenced'
    BY <1>1, <1>6, <2>1, Typed DEF EffectInv, Fenced
  <2>3. OneHolder'
    BY <2>1 DEF EffectInv, OneHolder
  <2>4. NeverSuspends'
    BY <2>1 DEF EffectInv, NeverSuspends
  <2> QED
    BY <2>2, <2>3, <2>4
<1>10. FutureUntouched'
  BY <1>1 DEF EffectInv, FutureUntouched
<1>11. MarkedOnce'
  <2>1. effects[n] = 0
    BY <1>3 DEF Clean
  <2>2. ASSUME NEW m \in Numbers, m # n
        PROVE  /\ effects'[m] <= 1
               /\ effects'[m] > 0 => attempt'[m].marked
               /\ attempt'[m].marked => attempt'[m].status # "ready"
    BY <1>1, <1>6, <2>2 DEF EffectInv, MarkedOnce
  <2> QED
    BY <1>1, <1>6, <2>1, <2>2 DEF MarkedOnce
<1>12. OnePermission'
  <2>1. ASSUME NEW v \in Workers, worker'[v].phase = "marked"
        PROVE  /\ attempt'[worker'[v].number].marked
               /\ effects'[worker'[v].number] = 0
    <3>1. CASE v = w
      <4>1. worker'[v].number = n /\ effects'[n] = 0
        BY <1>1, <1>3, <1>5, <3>1 DEF Clean
      <4>2. attempt'[n].marked
        BY <1>6, Zenon
      <4> QED
        BY <4>1, <4>2, Zenon
    <3>2. CASE v # w
      <4>1. worker'[v] = worker[v] /\ worker[v].number \in Numbers
        BY <1>5, <3>2, Typed
      <4>2. attempt[worker[v].number].marked /\ effects[worker[v].number] = 0
        BY <2>1, <4>1, Zenon DEF EffectInv, OnePermission
      <4>3. worker[v].number # n
        BY <1>2, <4>2
      <4> QED
        BY <1>1, <1>6, <4>1, <4>2, <4>3
    <3> QED
      BY <3>1, <3>2
  <2>2. ASSUME NEW u \in Workers, NEW v \in Workers, u # v,
               worker'[u].phase = "marked", worker'[v].phase = "marked"
        PROVE  worker'[u].number # worker'[v].number
    <3>1. \A x \in Workers : worker[x].phase = "marked" => worker[x].number # n
      BY <1>3 DEF Clean
    <3>2. \A x, y \in Workers :
             x # y /\ worker[x].phase = "marked" /\ worker[y].phase = "marked"
                => worker[x].number # worker[y].number
      BY Zenon DEF EffectInv, OnePermission
    <3>3. /\ worker'[w].number = n
          /\ \A x \in Workers : x # w => worker'[x] = worker[x]
      BY <1>5
    <3>4. CASE u = w
      BY <2>2, <3>1, <3>3, <3>4
    <3>5. CASE v = w
      BY <2>2, <3>1, <3>3, <3>5
    <3>6. CASE u # w /\ v # w
      BY <2>2, <3>2, <3>3, <3>6
    <3> QED
      BY <3>4, <3>5, <3>6
  <2> QED
    BY <2>1, <2>2, Zenon DEF OnePermission
<1>13. HolderClean'
  <2>1. ASSUME NEW v \in Workers \ {w}, Holding(v)'
        PROVE  /\ worker'[v].phase \in {"claimed", "executing"} =>
                     ~attempt'[worker'[v].number].marked
               /\ SentNothing(worker'[v]) => Clean(worker[v].number)'
    <3>1. Holding(v) /\ worker'[v] = worker[v] /\ worker[v].number \in Numbers
      BY <1>5, <1>6, <2>1, Typed DEF Holding
    <3>2. worker[v].number # n
      BY <1>1, <3>1 DEF EffectInv, OneHolder, Holding
    <3>3. /\ worker[v].phase \in {"claimed", "executing"} =>
                ~attempt[worker[v].number].marked
          /\ SentNothing(worker[v]) => Clean(worker[v].number)
      BY <3>1, Zenon DEF EffectInv, HolderClean
    <3>4. SentNothing(worker[v]) => Clean(worker[v].number)'
      BY <1>7, <3>1, <3>2, <3>3
    <3>5. attempt'[worker[v].number] = attempt[worker[v].number]
      BY <1>6, <3>1, <3>2
    <3> QED
      BY <3>1, <3>3, <3>4, <3>5, Zenon
  <2>2. /\ worker'[w].phase \notin {"claimed", "executing"}
        /\ SentNothing(worker'[w]) => Clean(worker[w].number)'
    BY <1>5, <1>8 DEF SentNothing
  <2> QED
    BY <2>1, <2>2, Zenon DEF HolderClean
<1>14. RetryClean'
  BY <1>1, <1>6, <1>7 DEF EffectInv, RetryClean
<1>15. PastClean'
  <2>1. \A m \in Numbers : m < node.current => m # n
    BY <1>1, Typed
  <2> QED
    BY <1>1, <1>7, <2>1 DEF EffectInv, PastClean
<1> QED
  BY <1>9, <1>10, <1>11, <1>12, <1>13, <1>14, <1>15 DEF EffectInv

(* Sending: the permission is used up, with or without an effect.          *)
LEMMA SendKeepsEffects ==
    ASSUME TypeInv, EffectInv, NEW w \in Workers, Send(w)
    PROVE  EffectInv'
<1> DEFINE n == worker[w].number
<1>1. /\ worker[w].phase = "marked" /\ n \in Numbers
      /\ UNCHANGED <<attempt, node>>
  BY Typed DEF Send
<1>2. /\ attempt[n].marked /\ effects[n] = 0
      /\ n <= node.current
  BY <1>1, Zenon DEF EffectInv, OnePermission, Fenced
<1>3. \A v \in Workers :
         v # w /\ worker[v].phase = "marked" => worker[v].number # n
  BY <1>1, Zenon DEF EffectInv, OnePermission
<1>4. CASE InPhase(w, "missed") /\ UNCHANGED effects
  BY <1>1, <1>2, <1>3, <1>4, PhaseKeepsEffects
<1>5. CASE InPhase(w, "applied") /\ effects' = [effects EXCEPT ![n] = @ + 1]
  <2>1. /\ worker'[w].phase = "applied" /\ worker'[w].number = n
        /\ worker'[w].fence = worker[w].fence
        /\ worker'[w].outcome = worker[w].outcome
        /\ \A v \in Workers : v # w => worker'[v] = worker[v]
    BY <1>5, Typed DEF InPhase, WorkerRecord
  <2>2. effects'[n] = 1 /\ \A m \in Numbers : m # n => effects'[m] = effects[m]
    BY <1>1, <1>2, <1>5, Typed
  <2>3. ~Clean(n)
    BY <1>1 DEF Clean
  <2>4. ASSUME NEW m \in Numbers, Clean(m) PROVE Clean(m)'
    BY <2>1, <2>2, <2>3, <2>4 DEF Clean
  <2>5. \A v \in Workers :
           /\ worker'[v].phase # "idle" => worker[v].phase # "idle"
           /\ worker'[v].number = worker[v].number
           /\ worker'[v].fence = worker[v].fence
           /\ worker'[v].outcome = worker[v].outcome
    BY <1>1, <2>1
  <2>6. Fenced' /\ OneHolder' /\ NeverSuspends'
    BY <1>1, <2>5 DEF EffectInv, Fenced, OneHolder, NeverSuspends
  <2>7. FutureUntouched'
    BY <1>1, <1>2, <2>2, Typed DEF EffectInv, FutureUntouched
  <2>8. MarkedOnce'
    <3>1. ASSUME NEW m \in Numbers, m # n
          PROVE  effects'[m] <= 1 /\ (effects'[m] > 0 => attempt'[m].marked)
      BY <1>1, <2>2, <3>1 DEF EffectInv, MarkedOnce
    <3>2. attempt'[n].marked
      BY <1>1, <1>2
    <3>3. \A m \in Numbers : attempt'[m].marked => attempt'[m].status # "ready"
      BY <1>1 DEF EffectInv, MarkedOnce
    <3> QED
      BY <2>2, <3>1, <3>2, <3>3 DEF MarkedOnce
  <2>9. OnePermission'
    <3>1. ASSUME NEW v \in Workers, worker'[v].phase = "marked"
          PROVE  /\ attempt'[worker'[v].number].marked
                 /\ effects'[worker'[v].number] = 0
      <4>1. v # w /\ worker'[v] = worker[v] /\ worker[v].number \in Numbers
        BY <2>1, <3>1, Typed
      <4>2. worker[v].number # n
        BY <1>3, <3>1, <4>1
      <4>3. attempt[worker[v].number].marked /\ effects[worker[v].number] = 0
        BY <3>1, <4>1, Zenon DEF EffectInv, OnePermission
      <4> QED
        BY <1>1, <2>2, <4>1, <4>2, <4>3
    <3>2. \A u, v \in Workers :
             u # v /\ worker'[u].phase = "marked" /\ worker'[v].phase = "marked"
                => worker'[u].number # worker'[v].number
      BY <2>1 DEF EffectInv, OnePermission
    <3> QED
      BY <3>1, <3>2, Zenon DEF OnePermission
  <2>10. HolderClean'
    <3>1. ASSUME NEW v \in Workers, Holding(v)', v # w
          PROVE  /\ worker'[v].phase \in {"claimed", "executing"} =>
                       ~attempt'[worker'[v].number].marked
                 /\ SentNothing(worker'[v]) => Clean(worker[v].number)'
      <4>1. /\ worker'[v] = worker[v] /\ attempt' = attempt
            /\ Holding(v) /\ worker[v].number \in Numbers
        BY <1>1, <2>1, <3>1, Typed DEF Holding
      <4>2. /\ worker[v].phase \in {"claimed", "executing"} =>
                  ~attempt[worker[v].number].marked
            /\ SentNothing(worker[v]) => Clean(worker[v].number)
        BY <4>1, Zenon DEF EffectInv, HolderClean
      <4>3. Clean(worker[v].number) => Clean(worker[v].number)'
        BY <2>1, <2>2, <2>3, <4>1 DEF Clean
      <4> QED
        BY <4>1, <4>2, <4>3, Zenon
    <3>2. /\ worker'[w].phase \notin {"claimed", "executing"}
          /\ ~SentNothing(worker'[w])
      BY <2>1 DEF SentNothing
    <3> QED
      BY <3>1, <3>2, Zenon DEF HolderClean
  <2>11. RetryClean' /\ PastClean'
    BY <1>1, <2>4, Typed DEF EffectInv, RetryClean, PastClean
  <2> QED
    BY <2>6, <2>7, <2>8, <2>9, <2>10, <2>11 DEF EffectInv
<1> QED
  BY <1>4, <1>5 DEF Send

(* Claiming: the new lease is on an attempt that was ready, so unmarked,   *)
(* and its fence is newer than any worker's.                               *)
LEMMA ClaimKeepsEffects ==
    ASSUME TypeInv, EffectInv, NEW w \in Workers, NEW e \in Events,
           ClaimDelivery(w, e)
    PROVE  EffectInv'
<1> DEFINE n == outbox[e].number
<1>1. n \in Numbers /\ n = node.current /\ worker[w].phase = "idle"
  BY Typed DEF ClaimDelivery, DeliveryCurrent
<1>2. CASE ClaimSettled(w, e) \/ ClaimRunning(w, e)
  BY <1>2, ElsewhereKeepsEffects
     DEF ClaimSettled, ClaimRunning, ClaimDelivery
<1>3. CASE ClaimReady(w, e)
  <2>1. /\ attempt[n].status = "ready" /\ UNCHANGED effects
        /\ ~attempt[n].marked
    BY <1>1, <1>3 DEF ClaimReady, ClaimDelivery, EffectInv, MarkedOnce
  <2>2. node'.current = node.current /\ node'.status = "running"
    BY <1>3, Typed DEF ClaimReady, NodeRecord
  <2>3. /\ attempt'[n].status = "running"
        /\ attempt'[n].fence = attempt[n].fence + 1
        /\ attempt'[n].marked = attempt[n].marked
        /\ \A m \in Numbers : m # n => attempt'[m] = attempt[m]
    <3>1. attempt[n] \in AttemptRecord
      BY <1>1, Typed
    <3> QED
      BY <1>1, <1>3, <3>1, Typed DEF ClaimReady, AttemptRecord
  <2>4. /\ worker'[w].phase = "claimed" /\ worker'[w].number = n
        /\ worker'[w].fence = attempt[n].fence + 1
        /\ worker'[w].outcome = NoOutcome
        /\ \A v \in Workers : v # w => worker'[v] = worker[v]
    BY <1>1, <1>3, Typed DEF ClaimReady
  <2>5. ASSUME NEW m \in Numbers, Clean(m) PROVE Clean(m)'
    BY <2>1, <2>4, <2>5 DEF Clean
  <2>6. \A v \in Workers : v # w /\ worker[v].phase # "idle" =>
           /\ worker[v].number <= node.current
           /\ worker[v].fence <= attempt[worker[v].number].fence
    BY Zenon DEF EffectInv, Fenced
  <2>7. Fenced'
    BY <1>1, <2>2, <2>3, <2>4, <2>6, Typed DEF Fenced
  <2>8. OneHolder'
    <3>1. \A v \in Workers : v # w /\ worker[v].phase # "idle"
             /\ worker[v].number = n => worker[v].fence < attempt[n].fence + 1
      BY <1>1, <2>6, Typed
    <3>2. \A u, v \in Workers :
             /\ u # v /\ worker[u].phase # "idle" /\ worker[v].phase # "idle"
             /\ worker[u].number = worker[v].number
             => worker[u].fence # worker[v].fence
      BY Zenon DEF EffectInv, OneHolder
    <3>3. ASSUME NEW u \in Workers, NEW v \in Workers, u # v,
                 worker'[u].phase # "idle", worker'[v].phase # "idle",
                 worker'[u].number = worker'[v].number
          PROVE  worker'[u].fence # worker'[v].fence
      <4>1. CASE u = w
        BY <1>1, <2>4, <3>1, <3>3, <4>1, Typed
      <4>2. CASE v = w
        BY <1>1, <2>4, <3>1, <3>3, <4>2, Typed
      <4>3. CASE u # w /\ v # w
        BY <2>4, <3>2, <3>3, <4>3
      <4> QED
        BY <4>1, <4>2, <4>3
    <3> QED
      BY <3>3, Zenon DEF OneHolder
  <2>9. FutureUntouched'
    BY <2>1, <2>2 DEF EffectInv, FutureUntouched
  <2>10. MarkedOnce'
    <3>1. ASSUME NEW m \in Numbers, m # n
          PROVE  /\ effects'[m] <= 1
                 /\ effects'[m] > 0 => attempt'[m].marked
                 /\ attempt'[m].marked => attempt'[m].status # "ready"
      BY <2>1, <2>3, <3>1 DEF EffectInv, MarkedOnce
    <3>2. effects[n] <= 1 /\ (effects[n] > 0 => attempt[n].marked)
      BY <1>1, Zenon DEF EffectInv, MarkedOnce
    <3>3. /\ effects'[n] <= 1
          /\ effects'[n] > 0 => attempt'[n].marked
          /\ attempt'[n].marked => attempt'[n].status # "ready"
      BY <2>1, <2>3, <3>2
    <3> QED
      BY <3>1, <3>3 DEF MarkedOnce
  <2>11. OnePermission'
    <3>1. ASSUME NEW v \in Workers, worker'[v].phase = "marked"
          PROVE  /\ attempt'[worker'[v].number].marked
                 /\ effects'[worker'[v].number] = 0
      <4>1. v # w /\ worker'[v] = worker[v] /\ worker[v].number \in Numbers
        BY <2>4, <3>1, Typed
      <4>2. attempt[worker[v].number].marked /\ effects[worker[v].number] = 0
        BY <3>1, <4>1, Zenon DEF EffectInv, OnePermission
      <4>3. worker[v].number # n
        BY <2>1, <4>2
      <4> QED
        BY <2>1, <2>3, <4>1, <4>2, <4>3
    <3>2. \A u, v \in Workers :
             u # v /\ worker'[u].phase = "marked" /\ worker'[v].phase = "marked"
                => worker'[u].number # worker'[v].number
      BY <2>4 DEF EffectInv, OnePermission
    <3> QED
      BY <3>1, <3>2, Zenon DEF OnePermission
  <2>12. HolderClean'
    <3>1. ASSUME NEW v \in Workers, Holding(v)', v # w
          PROVE  /\ worker'[v].phase \in {"claimed", "executing"} =>
                       ~attempt'[worker'[v].number].marked
                 /\ SentNothing(worker'[v]) => Clean(worker[v].number)'
      <4>1. /\ worker'[v] = worker[v] /\ worker[v].phase # "idle"
            /\ worker[v].number \in Numbers
        BY <2>4, <3>1, Typed DEF Holding
      <4>2. worker[v].number # n
        BY <1>1, <2>3, <2>6, <3>1, <4>1, Typed DEF Holding
      <4>3. attempt'[worker[v].number] = attempt[worker[v].number]
        BY <2>3, <4>1, <4>2
      <4>4. Holding(v)
        BY <3>1, <4>1, <4>3 DEF Holding
      <4>5. /\ worker[v].phase \in {"claimed", "executing"} =>
                  ~attempt[worker[v].number].marked
            /\ SentNothing(worker[v]) => Clean(worker[v].number)
        BY <4>4, Zenon DEF EffectInv, HolderClean
      <4>6. Clean(worker[v].number) => Clean(worker[v].number)'
        BY <2>1, <2>4, <4>1 DEF Clean
      <4> QED
        BY <4>1, <4>3, <4>5, <4>6, Zenon
    <3>2. /\ ~attempt'[worker'[w].number].marked
          /\ ~SentNothing(worker'[w])
      BY <2>1, <2>3, <2>4 DEF SentNothing
    <3> QED
      BY <3>1, <3>2, Zenon DEF HolderClean
  <2>13. RetryClean'
    BY <2>3, <2>5 DEF EffectInv, RetryClean
  <2>14. PastClean'
    BY <1>1, <2>2, <2>5, Typed DEF EffectInv, PastClean
  <2>15. NeverSuspends'
    BY <2>4 DEF EffectInv, NeverSuspends, NoOutcome, Plain
  <2> QED
    BY <2>7, <2>8, <2>9, <2>10, <2>11, <2>12, <2>13, <2>14, <2>15
       DEF EffectInv
<1> QED
  BY <1>2, <1>3 DEF ClaimDelivery

(* Steps that settle, reclaim or admit attempts: no lease is handed out, a *)
(* marked attempt is not made ready, and a retry that was not dispatched,  *)
(* a wait and every attempt left behind are clean.                         *)
NoNewHolder ==
    \A m \in Numbers :
        m <= node.current =>
            /\ attempt[m].fence <= attempt'[m].fence
            /\ attempt'[m].marked = attempt[m].marked
            /\ attempt'[m].status = "running" =>
                  /\ attempt[m].status = "running"
                  /\ attempt'[m].fence = attempt[m].fence

LEMMA AttemptKeepsEffects ==
    ASSUME TypeInv, TypeInv', EffectInv, UNCHANGED effects, NoNewHolder,
           \A v \in Workers : worker'[v] = worker[v] \/ worker'[v] = Idle,
           node'.current \in Numbers, node.current <= node'.current,
           \A m \in Numbers :
              attempt'[m].marked => attempt'[m].status # "ready",
           \A m \in Numbers :
              /\ attempt'[m].status = "failed"
              /\ attempt'[m].result.kind = "retry"
              /\ ~attempt'[m].result.possibly
              => Clean(m),
           \A m \in Numbers : m < node'.current => Clean(m),
           node'.status = "waiting" => Clean(node'.current)
    PROVE  EffectInv'
<1>1. /\ \A v \in Workers : worker'[v].phase # "idle" => worker'[v] = worker[v]
      /\ \A v \in Workers : worker'[v].phase = "marked" => worker'[v] = worker[v]
      /\ Idle.phase = "idle" /\ Idle.outcome.status = "none"
  BY DEF Idle, NoOutcome, Plain
<1>2. ASSUME NEW m \in Numbers, Clean(m) PROVE Clean(m)'
  BY <1>1, <1>2 DEF Clean
<1>3. \A v \in Workers : worker[v].phase # "idle" =>
         /\ worker[v].number \in Numbers
         /\ worker[v].number <= node.current
         /\ worker[v].fence <= attempt[worker[v].number].fence
  BY Typed, Zenon DEF EffectInv, Fenced
<1>4. Fenced'
  <2>1. ASSUME NEW v \in Workers, worker'[v].phase # "idle"
        PROVE  /\ worker'[v].number <= node'.current
               /\ worker'[v].fence <= attempt'[worker'[v].number].fence
    <3>1. worker'[v] = worker[v] /\ worker[v].phase # "idle"
      BY <1>1, <2>1
    <3>2. /\ worker[v].number \in Numbers
          /\ worker[v].number <= node.current
          /\ worker[v].fence <= attempt[worker[v].number].fence
      BY <1>3, <3>1
    <3>3. attempt[worker[v].number].fence <= attempt'[worker[v].number].fence
      BY <3>2 DEF NoNewHolder
    <3>4. attempt'[worker[v].number].fence \in Nat
      BY <3>2, TypeParts DEF Rows, AttemptRecord
    <3>5. worker[v].number <= node'.current
      BY <3>2, Typed
    <3> QED
      BY <3>1, <3>2, <3>3, <3>4, <3>5, Typed
  <2> QED
    BY <2>1 DEF Fenced
<1>5. OneHolder' /\ NeverSuspends'
  BY <1>1 DEF EffectInv, OneHolder, NeverSuspends
<1>6. FutureUntouched'
  BY Typed DEF EffectInv, FutureUntouched
<1>7. MarkedOnce'
  <2>1. ASSUME NEW m \in Numbers
        PROVE  effects'[m] <= 1 /\ (effects'[m] > 0 => attempt'[m].marked)
    <3>1. effects[m] <= 1 /\ (effects[m] > 0 => attempt[m].marked)
      BY Zenon DEF EffectInv, MarkedOnce
    <3>2. m > node.current => effects[m] = 0
      BY DEF EffectInv, FutureUntouched
    <3>3. CASE m <= node.current
      <4>1. attempt'[m].marked = attempt[m].marked
        BY <3>3 DEF NoNewHolder
      <4> QED
        BY <3>1, <4>1
    <3>4. CASE m > node.current
      BY <3>2, <3>4
    <3> QED
      BY <3>3, <3>4, Typed
  <2> QED
    BY <2>1, Zenon DEF MarkedOnce
<1>8. OnePermission'
  <2>1. ASSUME NEW v \in Workers, worker'[v].phase = "marked"
        PROVE  /\ attempt'[worker'[v].number].marked
               /\ effects'[worker'[v].number] = 0
    <3>1. worker'[v] = worker[v] /\ worker[v].phase = "marked"
      BY <1>1, <2>1
    <3>2. attempt[worker[v].number].marked /\ effects[worker[v].number] = 0
      BY <3>1, Zenon DEF EffectInv, OnePermission
    <3>3. /\ worker[v].number \in Numbers
          /\ worker[v].number <= node.current
      BY <1>3, <3>1
    <3>4. attempt'[worker[v].number].marked = attempt[worker[v].number].marked
      BY <3>3 DEF NoNewHolder
    <3> QED
      BY <3>1, <3>2, <3>4
  <2>2. \A u, v \in Workers :
           u # v /\ worker'[u].phase = "marked" /\ worker'[v].phase = "marked"
              => worker'[u].number # worker'[v].number
    BY <1>1 DEF EffectInv, OnePermission
  <2> QED
    BY <2>1, <2>2, Zenon DEF OnePermission
<1>9. HolderClean'
  <2>1. ASSUME NEW v \in Workers, Holding(v)'
        PROVE  /\ worker'[v].phase \in {"claimed", "executing"} =>
                     ~attempt'[worker'[v].number].marked
               /\ SentNothing(worker'[v]) => Clean(worker[v].number)'
    <3>1. /\ worker'[v] = worker[v] /\ worker[v].phase # "idle"
          /\ attempt'[worker[v].number].status = "running"
          /\ attempt'[worker[v].number].fence = worker[v].fence
      BY <1>1, <2>1 DEF Holding
    <3>2. worker[v].number \in Numbers /\ worker[v].number <= node.current
      BY <1>3, <3>1
    <3>3. Holding(v)
      BY <3>1, <3>2 DEF NoNewHolder, Holding
    <3>4. attempt'[worker[v].number].marked = attempt[worker[v].number].marked
      BY <3>2 DEF NoNewHolder
    <3>5. /\ worker[v].phase \in {"claimed", "executing"} =>
                ~attempt[worker[v].number].marked
          /\ SentNothing(worker[v]) => Clean(worker[v].number)
      BY <3>3, Zenon DEF EffectInv, HolderClean
    <3>6. Clean(worker[v].number) => Clean(worker[v].number)'
      BY <1>1, <3>1 DEF Clean
    <3> QED
      BY <3>1, <3>4, <3>5, <3>6, Zenon
  <2> QED
    BY <2>1, Zenon DEF HolderClean
<1>10. RetryClean'
  BY <1>2 DEF RetryClean
<1>11. PastClean'
  <2>1. \A m \in Numbers : m < node'.current => Clean(m)'
    BY <1>2
  <2>2. node'.status = "waiting" => Clean(node.current)'
    BY <1>1 DEF Clean
  <2> QED
    BY <2>1, <2>2, Zenon DEF PastClean
<1> QED
  BY <1>4, <1>5, <1>6, <1>7, <1>8, <1>9, <1>10, <1>11 DEF EffectInv

LEMMA RecoveryKeepsEffects ==
    ASSUME Class = "unsafe", TypeInv, TypeInv', EffectInv, NEW n \in Numbers,
           LeaseLapse(n) \/ Reclaim(n) \/ SettleUnknown(n)
    PROVE  EffectInv'
<1>1. /\ UNCHANGED <<worker, effects>> /\ attempt[n].status = "running"
      /\ node'.current = node.current
      /\ node'.status = "waiting" => node.status = "waiting"
  BY Typed
     DEF LeaseLapse, Reclaim, SettleUnknown, Expired, NodeRecord
<1>2. /\ \A m \in Numbers : m # n => attempt'[m] = attempt[m]
      /\ attempt'[n].marked = attempt[n].marked
      /\ attempt[n].fence <= attempt'[n].fence
      /\ attempt'[n].status \in {"running", "ready", "outcome_unknown"}
      /\ attempt'[n].status = "running" => attempt'[n].fence = attempt[n].fence
      /\ attempt'[n].status = "ready" => ~attempt[n].marked
  <2>1. attempt[n] \in AttemptRecord
    BY Typed
  <2>2. CASE LeaseLapse(n)
    BY <1>1, <2>1, <2>2, Typed DEF LeaseLapse, AttemptRecord
  <2>3. CASE Reclaim(n)
    <3>1. ~attempt[n].marked
      BY <2>3, Zenon DEF Reclaim
    <3> QED
      BY <1>1, <2>1, <2>3, <3>1, Typed DEF Reclaim, AttemptRecord
  <2>4. CASE SettleUnknown(n)
    BY <1>1, <2>1, <2>4, Typed DEF SettleUnknown, AttemptRecord
  <2> QED
    BY <2>2, <2>3, <2>4
<1>3. NoNewHolder
  BY <1>1, <1>2, Typed DEF NoNewHolder
<1>4. \A m \in Numbers : attempt'[m].marked => attempt'[m].status # "ready"
  BY <1>2 DEF EffectInv, MarkedOnce
<1>5. \A m \in Numbers :
         /\ attempt'[m].status = "failed"
         /\ attempt'[m].result.kind = "retry"
         /\ ~attempt'[m].result.possibly
         => Clean(m)
  BY <1>2 DEF EffectInv, RetryClean
<1>6. /\ \A m \in Numbers : m < node'.current => Clean(m)
      /\ node'.status = "waiting" => Clean(node'.current)
  BY <1>1 DEF EffectInv, PastClean
<1> QED
  BY <1>1, <1>3, <1>4, <1>5, <1>6, Typed, AttemptKeepsEffects

LEMMA CommitKeepsEffects ==
    ASSUME TypeInv, TypeInv', EffectInv, NEW w \in Workers, CompleteCommit(w)
    PROVE  EffectInv'
<1> DEFINE n == worker[w].number
           outcome == worker[w].outcome
<1>1. /\ worker[w].phase = "reporting" /\ n \in Numbers /\ Holding(w)
      /\ UNCHANGED effects
      /\ \A v \in Workers : worker'[v] = worker[v] \/ worker'[v] = Idle
  BY Typed DEF CompleteCommit, LeaseCurrent, Holding, LetGo
<1>2. outcome.status # "suspended" /\ DurableStatus(outcome) \in Settled
  <2>1. outcome \in Outcomes /\ outcome.status # "none"
    BY <1>1, TypeParts DEF Rows, WorkerRecord, Facts, ReportHasOutcome
  <2>2. outcome.status # "suspended"
    BY DEF EffectInv, NeverSuspends
  <2> QED
    BY <2>1, <2>2 DEF DurableStatus, Outcomes, Settled
<1>3. /\ \A m \in Numbers : m # n => attempt'[m] = attempt[m]
      /\ attempt'[n].marked = attempt[n].marked
      /\ attempt'[n].fence = attempt[n].fence
      /\ attempt'[n].status \in Settled
      /\ attempt'[n].result = outcome
  <2>1. attempt[n] \in AttemptRecord
    BY <1>1, Typed
  <2> QED
    BY <1>1, <1>2, <2>1, Typed DEF CompleteCommit, AttemptRecord
<1>4. node'.current = node.current /\ node'.status # "waiting"
  <2>1. node.status = "running"
    BY DEF CompleteCommit, LeaseCurrent
  <2>2. outcome.status # "executor_failure" => outcome.status \in Settled
    BY <1>2 DEF DurableStatus, Settled
  <2> QED
    BY <1>2, <2>1, <2>2, Typed DEF CompleteCommit, NodeRecord, Settled
<1>5. outcome.kind = "retry" /\ ~outcome.possibly => Clean(n)
  BY <1>1, Zenon DEF EffectInv, HolderClean, SentNothing
<1>6. NoNewHolder
  BY <1>1, <1>3, Typed DEF NoNewHolder, Settled
<1>7. \A m \in Numbers : attempt'[m].marked => attempt'[m].status # "ready"
  BY <1>3 DEF EffectInv, MarkedOnce, Settled
<1>8. \A m \in Numbers :
         /\ attempt'[m].status = "failed"
         /\ attempt'[m].result.kind = "retry"
         /\ ~attempt'[m].result.possibly
         => Clean(m)
  BY <1>3, <1>5 DEF EffectInv, RetryClean
<1>9. /\ \A m \in Numbers : m < node'.current => Clean(m)
      /\ node'.status = "waiting" => Clean(node'.current)
  BY <1>4 DEF EffectInv, PastClean
<1> QED
  BY <1>1, <1>4, <1>6, <1>7, <1>8, <1>9, Typed, AttemptKeepsEffects

LEMMA AdvanceKeepsEffects ==
    ASSUME Class = "unsafe", TypeInv, TypeInv', EffectInv, Advance
    PROVE  EffectInv'
<1>1. UNCHANGED <<worker, effects>>
  BY DEF Advance, NoChange
<1>2. CASE DecideFailure
  <2> DEFINE n == node.current
  <2>1. /\ n \in Numbers /\ attempt[n] \in AttemptRecord
        /\ attempt[n].status = "failed"
    BY <1>2, Typed DEF DecideFailure, PendingFailure
  <2>2. /\ \A m \in Numbers : m # n => attempt'[m] = attempt[m]
        /\ attempt'[n].marked = attempt[n].marked
        /\ attempt'[n].fence = attempt[n].fence
        /\ attempt'[n].status = attempt[n].status
        /\ attempt'[n].result = attempt[n].result
    BY <1>2, <2>1, Typed DEF DecideFailure, AttemptRecord
  <2>3. /\ node'.current = n
        /\ node'.status = "waiting" => FailureDecision(n) = "retry"
    <3>1. FailureDecision(n) \in Settled \union {"retry"}
      BY DEF FailureDecision, AbortReason, Settled
    <3> QED
      BY <1>2, <3>1, Typed DEF DecideFailure, NodeRecord, Settled
  <2>4. FailureDecision(n) = "retry" =>
           attempt[n].result.kind = "retry" /\ ~attempt[n].result.possibly
    BY DEF FailureDecision, AbortReason
  <2>5. FailureDecision(n) = "retry" => Clean(n)
    BY <2>1, <2>4, Zenon DEF EffectInv, RetryClean
  <2>6. NoNewHolder
    BY <2>1, <2>2, Typed DEF NoNewHolder
  <2>7. \A m \in Numbers : attempt'[m].marked => attempt'[m].status # "ready"
    BY <2>1, <2>2 DEF EffectInv, MarkedOnce
  <2>8. \A m \in Numbers :
           /\ attempt'[m].status = "failed"
           /\ attempt'[m].result.kind = "retry"
           /\ ~attempt'[m].result.possibly
           => Clean(m)
    BY <2>1, <2>2 DEF EffectInv, RetryClean
  <2>9. /\ \A m \in Numbers : m < node'.current => Clean(m)
        /\ node'.status = "waiting" => Clean(node'.current)
    BY <2>3, <2>5 DEF EffectInv, PastClean
  <2> QED
    BY <1>1, <2>1, <2>3, <2>6, <2>7, <2>8, <2>9, Typed, AttemptKeepsEffects
<1>3. CASE StopWaiting \/ FinishRun \/ ConsumeFacts
  <2>1. /\ UNCHANGED attempt /\ node'.current = node.current
        /\ node'.status = "waiting" => node.status = "waiting"
    BY <1>3, Typed
       DEF StopWaiting, FinishRun, ConsumeFacts, AbortReason, NodeRecord
  <2> QED
    BY <1>1, <2>1, ElsewhereKeepsEffects
<1>4. CASE Resume
  <2> DEFINE n == node.current + 1
  <2>1. /\ n \in Numbers /\ node.status = "waiting"
        /\ node'.current = n /\ node'.status = "ready"
    BY <1>4 DEF Resume
  <2>2. /\ \A m \in Numbers : m # n => attempt'[m] = attempt[m]
        /\ ~attempt'[n].marked /\ attempt'[n].status = "ready"
    <3>1. attempt'[n] = Admitted(node.wait = "node_wait")
      BY <1>4, <2>1, Typed DEF Resume
    <3>2. \A m \in Numbers : m # n => attempt'[m] = attempt[m]
      BY <1>4, <2>1, Typed DEF Resume
    <3> QED
      BY <3>1, <3>2 DEF Admitted, Absent
  <2>3. NoNewHolder
    BY <2>1, <2>2, Typed DEF NoNewHolder
  <2>4. \A m \in Numbers : attempt'[m].marked => attempt'[m].status # "ready"
    BY <2>2 DEF EffectInv, MarkedOnce
  <2>5. \A m \in Numbers :
           /\ attempt'[m].status = "failed"
           /\ attempt'[m].result.kind = "retry"
           /\ ~attempt'[m].result.possibly
           => Clean(m)
    BY <2>2 DEF EffectInv, RetryClean
  <2>6. \A m \in Numbers : m < node'.current => Clean(m)
    <3>1. Clean(node.current)
      <4>1. node.status = "waiting" /\ PastClean
        BY <2>1 DEF EffectInv
      <4> QED
        BY <4>1 DEF PastClean
    <3>2. \A m \in Numbers : m < node.current => Clean(m)
      BY Zenon DEF EffectInv, PastClean
    <3>3. node.current \in Nat /\ Numbers \subseteq Nat
      BY Typed
    <3>4. \A m \in Numbers :
             m < node.current + 1 => m < node.current \/ m = node.current
      BY <3>3
    <3> QED
      BY <2>1, <3>1, <3>2, <3>4, Zenon
  <2> QED
    BY <1>1, <2>1, <2>3, <2>4, <2>5, <2>6, Typed, AttemptKeepsEffects
<1> QED
  BY <1>2, <1>3, <1>4 DEF Advance, NoChange

LEMMA CloseKeepsEffects ==
    ASSUME TypeInv, TypeInv', EffectInv, CloseRun, UNCHANGED effects,
           \A v \in Workers : worker'[v] = worker[v] \/ worker'[v] = Idle
    PROVE  EffectInv'
<1>1. ASSUME NEW m \in Numbers
      PROVE  /\ attempt'[m].marked = attempt[m].marked
             /\ attempt'[m].fence = attempt[m].fence
             /\ \/ attempt'[m] = attempt[m] /\ attempt[m].status \notin Open
                \/ attempt'[m].status \in {"outcome_unknown", "canceled"}
  <2>1. attempt[m] \in AttemptRecord /\ attempt'[m] = EmergencyAttempt(m)
    BY Typed DEF CloseRun
  <2> QED
    BY <2>1 DEF EmergencyAttempt, AttemptRecord
<1>2. /\ node'.current = node.current
      /\ node'.status = EmergencyNodeStatus
  BY Typed DEF CloseRun, NodeRecord
<1>3. node'.status # "waiting"
  <2>1. node.current \in Numbers
    BY Typed
  <2>2. EmergencyAttempt(node.current) = attempt'[node.current]
    BY <2>1 DEF CloseRun
  <2>3. attempt'[node.current].status # "waiting"
    BY <2>1, TypeParts
       DEF Rows, AttemptRecord, AttemptStatuses, Open, Settled
  <2> QED
    BY <1>2, <2>2, <2>3 DEF EmergencyNodeStatus, Settled
<1>4. NoNewHolder
  BY <1>1, Typed DEF NoNewHolder, Open
<1>5. \A m \in Numbers : attempt'[m].marked => attempt'[m].status # "ready"
  BY <1>1 DEF Open
<1>6. \A m \in Numbers :
         /\ attempt'[m].status = "failed"
         /\ attempt'[m].result.kind = "retry"
         /\ ~attempt'[m].result.possibly
         => Clean(m)
  BY <1>1 DEF EffectInv, RetryClean
<1>7. \A m \in Numbers : m < node'.current => Clean(m)
  BY <1>2 DEF EffectInv, PastClean
<1> QED
  BY <1>2, <1>3, <1>4, <1>5, <1>6, <1>7, Typed, AttemptKeepsEffects

LEMMA EffectStep ==
    ASSUME Class = "unsafe", TypeInv, TypeInv', EffectInv, [Next]_vars
    PROVE  EffectInv'
<1>1. CASE UNCHANGED vars
  BY <1>1, ElsewhereKeepsEffects DEF vars
<1>2. ASSUME NEW e \in Events,
             \/ Publish(e) \/ FailPublication(e) \/ LoseJob(e)
             \/ SettleOverdueDelivery(e) \/ ReplaceFailedJob(e)
      PROVE  EffectInv'
  BY <1>2, ElsewhereKeepsEffects
     DEF Publish, FailPublication, LoseJob, SettleOverdueDelivery,
         ReplaceFailedJob
<1>3. ASSUME NEW w \in Workers, NEW e \in Events, ClaimDelivery(w, e)
      PROVE  EffectInv'
  BY <1>3, ClaimKeepsEffects
<1>4. ASSUME NEW w \in Workers, WorkerStep(w) \/ Crash(w) PROVE EffectInv'
  BY <1>4, MemoryStepKeepsEffects, MarkKeepsEffects, SendKeepsEffects,
     CommitKeepsEffects
     DEF WorkerStep
<1>5. ASSUME NEW n \in Numbers,
             LeaseLapse(n) \/ RecoverExpired(n) \/ OperatorSettleUnknown(n)
      PROVE  EffectInv'
  BY <1>5, RecoveryKeepsEffects DEF RecoverExpired, OperatorSettleUnknown
<1>6. CASE Cancel \/ DeadlinePasses \/ ClaimDueDeadline \/ AdvanceEnded
  BY <1>6, ElsewhereKeepsEffects
     DEF Cancel, DeadlinePasses, ClaimDueDeadline, AdvanceEnded
<1>7. CASE TimerDue \/ ClaimDueWakeup
  <2>1. /\ UNCHANGED <<attempt, worker, effects>>
        /\ node'.current = node.current /\ node'.status = node.status
    BY <1>7, Typed DEF TimerDue, ClaimDueWakeup, NodeRecord
  <2> QED
    BY <2>1, ElsewhereKeepsEffects
<1>8. CASE Advance
  BY <1>8, AdvanceKeepsEffects
<1>9. CASE CoordinatorGivesUp
  BY <1>9, CloseKeepsEffects DEF CoordinatorGivesUp
<1>10. ASSUME NEW w \in Workers, WorkerGivesUp(w) PROVE EffectInv'
  <2>1. /\ LetGo(w) /\ UNCHANGED effects
        /\ CloseRun \/ UNCHANGED <<attempt, node>>
    BY <1>10 DEF WorkerGivesUp
  <2>2. \A v \in Workers : worker'[v] = worker[v] \/ worker'[v] = Idle
    BY <2>1, Typed DEF LetGo
  <2> QED
    BY <2>1, <2>2, CloseKeepsEffects, LetGoKeepsEffects
<1> QED
  BY <1>1, <1>2, <1>3, <1>4, <1>5, <1>6, <1>7, <1>8, <1>9, <1>10 DEF Next

LEMMA EffectImpliesOnce ==
    ASSUME TypeInv, EffectInv
    PROVE  AtMostOneEffect
<1>1. ASSUME NEW m \in Numbers, effects[m] > 0
      PROVE  m = node.current /\ effects[m] = 1
  <2>1. ~(m > node.current) /\ ~(m < node.current)
    BY <1>1, Typed DEF EffectInv, FutureUntouched, PastClean, Clean
  <2>2. effects[m] <= 1
    BY Zenon DEF EffectInv, MarkedOnce
  <2> QED
    BY <1>1, <2>1, <2>2, Typed
<1> QED
  BY <1>1 DEF AtMostOneEffect

(* However many workers, attempts, deliveries, crashes and lapsed leases a *)
(* step meets, a side effect that may not be repeated is made at most once *)
(* over all its attempts.                                                  *)
THEOREM UnsafeEffectOnce == Spec => []AtMostOneEffect
<1> DEFINE Inv == TypeInv /\ (Class = "unsafe" => EffectInv)
<1>1. Init => Inv
  BY TypeInit, EffectInit
<1>2. Inv /\ [Next]_vars => Inv'
  BY TypeStep, EffectStep
<1>3. Inv => AtMostOneEffect
  BY EffectImpliesOnce DEF AtMostOneEffect
<1> QED
  BY <1>1, <1>2, <1>3, PTL DEF Spec

=============================================================================
