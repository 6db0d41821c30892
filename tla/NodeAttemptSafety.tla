------------------------- MODULE NodeAttemptSafety -------------------------
(***************************************************************************)
(* Further proofs about NodeAttempt, for every number of workers, attempts,*)
(* events and faults: a settled result never changes, no work outlives its *)
(* run, a receipt is only completed for a settled attempt, nothing is      *)
(* stranded, a canceled attempt made no effect, and a step with an unsafe  *)
(* side effect keeps the promise of StepPromise.                           *)
(***************************************************************************)
EXTENDS NodeAttemptProofs

-----------------------------------------------------------------------------
(* What each step does to the rows, field by field.                        *)

(* The fields of an attempt's row apart from its status.                   *)
SameFields(m) ==
    /\ attempt'[m].fence = attempt[m].fence
    /\ attempt'[m].marked = attempt[m].marked
    /\ attempt'[m].resume = attempt[m].resume
    /\ attempt'[m].result = attempt[m].result
    /\ attempt'[m].decision = attempt[m].decision
OthersSame(n) == \A m \in Numbers : m # n => attempt'[m] = attempt[m]

LEMMA ClaimFacts ==
    ASSUME TypeInv, NEW w \in Workers, NEW e \in Events,
           ClaimDelivery(w, e), ClaimReady(w, e)
    PROVE  LET n == node.current IN
           /\ outbox[e].number = n /\ worker[w].phase = "idle"
           /\ attempt[n].status = "ready" /\ attempt'[n].status = "running"
           /\ attempt'[n].fence = attempt[n].fence + 1
           /\ attempt'[n].marked = attempt[n].marked
           /\ attempt'[n].resume = attempt[n].resume
           /\ attempt'[n].result = attempt[n].result
           /\ attempt'[n].decision = attempt[n].decision
           /\ OthersSame(n)
           /\ node.status = "ready" /\ node'.status = "running"
           /\ node'.current = n /\ node'.wait = node.wait
           /\ worker'[w].phase = "claimed" /\ worker'[w].number = n
           /\ worker'[w].event = e
           /\ worker'[w].fence = attempt[n].fence + 1
           /\ worker'[w].unresolved = Unresolved(n)
           /\ worker'[w].outcome = NoOutcome
           /\ \A v \in Workers : v # w => worker'[v] = worker[v]
<1> DEFINE n == outbox[e].number
<1>1. n = node.current /\ n \in Numbers /\ attempt[n] \in AttemptRecord
      /\ worker[w].phase = "idle" /\ node \in NodeRecord
  BY Typed DEF ClaimDelivery, DeliveryCurrent
<1>2. /\ attempt[n].status = "ready" /\ attempt'[n].status = "running"
      /\ attempt'[n].fence = attempt[n].fence + 1
      /\ attempt'[n].marked = attempt[n].marked
      /\ attempt'[n].resume = attempt[n].resume
      /\ attempt'[n].result = attempt[n].result
      /\ attempt'[n].decision = attempt[n].decision
      /\ OthersSame(n)
  BY <1>1, Typed DEF ClaimReady, AttemptRecord, OthersSame
<1>3. /\ node.status = "ready" /\ node'.status = "running"
      /\ node'.current = node.current /\ node'.wait = node.wait
  BY <1>1 DEF ClaimReady, NodeRecord
<1>4. /\ worker'[w].phase = "claimed" /\ worker'[w].number = n
      /\ worker'[w].event = e
      /\ worker'[w].fence = attempt[n].fence + 1
      /\ worker'[w].unresolved = Unresolved(n)
      /\ worker'[w].outcome = NoOutcome
      /\ \A v \in Workers : v # w => worker'[v] = worker[v]
  BY Typed DEF ClaimReady
<1> QED
  BY <1>1, <1>2, <1>3, <1>4

LEMMA MarkFacts ==
    ASSUME TypeInv, NEW w \in Workers, MarkDispatched(w)
    PROVE  LET n == node.current IN
           /\ worker[w].number = n /\ worker[w].phase = "executing"
           /\ Holding(w)
           /\ attempt[n].status = "running"
           /\ attempt'[n].status = "running" /\ attempt'[n].marked = TRUE
           /\ attempt'[n].fence = attempt[n].fence
           /\ attempt'[n].resume = attempt[n].resume
           /\ attempt'[n].result = attempt[n].result
           /\ attempt'[n].decision = attempt[n].decision
           /\ OthersSame(n)
           /\ \E phase \in {"marked", "unsent"} :
                 worker'[w] = [worker[w] EXCEPT !.phase = phase]
           /\ \A v \in Workers : v # w => worker'[v] = worker[v]
<1> DEFINE n == worker[w].number
<1>1. /\ n = node.current /\ n \in Numbers /\ attempt[n] \in AttemptRecord
      /\ worker[w].phase = "executing" /\ Holding(w)
      /\ attempt[n].status = "running"
  BY Typed DEF MarkDispatched, LeaseCurrent, Holding
<1>2. /\ attempt' = [attempt EXCEPT ![n] = [attempt[n] EXCEPT !.marked = TRUE]]
  BY DEF MarkDispatched
<1>3. /\ attempt'[n] = [attempt[n] EXCEPT !.marked = TRUE]
      /\ OthersSame(n)
  BY <1>1, <1>2, Typed DEF OthersSame
<1>4. /\ attempt'[n].status = "running" /\ attempt'[n].marked = TRUE
      /\ attempt'[n].fence = attempt[n].fence
      /\ attempt'[n].resume = attempt[n].resume
      /\ attempt'[n].result = attempt[n].result
      /\ attempt'[n].decision = attempt[n].decision
  BY <1>1, <1>3 DEF AttemptRecord
<1>5. /\ \E phase \in {"marked", "unsent"} :
            worker'[w] = [worker[w] EXCEPT !.phase = phase]
      /\ \A v \in Workers : v # w => worker'[v] = worker[v]
  BY Typed DEF MarkDispatched, InPhase
<1> QED
  BY <1>1, <1>3, <1>4, <1>5

LEMMA CommitFacts ==
    ASSUME TypeInv, NEW w \in Workers, CompleteCommit(w)
    PROVE  LET n == node.current
               outcome == worker[w].outcome
           IN
           /\ worker[w].number = n /\ worker[w].phase = "reporting"
           /\ Holding(w)
           /\ outcome \in Outcomes /\ outcome.status # "none"
           /\ attempt[n].status = "running" /\ node.status = "running"
           /\ attempt'[n].status = DurableStatus(outcome)
           /\ attempt'[n].status \in Settled
           /\ attempt'[n].result = outcome
           /\ attempt'[n].decision =
                 IF outcome.status = "executor_failure" THEN "pending" ELSE "none"
           /\ attempt'[n].fence = attempt[n].fence
           /\ attempt'[n].marked = attempt[n].marked
           /\ attempt'[n].resume = attempt[n].resume
           /\ OthersSame(n)
           /\ node'.current = n
           /\ outcome.status = "executor_failure" => node' = node
           /\ outcome.status = "suspended" =>
                 /\ node'.status = "waiting" /\ node'.wait = "node_wait"
                 /\ node'.timer = "set"
           /\ outcome.status \notin {"executor_failure", "suspended"} =>
                 /\ outcome.status \in Settled
                 /\ node'.status = outcome.status /\ node'.wait = node.wait
           /\ \A v \in Workers : worker'[v] = worker[v] \/ worker'[v] = Idle
<1> DEFINE n == worker[w].number
           outcome == worker[w].outcome
<1>1. /\ n = node.current /\ n \in Numbers /\ attempt[n] \in AttemptRecord
      /\ worker[w].phase = "reporting" /\ Holding(w) /\ node \in NodeRecord
      /\ attempt[n].status = "running" /\ node.status = "running"
  BY Typed DEF CompleteCommit, LeaseCurrent, Holding
<1>2. outcome \in Outcomes /\ outcome.status # "none"
  BY <1>1, TypeParts DEF Rows, WorkerRecord, Facts, ReportHasOutcome
<1>3. /\ DurableStatus(outcome) \in Settled
      /\ outcome.status \notin {"executor_failure", "suspended"} =>
            outcome.status \in Settled
  BY <1>2 DEF DurableStatus, Outcomes, Settled
<1>4. /\ attempt'[n].status = DurableStatus(outcome)
      /\ attempt'[n].result = outcome
      /\ attempt'[n].decision =
            IF outcome.status = "executor_failure" THEN "pending" ELSE "none"
      /\ attempt'[n].fence = attempt[n].fence
      /\ attempt'[n].marked = attempt[n].marked
      /\ attempt'[n].resume = attempt[n].resume
      /\ OthersSame(n)
  BY <1>1, Typed DEF CompleteCommit, AttemptRecord, OthersSame
<1>5. /\ outcome.status = "executor_failure" => node' = node
      /\ outcome.status = "suspended" =>
            node' = [node EXCEPT !.status = "waiting", !.wait = "node_wait",
                                 !.timer = "set"]
      /\ outcome.status \notin {"executor_failure", "suspended"} =>
            node' = [node EXCEPT !.status = outcome.status]
  BY DEF CompleteCommit
<1>6. /\ node'.current = node.current
      /\ outcome.status = "suspended" =>
            /\ node'.status = "waiting" /\ node'.wait = "node_wait"
            /\ node'.timer = "set"
      /\ outcome.status \notin {"executor_failure", "suspended"} =>
            node'.status = outcome.status /\ node'.wait = node.wait
  BY <1>1, <1>5 DEF NodeRecord
<1>7. \A v \in Workers : worker'[v] = worker[v] \/ worker'[v] = Idle
  BY Typed DEF CompleteCommit, LetGo
<1> QED
  BY <1>1, <1>2, <1>3, <1>4, <1>5, <1>6, <1>7

LEMMA RecoveryFacts ==
    ASSUME TypeInv, NEW n \in Numbers,
           LeaseLapse(n) \/ Reclaim(n) \/ SettleUnknown(n)
    PROVE  /\ attempt[n].status = "running" /\ OthersSame(n)
           /\ attempt'[n].marked = attempt[n].marked
           /\ attempt'[n].resume = attempt[n].resume
           /\ attempt'[n].result = attempt[n].result
           /\ attempt'[n].decision = attempt[n].decision
           /\ LeaseLapse(n) =>
                 /\ attempt'[n].status = "running" /\ node' = node
                 /\ attempt'[n].fence = attempt[n].fence
           /\ Reclaim(n) =>
                 /\ ~(attempt[n].marked /\ Class = "unsafe")
                 /\ attempt'[n].status = "ready"
                 /\ attempt'[n].fence = attempt[n].fence + 1
                 /\ node.current = n /\ node.status = "running"
                 /\ node'.status = "ready" /\ node'.wait = node.wait
           /\ SettleUnknown(n) =>
                 /\ attempt'[n].status = "outcome_unknown"
                 /\ attempt'[n].fence = attempt[n].fence + 1
                 /\ node'.wait = node.wait
                 /\ node'.status =
                       IF node.current = n THEN "outcome_unknown" ELSE node.status
           /\ node'.current = node.current
           /\ UNCHANGED <<run, worker, effects>>
<1>1. attempt[n] \in AttemptRecord /\ attempt[n].status = "running"
  BY Typed DEF LeaseLapse, Reclaim, SettleUnknown, Expired
<1>2. UNCHANGED <<run, worker, effects>>
  BY Zenon DEF LeaseLapse, Reclaim, SettleUnknown, runVars
<1>3. CASE LeaseLapse(n)
  <2>1. /\ attempt'[n] = [attempt[n] EXCEPT !.live = FALSE]
        /\ OthersSame(n) /\ node' = node
    BY <1>3, Typed DEF LeaseLapse, OthersSame
  <2>2. SameFields(n) /\ attempt'[n].status = attempt[n].status
    BY <1>1, <2>1 DEF AttemptRecord, SameFields
  <2>3. ~Reclaim(n) /\ ~SettleUnknown(n)
    BY <1>3 DEF LeaseLapse, Reclaim, SettleUnknown, Expired
  <2> QED
    BY <1>1, <1>2, <2>1, <2>2, <2>3 DEF SameFields
<1>4. CASE Reclaim(n)
  <2>1. /\ attempt'[n] = [attempt[n] EXCEPT !.status = "ready",
                             !.owner = NoWorker, !.fence = @ + 1]
        /\ OthersSame(n)
        /\ ~(attempt[n].marked /\ Class = "unsafe")
        /\ node.current = n /\ node.status = "running"
        /\ node' = [node EXCEPT !.status = "ready"]
    BY <1>4, Typed DEF Reclaim, OthersSame
  <2>2. /\ attempt'[n].status = "ready"
        /\ attempt'[n].fence = attempt[n].fence + 1
        /\ attempt'[n].marked = attempt[n].marked
        /\ attempt'[n].resume = attempt[n].resume
        /\ attempt'[n].result = attempt[n].result
        /\ attempt'[n].decision = attempt[n].decision
    BY <1>1, <2>1 DEF AttemptRecord
  <2>3. /\ node'.current = node.current /\ node'.status = "ready"
        /\ node'.wait = node.wait
    BY <2>1, Typed DEF NodeRecord
  <2>4. ~LeaseLapse(n) /\ ~SettleUnknown(n)
    <3>1. ~LeaseLapse(n)
      BY <1>4 DEF LeaseLapse, Reclaim, Expired
    <3>2. SettleUnknown(n) => attempt'[n].status = "outcome_unknown"
      BY <1>1, Typed DEF SettleUnknown, AttemptRecord
    <3> QED
      BY <2>2, <3>1, <3>2
  <2> QED
    BY <1>1, <1>2, <2>1, <2>2, <2>3, <2>4
<1>5. CASE SettleUnknown(n)
  <2>1. /\ attempt'[n] = [attempt[n] EXCEPT !.status = "outcome_unknown",
                             !.owner = NoWorker, !.fence = @ + 1]
        /\ OthersSame(n)
        /\ node' = IF node.current = n
                   THEN [node EXCEPT !.status = "outcome_unknown"] ELSE node
    BY <1>5, Typed DEF SettleUnknown, OthersSame
  <2>2. /\ attempt'[n].status = "outcome_unknown"
        /\ attempt'[n].fence = attempt[n].fence + 1
        /\ attempt'[n].marked = attempt[n].marked
        /\ attempt'[n].resume = attempt[n].resume
        /\ attempt'[n].result = attempt[n].result
        /\ attempt'[n].decision = attempt[n].decision
    BY <1>1, <2>1 DEF AttemptRecord
  <2>3. /\ node'.current = node.current /\ node'.wait = node.wait
        /\ node'.status =
              IF node.current = n THEN "outcome_unknown" ELSE node.status
    BY <2>1, Typed DEF NodeRecord
  <2>4. ~LeaseLapse(n) /\ ~Reclaim(n)
    <3>1. ~LeaseLapse(n)
      BY <1>5 DEF LeaseLapse, SettleUnknown, Expired
    <3>2. Reclaim(n) => attempt'[n].status = "ready"
      BY <1>1, Typed DEF Reclaim, AttemptRecord
    <3> QED
      BY <2>2, <3>1, <3>2
  <2> QED
    BY <1>1, <1>2, <2>1, <2>2, <2>3, <2>4
<1> QED
  BY <1>3, <1>4, <1>5

LEMMA TimerFacts ==
    ASSUME TypeInv, TimerDue \/ ClaimDueWakeup
    PROVE  /\ node'.current = node.current /\ node'.status = node.status
           /\ node'.wait = node.wait
           /\ TimerDue => node'.timer = "due"
           /\ ClaimDueWakeup => wake' = TRUE
           /\ UNCHANGED <<attempt, run, worker, effects>>
BY Typed DEF TimerDue, ClaimDueWakeup, NodeRecord, runVars

(* The decision of a failed attempt, and what it never is.                 *)
LEMMA DecideFacts ==
    ASSUME TypeInv, DecideFailure
    PROVE  LET n == node.current
               decision == FailureDecision(n)
           IN
           /\ node.status = "running" /\ attempt[n].status = "failed"
           /\ attempt[n].decision = "pending"
           /\ decision \in {"retry", "outcome_unknown", "canceled", "timed_out",
                            "failed"}
           /\ attempt'[n].status = "failed" /\ attempt'[n].decision = decision
           /\ attempt'[n].fence = attempt[n].fence
           /\ attempt'[n].marked = attempt[n].marked
           /\ attempt'[n].resume = attempt[n].resume
           /\ attempt'[n].result = attempt[n].result
           /\ OthersSame(n)
           /\ node'.current = n
           /\ decision = "retry" =>
                 /\ node'.status = "waiting" /\ node'.wait = "retry_backoff"
                 /\ node'.timer = "set" /\ UNCHANGED run
           /\ decision # "retry" =>
                 /\ node'.status = decision /\ node'.wait = node.wait
                 /\ run' = TerminalRunStatus(decision)
<1> DEFINE n == node.current
           decision == FailureDecision(n)
<1>1. /\ n \in Numbers /\ attempt[n] \in AttemptRecord
      /\ node.status = "running" /\ attempt[n].status = "failed"
      /\ attempt[n].decision = "pending" /\ node \in NodeRecord
  BY Typed DEF DecideFailure, PendingFailure
<1>2. decision \in {"retry", "outcome_unknown", "canceled", "timed_out", "failed"}
  BY DEF FailureDecision, AbortReason
<1> HIDE DEF decision
<1>3. attempt' = [attempt EXCEPT ![n].decision = decision]
  BY DEF DecideFailure, decision
<1>4. /\ attempt'[n] = [attempt[n] EXCEPT !.decision = decision]
      /\ OthersSame(n)
  BY <1>1, <1>3, Typed DEF OthersSame
<1>5. /\ attempt'[n].status = attempt[n].status
      /\ attempt'[n].decision = decision
      /\ attempt'[n].fence = attempt[n].fence
      /\ attempt'[n].marked = attempt[n].marked
      /\ attempt'[n].resume = attempt[n].resume
      /\ attempt'[n].result = attempt[n].result
  BY <1>1, <1>4 DEF AttemptRecord
<1>6. decision = "retry" =>
         /\ node'.status = "waiting" /\ node'.wait = "retry_backoff"
         /\ node'.timer = "set" /\ UNCHANGED run /\ node'.current = n
  BY <1>1 DEF DecideFailure, NodeRecord, decision
<1>7. decision # "retry" =>
         /\ node'.status = decision /\ node'.wait = node.wait
         /\ run' = TerminalRunStatus(decision) /\ node'.current = n
  BY <1>1 DEF DecideFailure, NodeRecord, decision
<1> QED
  BY <1>1, <1>2, <1>4, <1>5, <1>6, <1>7 DEF decision

LEMMA StopFacts ==
    ASSUME TypeInv, StopWaiting
    PROVE  /\ node.status = "waiting" /\ AbortReason \in {"canceled", "timed_out"}
           /\ node'.status = AbortReason /\ node'.wait = "none"
           /\ node'.current = node.current /\ UNCHANGED attempt
           /\ run' = TerminalRunStatus(AbortReason)
BY Typed DEF StopWaiting, AbortReason, NodeRecord

LEMMA ResumeFacts ==
    ASSUME TypeInv, Resume
    PROVE  LET n == node.current + 1 IN
           /\ n \in Numbers /\ node.status = "waiting"
           /\ attempt'[n] = Admitted(node.wait = "node_wait")
           /\ attempt'[n].status = "ready" /\ attempt'[n].fence = 0
           /\ attempt'[n].marked = FALSE
           /\ attempt'[n].resume = (node.wait = "node_wait")
           /\ attempt'[n].result = NoOutcome /\ attempt'[n].decision = "none"
           /\ OthersSame(n)
           /\ node'.current = n /\ node'.status = "ready" /\ node'.wait = "none"
           /\ UNCHANGED run
<1> DEFINE n == node.current + 1
<1>1. /\ n \in Numbers /\ node.status = "waiting"
      /\ attempt'[n] = Admitted(node.wait = "node_wait") /\ OthersSame(n)
      /\ node'.current = n /\ node'.status = "ready" /\ node'.wait = "none"
      /\ UNCHANGED run
  BY Typed DEF Resume, OthersSame
<1>2. /\ attempt'[n].status = "ready" /\ attempt'[n].fence = 0
      /\ attempt'[n].marked = FALSE
      /\ attempt'[n].resume = (node.wait = "node_wait")
      /\ attempt'[n].result = NoOutcome /\ attempt'[n].decision = "none"
  BY <1>1 DEF Admitted, Absent
<1> QED
  BY <1>1, <1>2

LEMMA CloseFacts ==
    ASSUME TypeInv, CloseRun
    PROVE  /\ run = "active" /\ run' # "active"
           /\ run' = IF EmergencyNodeStatus = "outcome_unknown"
                     THEN "outcome_unknown" ELSE "failed"
           /\ node'.current = node.current /\ node'.status = EmergencyNodeStatus
           /\ node'.wait = "none"
           /\ \A m \in Numbers :
                 /\ SameFields(m)
                 /\ attempt'[m].status =
                       IF attempt[m].status \notin Open THEN attempt[m].status
                       ELSE IF Class # "safe" /\ attempt[m].marked
                            THEN "outcome_unknown" ELSE "canceled"
                 /\ attempt[m].status \notin Open => attempt'[m] = attempt[m]
           /\ EmergencyAttempt(node.current) = attempt'[node.current]
<1>1. /\ run = "active" /\ run' # "active"
      /\ run' = IF EmergencyNodeStatus = "outcome_unknown"
                THEN "outcome_unknown" ELSE "failed"
  BY DEF CloseRun
<1>2. /\ node'.current = node.current /\ node'.status = EmergencyNodeStatus
      /\ node'.wait = "none"
  BY Typed DEF CloseRun, NodeRecord
<1>3. ASSUME NEW m \in Numbers
      PROVE  /\ SameFields(m)
             /\ attempt'[m].status =
                   IF attempt[m].status \notin Open THEN attempt[m].status
                   ELSE IF Class # "safe" /\ attempt[m].marked
                        THEN "outcome_unknown" ELSE "canceled"
             /\ attempt[m].status \notin Open => attempt'[m] = attempt[m]
  <2>1. attempt[m] \in AttemptRecord /\ attempt'[m] = EmergencyAttempt(m)
    BY Typed DEF CloseRun
  <2>2. CASE attempt[m].status \notin Open
    BY <2>1, <2>2 DEF EmergencyAttempt, SameFields
  <2>3. CASE attempt[m].status \in Open
    <3>1. \E status \in {"outcome_unknown", "canceled"} :
             /\ status = IF Class # "safe" /\ attempt[m].marked
                         THEN "outcome_unknown" ELSE "canceled"
             /\ attempt'[m] = [attempt[m] EXCEPT !.status = status,
                                 !.owner = NoWorker, !.live = FALSE]
      BY <2>1, <2>3 DEF EmergencyAttempt
    <3> QED
      BY <2>1, <2>3, <3>1 DEF AttemptRecord, SameFields
  <2> QED
    BY <2>2, <2>3
<1>4. EmergencyAttempt(node.current) = attempt'[node.current]
  BY Typed DEF CloseRun
<1> QED
  BY <1>1, <1>2, <1>3, <1>4

(* What the emergency close writes into the node.                          *)
LEMMA CloseStatus ==
    ASSUME TypeInv, CloseRun
    PROVE  LET c == attempt[node.current] IN
           /\ node.status \in Settled => node'.status = node.status
           /\ node.status \notin Settled =>
                 \/ /\ c.status = "succeeded"
                    /\ node'.status =
                          IF node.status = "running" THEN "succeeded"
                          ELSE "canceled"
                 \/ c.status # "succeeded" /\ node'.status = "outcome_unknown"
                 \/ /\ c.status # "succeeded"
                    /\ attempt'[node.current].status # "outcome_unknown"
                    /\ node'.status = attempt'[node.current].status
           /\ node'.status \in Settled
<1>1. /\ node'.status = EmergencyNodeStatus /\ node.current \in Numbers
      /\ EmergencyAttempt(node.current) = attempt'[node.current]
  BY CloseFacts, Typed
<1>2. attempt'[node.current].status \in Settled
  <2>1. attempt[node.current].status \in Open \union Settled
    <3>1. attempt[node.current] \in AttemptRecord
      BY <1>1, Typed
    <3> QED
      BY <3>1, TypeParts DEF Facts, CurrentAdmitted, AttemptRecord, AttemptStatuses
  <2> QED
    BY <1>1, <2>1, CloseFacts DEF Settled
<1>3. CASE node.status \in Settled
  BY <1>1, <1>3 DEF EmergencyNodeStatus
<1>4. CASE node.status \notin Settled
  <2>1. CASE attempt[node.current].status = "succeeded"
    BY <1>1, <1>4, <2>1 DEF EmergencyNodeStatus, Settled
  <2>2. CASE attempt[node.current].status # "succeeded"
    BY <1>1, <1>2, <1>4, <2>2 DEF EmergencyNodeStatus, Settled
  <2> QED
    BY <2>1, <2>2
<1> QED
  BY <1>3, <1>4

LEMMA TerminalStatus ==
    ASSUME NEW status \in Settled
    PROVE  /\ TerminalRunStatus(status) \in Settled
           /\ (TerminalRunStatus(status) = "outcome_unknown")
                 <=> (status = "outcome_unknown")
BY DEF TerminalRunStatus, AbortReason, Settled

-----------------------------------------------------------------------------
(* The node follows its current attempt: which statuses can stand side by  *)
(* side, that no other attempt is open, that later ones do not exist yet,  *)
(* and that a run which ended left its step settled.                       *)

NodeFollows ==
    LET c == attempt[node.current] IN
    /\ node.status = "ready" => c.status = "ready"
    /\ node.status = "running" =>
          c.status = "running" \/ (c.status = "failed" /\ c.decision = "pending")
    /\ node.status = "waiting" => c.status \in {"failed", "succeeded"}
    /\ node.status \in Settled => c.status \in Settled
OneOpenAttempt ==
    \A n \in Numbers : n # node.current => attempt[n].status \notin Open
LaterAbsent == \A n \in Numbers : n > node.current => attempt[n] = Absent
EndedSettled == run # "active" => node.status \in Settled

Structure == NodeFollows /\ OneOpenAttempt /\ LaterAbsent /\ EndedSettled

(* What one step may do to what is settled.                                *)
KeepsSettled ==
    \A n \in Numbers :
        /\ attempt[n].fence <= attempt'[n].fence
        /\ attempt[n].status \in Settled =>
              /\ attempt'[n].status = attempt[n].status
              /\ attempt'[n].result = attempt[n].result

LEMMA StructureInit == Init => Structure
<1> SUFFICES ASSUME Init PROVE Structure
  OBVIOUS
<1>1. /\ node.status = "ready" /\ node.current = 1 /\ run = "active"
      /\ \A n \in Numbers :
            attempt[n] = IF n = 1 THEN Admitted(FALSE) ELSE Absent
      /\ 1 \in Numbers /\ Admitted(FALSE).status = "ready"
      /\ Absent.status = "absent"
  BY RowTypes DEF Init, Admitted, Absent
<1>2. NodeFollows /\ EndedSettled
  BY <1>1 DEF NodeFollows, EndedSettled, Settled
<1>3. OneOpenAttempt
  BY <1>1 DEF OneOpenAttempt, Open
<1>4. LaterAbsent
  <2>1. \A n \in Numbers : n > 1 => n # 1
    BY DEF Numbers
  <2> QED
    BY <1>1, <2>1 DEF LaterAbsent
<1> QED
  BY <1>2, <1>3, <1>4 DEF Structure

(* A step that changes at most the current attempt's row.                  *)
LEMMA CurrentRowStep ==
    ASSUME TypeInv, TypeInv', Structure, OthersSame(node.current),
           node'.current = node.current,
           NodeFollows', EndedSettled',
           attempt[node.current].fence <= attempt'[node.current].fence,
           attempt[node.current].status \in Settled =>
              /\ attempt'[node.current].status = attempt[node.current].status
              /\ attempt'[node.current].result = attempt[node.current].result
    PROVE  Structure' /\ KeepsSettled
<1>1. node.current \in Numbers /\ Numbers \subseteq Nat
  BY Typed
<1>2. OneOpenAttempt'
  BY DEF Structure, OneOpenAttempt, OthersSame
<1>3. LaterAbsent'
  BY <1>1 DEF Structure, LaterAbsent, OthersSame
<1>4. KeepsSettled
  BY Typed DEF KeepsSettled, OthersSame
<1> QED
  BY <1>2, <1>3, <1>4 DEF Structure

LEMMA ElsewhereStructure ==
    ASSUME TypeInv, Structure, UNCHANGED attempt, run' = run \/ run' = "active",
           node'.current = node.current, node'.status = node.status
    PROVE  Structure' /\ KeepsSettled
<1>1. NodeFollows' /\ OneOpenAttempt' /\ LaterAbsent' /\ EndedSettled'
  BY DEF Structure, NodeFollows, OneOpenAttempt, LaterAbsent, EndedSettled
<1>2. KeepsSettled
  BY Typed DEF KeepsSettled
<1> QED
  BY <1>1, <1>2 DEF Structure

LEMMA ClaimStructure ==
    ASSUME TypeInv, TypeInv', Structure, NEW w \in Workers, NEW e \in Events,
           ClaimDelivery(w, e)
    PROVE  Structure' /\ KeepsSettled
<1>1. UNCHANGED run
  BY DEF ClaimDelivery, runVars
<1>2. CASE ClaimSettled(w, e) \/ ClaimRunning(w, e)
  BY <1>1, <1>2, ElsewhereStructure DEF ClaimSettled, ClaimRunning
<1>3. CASE ClaimReady(w, e)
  <2>1. NodeFollows'
    BY <1>3, ClaimFacts DEF NodeFollows, Settled
  <2>2. run = "active"
    BY <1>3, ClaimFacts DEF Structure, EndedSettled, Settled
  <2>3. /\ EndedSettled' /\ OthersSame(node.current)
        /\ node'.current = node.current
        /\ attempt[node.current].status \notin Settled
    BY <1>1, <1>3, <2>2, ClaimFacts DEF EndedSettled, Settled
  <2>4. attempt[node.current].fence <= attempt'[node.current].fence
    BY <1>3, ClaimFacts, Typed
  <2> QED
    BY <2>1, <2>3, <2>4, CurrentRowStep
<1> QED
  BY <1>2, <1>3 DEF ClaimDelivery

LEMMA MarkStructure ==
    ASSUME TypeInv, TypeInv', Structure, NEW w \in Workers, MarkDispatched(w)
    PROVE  Structure' /\ KeepsSettled
<1>1. UNCHANGED <<node, run>>
  BY DEF MarkDispatched, runVars
<1>2. NodeFollows' /\ EndedSettled'
  BY <1>1, MarkFacts DEF Structure, NodeFollows, EndedSettled
<1>3. /\ OthersSame(node.current) /\ attempt[node.current].status \notin Settled
      /\ attempt'[node.current].fence = attempt[node.current].fence
  BY MarkFacts DEF Settled
<1>4. attempt[node.current].fence <= attempt'[node.current].fence
  BY <1>3, Typed
<1> QED
  BY <1>1, <1>2, <1>3, <1>4, CurrentRowStep

LEMMA CommitStructure ==
    ASSUME TypeInv, TypeInv', Structure, NEW w \in Workers, CompleteCommit(w)
    PROVE  Structure' /\ KeepsSettled
<1> DEFINE n == node.current
           outcome == worker[w].outcome
<1>1. UNCHANGED run
  BY DEF CompleteCommit, runVars
<1>2. NodeFollows'
  <2>1. CASE outcome.status = "executor_failure"
    <3>1. /\ node'.status = "running" /\ node'.current = n
          /\ attempt'[n].decision = "pending"
          /\ attempt'[n].status = DurableStatus(outcome)
      BY <2>1, CommitFacts
    <3>2. DurableStatus(outcome) = "failed"
      BY <2>1 DEF DurableStatus
    <3> QED
      BY <3>1, <3>2 DEF NodeFollows, Settled
  <2>2. CASE outcome.status = "suspended"
    <3>1. /\ node'.status = "waiting" /\ node'.current = n
          /\ attempt'[n].status = DurableStatus(outcome)
      BY <2>2, CommitFacts
    <3>2. DurableStatus(outcome) = "succeeded"
      BY <2>2 DEF DurableStatus
    <3> QED
      BY <3>1, <3>2 DEF NodeFollows, Settled
  <2>3. CASE outcome.status \notin {"executor_failure", "suspended"}
    <3>1. /\ node'.status \in Settled /\ node'.current = n
          /\ attempt'[n].status \in Settled
      BY <2>3, CommitFacts
    <3> QED
      BY <3>1 DEF NodeFollows, Settled
  <2> QED
    BY <2>1, <2>2, <2>3
<1>3. EndedSettled'
  BY <1>1, CommitFacts DEF Structure, EndedSettled, Settled
<1>4. /\ OthersSame(n) /\ node'.current = n /\ attempt[n].status \notin Settled
      /\ attempt[n].fence <= attempt'[n].fence
  BY CommitFacts, Typed DEF Settled
<1> QED
  BY <1>2, <1>3, <1>4, CurrentRowStep

LEMMA RecoveryStructure ==
    ASSUME TypeInv, TypeInv', Structure, NEW n \in Numbers,
           LeaseLapse(n) \/ Reclaim(n) \/ SettleUnknown(n)
    PROVE  Structure' /\ KeepsSettled
<1>1. /\ attempt[n].status = "running" /\ OthersSame(n) /\ UNCHANGED run
      /\ node'.current = node.current
  BY RecoveryFacts
<1>2. n = node.current
  BY <1>1 DEF Structure, OneOpenAttempt, Open
<1>3. node.status = "running" /\ run = "active"
  <2>1. node.status \in NodeStatuses
    BY Typed DEF NodeRecord
  <2> QED
    BY <1>1, <1>2, <2>1
       DEF Structure, NodeFollows, EndedSettled, NodeStatuses, Settled
<1>4. NodeFollows'
  BY <1>1, <1>2, <1>3, RecoveryFacts DEF NodeFollows, Settled
<1>5. EndedSettled'
  BY <1>1, <1>3 DEF EndedSettled
<1>6. attempt[n].status \notin Settled /\ attempt[n].fence <= attempt'[n].fence
  BY <1>1, RecoveryFacts, Typed DEF Settled
<1> QED
  BY <1>1, <1>2, <1>4, <1>5, <1>6, CurrentRowStep

LEMMA AdvanceStructure ==
    ASSUME TypeInv, TypeInv', Structure, Advance
    PROVE  Structure' /\ KeepsSettled
<1> DEFINE n == node.current
<1>1. run = "active"
  BY DEF Advance
<1>2. CASE DecideFailure
  <2>1. /\ OthersSame(n) /\ node'.current = n
        /\ attempt'[n].fence = attempt[n].fence
        /\ attempt'[n].status = attempt[n].status
        /\ attempt'[n].result = attempt[n].result
    BY <1>2, DecideFacts
  <2>2. CASE FailureDecision(n) = "retry"
    <3>1. NodeFollows' /\ EndedSettled'
      BY <1>1, <1>2, <2>2, DecideFacts DEF NodeFollows, EndedSettled, Settled
    <3> QED
      BY <2>1, <3>1, Typed, CurrentRowStep
  <2>3. CASE FailureDecision(n) # "retry"
    <3>1. /\ node'.status \in Settled /\ node'.current = n
          /\ attempt'[n].status = "failed"
      BY <1>2, <2>3, DecideFacts DEF Settled
    <3>2. NodeFollows' /\ EndedSettled'
      BY <3>1 DEF NodeFollows, EndedSettled, Settled
    <3> QED
      BY <2>1, <3>2, Typed, CurrentRowStep
  <2> QED
    BY <2>2, <2>3
<1>3. CASE StopWaiting
  <2>1. /\ node.status = "waiting" /\ node'.status \in {"canceled", "timed_out"}
        /\ node'.current = n /\ UNCHANGED attempt
    BY <1>3, StopFacts
  <2>2. attempt[n].status \in Settled
    BY <2>1 DEF Structure, NodeFollows, Settled
  <2>3. NodeFollows' /\ EndedSettled'
    BY <2>1, <2>2 DEF NodeFollows, EndedSettled, Settled
  <2> QED
    BY <2>1, <2>3, Typed, CurrentRowStep DEF OthersSame
<1>4. CASE Resume
  <2> DEFINE next == node.current + 1
  <2>1. /\ next \in Numbers /\ n \in Numbers /\ n \in Nat
        /\ Numbers \subseteq Nat
        /\ node'.current = next /\ node'.status = "ready"
        /\ attempt'[next].status = "ready" /\ attempt'[next].fence = 0
        /\ OthersSame(next) /\ UNCHANGED run /\ node.status = "waiting"
    BY <1>4, ResumeFacts, Typed
  <2>2. attempt[next] = Absent
    <3>1. next > n
      BY <2>1
    <3> QED
      BY <2>1, <3>1 DEF Structure, LaterAbsent
  <2>3. NodeFollows' /\ EndedSettled'
    BY <1>1, <2>1 DEF NodeFollows, EndedSettled, Settled
  <2>4. OneOpenAttempt'
    <3>1. attempt[n].status \notin Open
      BY <2>1 DEF Structure, NodeFollows, Open
    <3> QED
      BY <2>1, <3>1 DEF Structure, OneOpenAttempt, OthersSame
  <2>5. LaterAbsent'
    <3>1. \A m \in Numbers : m > next => m > n /\ m # next
      BY <2>1
    <3> QED
      BY <2>1, <3>1 DEF Structure, LaterAbsent, OthersSame
  <2>6. KeepsSettled
    <3>1. attempt[next].fence = 0 /\ attempt[next].status \notin Settled
      BY <2>2 DEF Absent, Settled
    <3> QED
      BY <2>1, <3>1, Typed DEF KeepsSettled, OthersSame
  <2> QED
    BY <2>3, <2>4, <2>5, <2>6 DEF Structure
<1>5. CASE FinishRun
  <2>1. UNCHANGED <<attempt, node>> /\ node.status \in Settled
    BY <1>5 DEF FinishRun
  <2>2. NodeFollows' /\ EndedSettled'
    BY <2>1 DEF Structure, NodeFollows, EndedSettled
  <2> QED
    BY <2>1, <2>2, Typed, CurrentRowStep DEF OthersSame
<1>6. CASE ConsumeFacts
  BY <1>6, ElsewhereStructure DEF ConsumeFacts
<1> QED
  BY <1>2, <1>3, <1>4, <1>5, <1>6 DEF Advance, NoChange

LEMMA CloseStructure ==
    ASSUME TypeInv, TypeInv', Structure, CloseRun
    PROVE  Structure' /\ KeepsSettled
<1> DEFINE n == node.current
<1>1. \A m \in Numbers :
         /\ attempt'[m].fence = attempt[m].fence
         /\ attempt'[m].result = attempt[m].result
         /\ attempt'[m].status \notin Open
         /\ attempt[m].status \notin Open => attempt'[m] = attempt[m]
  BY CloseFacts DEF SameFields, Open
<1>2. /\ node'.current = n /\ n \in Numbers /\ node'.status \in Settled
      /\ \A m \in Numbers : m # n => attempt[m].status \notin Open
  BY CloseFacts, CloseStatus, Typed DEF Structure, OneOpenAttempt
<1>3. attempt'[n].status \in Settled
  <2>1. attempt'[n] \in AttemptRecord /\ attempt'[n].status # "absent"
    BY <1>2, Typed, TypeParts DEF Rows, Facts, CurrentAdmitted
  <2> QED
    BY <1>1, <1>2, <2>1 DEF AttemptRecord, AttemptStatuses
<1>4. NodeFollows' /\ EndedSettled'
  BY <1>2, <1>3 DEF NodeFollows, EndedSettled, Settled
<1>5. OthersSame(n)
  BY <1>1, <1>2 DEF OthersSame
<1>6. /\ attempt[n].fence <= attempt'[n].fence
      /\ attempt[n].status \in Settled =>
            /\ attempt'[n].status = attempt[n].status
            /\ attempt'[n].result = attempt[n].result
  BY <1>1, <1>2, Typed DEF Open, Settled
<1> QED
  BY <1>2, <1>4, <1>5, <1>6, CurrentRowStep

LEMMA StructureStep ==
    ASSUME TypeInv, TypeInv', Structure, [Next]_vars
    PROVE  Structure' /\ KeepsSettled
<1>1. CASE UNCHANGED vars
  BY <1>1, ElsewhereStructure DEF vars
<1>2. ASSUME NEW e \in Events,
             \/ Publish(e) \/ FailPublication(e) \/ LoseJob(e)
             \/ SettleOverdueDelivery(e) \/ ReplaceFailedJob(e)
      PROVE  Structure' /\ KeepsSettled
  BY <1>2, ElsewhereStructure
     DEF Publish, FailPublication, LoseJob, SettleOverdueDelivery,
         ReplaceFailedJob, runVars
<1>3. ASSUME NEW w \in Workers, NEW e \in Events, ClaimDelivery(w, e)
      PROVE  Structure' /\ KeepsSettled
  BY <1>3, ClaimStructure
<1>4. ASSUME NEW w \in Workers, WorkerStep(w) \/ Crash(w)
      PROVE  Structure' /\ KeepsSettled
  <2>1. CASE \/ LoadInputs(w) \/ EndWithoutDispatch(w) \/ MarkRefused(w)
             \/ Send(w) \/ Return(w) \/ HeartbeatAbort(w)
             \/ CompleteDuplicate(w) \/ CompleteRefused(w) \/ Crash(w)
    <3>1. UNCHANGED <<attempt, node, run>>
      BY <2>1, Zenon
         DEF LoadInputs, EndWithoutDispatch, MarkRefused, Send, Return,
             HeartbeatAbort, CompleteDuplicate, CompleteRefused, Crash,
             onlyWorker, runVars
    <3> QED
      BY <3>1, ElsewhereStructure
  <2>2. CASE MarkDispatched(w)
    BY <2>2, MarkStructure
  <2>3. CASE CompleteCommit(w)
    BY <2>3, CommitStructure
  <2> QED
    BY <1>4, <2>1, <2>2, <2>3 DEF WorkerStep
<1>5. ASSUME NEW n \in Numbers,
             LeaseLapse(n) \/ RecoverExpired(n) \/ OperatorSettleUnknown(n)
      PROVE  Structure' /\ KeepsSettled
  BY <1>5, RecoveryStructure DEF RecoverExpired, OperatorSettleUnknown
<1>6. CASE Cancel \/ DeadlinePasses \/ ClaimDueDeadline \/ AdvanceEnded
  BY <1>6, ElsewhereStructure
     DEF Cancel, DeadlinePasses, ClaimDueDeadline, AdvanceEnded, runVars
<1>7. CASE TimerDue \/ ClaimDueWakeup
  BY <1>7, TimerFacts, ElsewhereStructure
<1>8. CASE Advance
  BY <1>8, AdvanceStructure
<1>9. CASE CoordinatorGivesUp
  BY <1>9, CloseStructure DEF CoordinatorGivesUp
<1>10. ASSUME NEW w \in Workers, WorkerGivesUp(w)
       PROVE  Structure' /\ KeepsSettled
  BY <1>10, CloseStructure, ElsewhereStructure DEF WorkerGivesUp
<1> QED
  BY <1>1, <1>2, <1>3, <1>4, <1>5, <1>6, <1>7, <1>8, <1>9, <1>10 DEF Next

(* Types and structure together: what every proof below starts from.       *)
Base == TypeInv /\ Structure

LEMMA BaseInvariant == Spec => []Base
<1>1. Init => Base
  BY TypeInit, StructureInit DEF Base
<1>2. Base /\ [Next]_vars => Base'
  BY TypeStep, StructureStep DEF Base
<1> QED
  BY <1>1, <1>2, PTL DEF Spec

(* However a run ends - by the coordinator's transition, its emergency     *)
(* close or a worker's - its step is settled and no attempt is left that a *)
(* worker could claim or complete.                                         *)
THEOREM NoOpenWork == Spec => []NoOpenWorkAfterEnd
<1>1. Base => NoOpenWorkAfterEnd
  <2> SUFFICES ASSUME Base, run # "active"
               PROVE  /\ node.status \in Settled
                      /\ \A n \in Numbers : attempt[n].status \notin Open
    BY DEF NoOpenWorkAfterEnd
  <2>1. node.status \in Settled
    BY DEF Base, Structure, EndedSettled
  <2>2. attempt[node.current].status \notin Open
    BY <2>1 DEF Base, Structure, NodeFollows, Open, Settled
  <2> QED
    BY <2>1, <2>2 DEF Base, Structure, OneOpenAttempt
<1> QED
  BY <1>1, BaseInvariant, PTL

(* No late worker, redelivery, recovery scan or emergency close rewrites   *)
(* an attempt that has settled, and no step hands an old lease its fence   *)
(* back.                                                                   *)
THEOREM SettledStaysFinal == Spec => SettledIsFinal
<1>1. Base /\ Base' /\ [Next]_vars => [KeepsSettled]_vars
  BY StructureStep DEF Base
<1>2. [KeepsSettled]_vars <=>
         [\A n \in Numbers :
            /\ attempt[n].fence <= attempt'[n].fence
            /\ attempt[n].status \in Settled =>
                  /\ attempt'[n].status = attempt[n].status
                  /\ attempt'[n].result = attempt[n].result]_vars
  BY DEF KeepsSettled
<1> QED
  BY <1>1, <1>2, BaseInvariant, PTL DEF Spec, SettledIsFinal

-----------------------------------------------------------------------------
(* Deliveries.  An event the step never created has no receipt and no job; *)
(* a worker holds the attempt its delivery names; events keep their        *)
(* attempt.  From this a completed receipt belongs to a settled attempt.   *)

FreeUntouched ==
    \A e \in Events :
        outbox[e].state = "none" => receipt[e] = "none" /\ e \notin queue
HoldsDelivery ==
    \A w \in Workers : worker[w].phase # "idle" =>
        /\ worker[w].event \in Events
        /\ outbox[worker[w].event].state # "none"
        /\ outbox[worker[w].event].number = worker[w].number

ReceiptInv == FreeUntouched /\ HoldsDelivery /\ ReceiptHonest

(* Events are only added, and what they deliver does not change.           *)
OutboxGrows ==
    \A e \in Events : outbox[e].state # "none" =>
        outbox'[e].state # "none" /\ outbox'[e].number = outbox[e].number

LEMMA DeliveryTypes ==
    ASSUME TypeInv
    PROVE  /\ outbox \in [Events -> OutboxRecord]
           /\ receipt \in [Events -> {"none", "incomplete", "complete"}]
           /\ \A e \in Events :
                 /\ outbox[e].number \in Numbers
                 /\ outbox[e].state \in {"none", "pending", "published", "failed"}
           /\ \A w \in Workers : worker[w].event \in Events
           /\ wake \in BOOLEAN
BY TypeParts DEF Rows, Flags, OutboxRecord, WorkerRecord

LEMMA EnqueueFacts ==
    ASSUME TypeInv, NEW n \in Numbers, EnqueueAttempt(n)
    PROVE  \E e \in Events :
              /\ outbox[e].state = "none"
              /\ outbox'[e] = Pending(n)
              /\ \A f \in Events : f # e => outbox'[f] = outbox[f]
BY DeliveryTypes DEF EnqueueAttempt, FreeEvents

LEMMA EnqueueGrows ==
    ASSUME TypeInv, NEW n \in Numbers, EnqueueAttempt(n)
    PROVE  OutboxGrows /\ \E e \in Events : /\ outbox[e].state = "none"
                                            /\ outbox'[e] = Pending(n)
<1>1. PICK e \in Events :
         /\ outbox[e].state = "none"
         /\ outbox'[e] = Pending(n)
         /\ \A f \in Events : f # e => outbox'[f] = outbox[f]
  BY EnqueueFacts
<1> QED
  BY <1>1 DEF OutboxGrows

(* What the transport's steps do to an event.                              *)
LEMMA TransportFacts ==
    ASSUME TypeInv, NEW e \in Events,
           \/ Publish(e) \/ FailPublication(e) \/ LoseJob(e)
           \/ SettleOverdueDelivery(e) \/ ReplaceFailedJob(e)
    PROVE  /\ OutboxGrows
           /\ UNCHANGED <<attempt, node, run, wake, receipt, worker>>
           /\ \A f \in Events : f \in queue' => f \in queue \/ f = e
           /\ outbox[e].state # "none" \/ UNCHANGED outbox
           /\ e \in queue' => e \in queue \/ outbox[e].state # "none"
           /\ \A n \in Numbers :
                 /\ \E f \in Events : Delivers(f, n)
                 /\ FreeUntouched
                 /\ run = "active" /\ attempt[n].status = "ready"
                 => \E f \in Events : Delivers(f, n)'
<1>1. UNCHANGED <<attempt, node, run, wake, receipt, worker>>
  BY Zenon
     DEF Publish, FailPublication, LoseJob, SettleOverdueDelivery,
         ReplaceFailedJob, runVars, bounds
<1>2. /\ \A f \in Events : f \in queue' => f \in queue \/ f = e
      /\ outbox[e].state # "none" \/ UNCHANGED outbox
      /\ e \in queue' => e \in queue \/ outbox[e].state # "none"
  BY DEF Publish, FailPublication, LoseJob, SettleOverdueDelivery,
         ReplaceFailedJob
<1>3. outbox[e] \in OutboxRecord /\ outbox \in [Events -> OutboxRecord]
  BY DeliveryTypes
<1>4. CASE Publish(e) \/ FailPublication(e) \/ LoseJob(e)
           \/ SettleOverdueDelivery(e)
  <2>1. /\ outbox'[e].number = outbox[e].number
        /\ outbox[e].state # "none" => outbox'[e].state # "none"
        /\ \A f \in Events : f # e => outbox'[f] = outbox[f]
    BY <1>3, <1>4
       DEF Publish, FailPublication, LoseJob, SettleOverdueDelivery, OutboxRecord
  <2>2. ASSUME NEW n \in Numbers, Delivers(e, n) PROVE Delivers(e, n)'
    <3>1. /\ receipt'[e] = "none" /\ outbox'[e].number = n
          /\ receipt[e] = "none"
      BY <1>1, <2>1, <2>2 DEF Delivers
    <3>2. CASE Publish(e)
      BY <1>3, <2>2, <3>1, <3>2 DEF Publish, Delivers, OutboxRecord
    <3>3. CASE FailPublication(e)
      BY <1>3, <2>2, <3>1, <3>3 DEF FailPublication, Delivers, OutboxRecord
    <3>4. CASE LoseJob(e)
      BY <1>3, <2>2, <3>1, <3>4 DEF LoseJob, Delivers
    <3>5. CASE SettleOverdueDelivery(e)
      <4>1. \/ outbox' = [outbox EXCEPT ![e] =
                           [outbox[e] EXCEPT !.state = "pending", !.due = FALSE]]
            \/ outbox' = [outbox EXCEPT ![e] = [outbox[e] EXCEPT !.state = "failed"]]
        BY <1>3, <3>1, <3>5 DEF SettleOverdueDelivery
      <4>2. outbox[e].due
        BY <3>5, Zenon DEF SettleOverdueDelivery
      <4>3. \/ outbox'[e] = [outbox[e] EXCEPT !.state = "pending", !.due = FALSE]
            \/ outbox'[e] = [outbox[e] EXCEPT !.state = "failed"]
        BY <1>3, <4>1
      <4>4. \/ outbox'[e].state = "pending"
            \/ outbox'[e].state = "failed" /\ outbox'[e].due
        BY <1>3, <4>2, <4>3 DEF OutboxRecord
      <4> QED
        BY <3>1, <4>4 DEF Delivers
    <3> QED
      BY <1>4, <3>2, <3>3, <3>4, <3>5
  <2>3. ASSUME NEW n \in Numbers, NEW f \in Events, f # e, Delivers(f, n)
        PROVE  Delivers(f, n)'
    BY <1>1, <2>1, <2>3 DEF Delivers
  <2> QED
    BY <1>1, <1>2, <2>1, <2>2, <2>3 DEF OutboxGrows
<1>5. CASE ReplaceFailedJob(e)
  <2> DEFINE n == outbox[e].number
             dropped == [outbox EXCEPT ![e].due = FALSE]
  <2>1. /\ outbox[e].state = "failed" /\ n \in Numbers
        /\ IF run = "active" /\ attempt[n].status = "ready"
           THEN \E f \in FreeEvents : outbox' = [dropped EXCEPT ![f] = Pending(n)]
           ELSE outbox' = dropped
    BY <1>5, DeliveryTypes DEF ReplaceFailedJob
  <2>2. /\ dropped[e].number = n /\ dropped[e].state = "failed"
        /\ \A f \in Events : f # e => dropped[f] = outbox[f]
        /\ dropped \in [Events -> OutboxRecord]
    BY <1>3, <2>1 DEF OutboxRecord
  <2> HIDE DEF dropped
  <2>3. CASE run = "active" /\ attempt[n].status = "ready"
    <3>1. PICK f \in Events :
             /\ outbox[f].state = "none"
             /\ outbox' = [dropped EXCEPT ![f] = Pending(n)]
      BY <2>1, <2>3 DEF FreeEvents
    <3>2. /\ f # e /\ outbox'[f] = Pending(n) /\ outbox'[e] = dropped[e]
          /\ \A g \in Events : g # e /\ g # f => outbox'[g] = outbox[g]
      BY <2>1, <2>2, <3>1
    <3>3. OutboxGrows
      BY <2>1, <2>2, <3>1, <3>2 DEF OutboxGrows
    <3>4. ASSUME NEW m \in Numbers, NEW g \in Events, Delivers(g, m),
                 FreeUntouched
          PROVE  \E h \in Events : Delivers(h, m)'
      <4>1. CASE g = e
        <5>1. m = n /\ receipt'[f] = "none"
          BY <1>1, <3>1, <3>4, <4>1 DEF Delivers, FreeUntouched
        <5>2. Delivers(f, m)'
          BY <3>2, <5>1 DEF Delivers, Pending
        <5> QED
          BY <5>2
      <4>2. CASE g # e
        <5>1. g # f
          BY <3>1, <3>4 DEF Delivers
        <5>2. Delivers(g, m)'
          BY <1>1, <3>2, <3>4, <4>2, <5>1 DEF Delivers
        <5> QED
          BY <5>2
      <4> QED
        BY <4>1, <4>2
    <3> QED
      BY <1>1, <1>2, <3>3, <3>4
  <2>4. CASE ~(run = "active" /\ attempt[n].status = "ready")
    <3>1. outbox' = dropped
      BY <2>1, <2>4
    <3>2. OutboxGrows
      BY <2>1, <2>2, <3>1 DEF OutboxGrows
    <3>3. ASSUME NEW m \in Numbers, NEW g \in Events, Delivers(g, m),
                 run = "active" /\ attempt[m].status = "ready"
          PROVE  Delivers(g, m)'
      <4>1. g # e
        BY <2>4, <3>3 DEF Delivers
      <4> QED
        BY <1>1, <2>2, <3>1, <3>3, <4>1 DEF Delivers
    <3> QED
      BY <1>1, <1>2, <3>2, <3>3
  <2> QED
    BY <2>3, <2>4
<1> QED
  BY <1>4, <1>5

(* What is enough for deliveries to stay honest over one step.             *)
LEMMA ReceiptRest ==
    ASSUME TypeInv, TypeInv', ReceiptInv, KeepsSettled, OutboxGrows,
           \A e \in Events : outbox'[e].state = "none" =>
              receipt'[e] = "none" /\ e \notin queue',
           \A e \in Events : receipt'[e] = "complete" =>
              \/ receipt[e] = "complete"
              \/ /\ outbox[e].state # "none"
                 /\ attempt'[outbox[e].number].status \in Settled,
           \A w \in Workers : worker'[w].phase # "idle" =>
              \/ /\ worker[w].phase # "idle"
                 /\ worker'[w].event = worker[w].event
                 /\ worker'[w].number = worker[w].number
              \/ /\ worker'[w].event \in Events
                 /\ outbox'[worker'[w].event].state # "none"
                 /\ outbox'[worker'[w].event].number = worker'[w].number
    PROVE  ReceiptInv'
<1>1. FreeUntouched'
  BY DEF FreeUntouched
<1>2. HoldsDelivery'
  BY DEF ReceiptInv, HoldsDelivery, OutboxGrows
<1>3. ReceiptHonest'
  <2> SUFFICES ASSUME NEW e \in Events, receipt'[e] = "complete"
               PROVE  attempt'[outbox'[e].number].status \in Settled
    BY DEF ReceiptHonest
  <2>1. outbox[e].state # "none"
    BY DEF ReceiptInv, FreeUntouched
  <2>2. outbox'[e].number = outbox[e].number /\ outbox[e].number \in Numbers
    BY <2>1, DeliveryTypes DEF OutboxGrows
  <2>3. CASE receipt[e] = "complete"
    <3>1. attempt[outbox[e].number].status \in Settled
      BY <2>3 DEF ReceiptInv, ReceiptHonest
    <3> QED
      BY <2>2, <3>1 DEF KeepsSettled
  <2>4. CASE receipt[e] # "complete"
    BY <2>2, <2>4
  <2> QED
    BY <2>3, <2>4
<1> QED
  BY <1>1, <1>2, <1>3 DEF ReceiptInv

(* A worker keeps its delivery until it lets it go.                        *)
LEMMA WorkerKeepsDelivery ==
    ASSUME TypeInv, NEW w \in Workers,
           \/ LoadInputs(w) \/ EndWithoutDispatch(w) \/ MarkDispatched(w)
           \/ MarkRefused(w) \/ Send(w) \/ Return(w) \/ HeartbeatAbort(w)
           \/ CompleteDuplicate(w) \/ CompleteRefused(w) \/ CompleteCommit(w)
           \/ Crash(w) \/ WorkerGivesUp(w)
    PROVE  /\ \A v \in Workers : worker'[v].phase # "idle" =>
                 /\ worker[v].phase # "idle"
                 /\ worker'[v].event = worker[v].event
                 /\ worker'[v].number = worker[v].number
                 /\ worker'[v].fence = worker[v].fence
                 /\ worker'[v].unresolved = worker[v].unresolved
           /\ \A v \in Workers : v # w => worker'[v] = worker[v]
<1>1. worker \in [Workers -> WorkerRecord] /\ worker[w] \in WorkerRecord
  BY Typed
<1>2. worker[w].phase # "idle"
  BY DEF LoadInputs, EndWithoutDispatch, MarkDispatched, MarkRefused, Send,
         Return, HeartbeatAbort, CompleteDuplicate, CompleteRefused,
         CompleteCommit, Crash, WorkerGivesUp
<1>3. \/ \E outcome : Reporting(w, outcome)
      \/ \E phase : InPhase(w, phase)
      \/ LetGo(w) \/ UNCHANGED worker
  BY DEF LoadInputs, EndWithoutDispatch, MarkDispatched, MarkRefused, Send,
         Return, HeartbeatAbort, CompleteDuplicate, CompleteRefused,
         CompleteCommit, Crash, WorkerGivesUp
<1>4. ASSUME NEW outcome, Reporting(w, outcome)
      PROVE  /\ worker'[w].event = worker[w].event
             /\ worker'[w].number = worker[w].number
             /\ worker'[w].fence = worker[w].fence
             /\ worker'[w].unresolved = worker[w].unresolved
             /\ \A v \in Workers : v # w => worker'[v] = worker[v]
  BY <1>1, <1>4 DEF Reporting, WorkerRecord
<1>5. ASSUME NEW phase, InPhase(w, phase)
      PROVE  /\ worker'[w].event = worker[w].event
             /\ worker'[w].number = worker[w].number
             /\ worker'[w].fence = worker[w].fence
             /\ worker'[w].unresolved = worker[w].unresolved
             /\ \A v \in Workers : v # w => worker'[v] = worker[v]
  BY <1>1, <1>5 DEF InPhase, WorkerRecord
<1>6. LetGo(w) =>
         /\ worker'[w].phase = "idle"
         /\ \A v \in Workers : v # w => worker'[v] = worker[v]
  BY <1>1 DEF LetGo, Idle
<1> QED
  BY <1>2, <1>3, <1>4, <1>5, <1>6

LEMMA ReceiptInit == Init => ReceiptInv
<1> SUFFICES ASSUME Init PROVE ReceiptInv
  OBVIOUS
<1>1. /\ \A e \in Events : receipt[e] = "none" /\ e \notin queue
      /\ \A w \in Workers : worker[w].phase = "idle"
  BY DEF Init, Idle
<1> QED
  BY <1>1 DEF ReceiptInv, FreeUntouched, HoldsDelivery, ReceiptHonest

LEMMA ReceiptSame ==
    ASSUME TypeInv, TypeInv', ReceiptInv, KeepsSettled,
           OutboxGrows \/ UNCHANGED outbox, UNCHANGED <<receipt, queue, worker>>
    PROVE  ReceiptInv'
<1>1. OutboxGrows
  BY DEF OutboxGrows
<1>2. \A e \in Events : outbox'[e].state = "none" => outbox[e].state = "none"
  BY <1>1 DEF OutboxGrows
<1>3. \A e \in Events : outbox'[e].state = "none" =>
         receipt'[e] = "none" /\ e \notin queue'
  BY <1>2 DEF ReceiptInv, FreeUntouched
<1> QED
  BY <1>1, <1>3, ReceiptRest

(* A completed receipt only where a worker's own event was settled.        *)
LEMMA ReceiptByWorker ==
    ASSUME TypeInv, TypeInv', ReceiptInv, KeepsSettled, NEW w \in Workers,
           UNCHANGED <<outbox, queue>>, worker[w].phase # "idle",
           \/ UNCHANGED receipt
           \/ /\ receipt' = [receipt EXCEPT ![worker[w].event] = "complete"]
              /\ attempt'[worker[w].number].status \in Settled,
           \A v \in Workers : worker'[v].phase # "idle" =>
              /\ worker[v].phase # "idle"
              /\ worker'[v].event = worker[v].event
              /\ worker'[v].number = worker[v].number
    PROVE  ReceiptInv'
<1> DEFINE e == worker[w].event
<1>1. /\ e \in Events /\ outbox[e].state # "none"
      /\ outbox[e].number = worker[w].number
  BY DEF ReceiptInv, HoldsDelivery
<1>2. OutboxGrows
  BY DEF OutboxGrows
<1>3. \A f \in Events : f # e => receipt'[f] = receipt[f]
  BY DeliveryTypes
<1>4. \A f \in Events : outbox'[f].state = "none" =>
         receipt'[f] = "none" /\ f \notin queue'
  BY <1>1, <1>3 DEF ReceiptInv, FreeUntouched
<1>5. \A f \in Events : receipt'[f] = "complete" =>
         \/ receipt[f] = "complete"
         \/ /\ outbox[f].state # "none"
            /\ attempt'[outbox[f].number].status \in Settled
  BY <1>1, <1>3
<1> QED
  BY <1>2, <1>4, <1>5, ReceiptRest

LEMMA ReceiptStep ==
    ASSUME Base, Base', ReceiptInv, KeepsSettled, [Next]_vars
    PROVE  ReceiptInv'
<1> USE DEF Base
<1>1. CASE UNCHANGED vars
  BY <1>1, ReceiptSame DEF vars
<1>2. ASSUME NEW e \in Events,
             \/ Publish(e) \/ FailPublication(e) \/ LoseJob(e)
             \/ SettleOverdueDelivery(e) \/ ReplaceFailedJob(e)
      PROVE  ReceiptInv'
  <2>1. OutboxGrows /\ UNCHANGED <<receipt, worker>>
    BY <1>2, TransportFacts
  <2>2. \A f \in Events : outbox'[f].state = "none" => outbox[f].state = "none"
    BY <2>1 DEF OutboxGrows
  <2>3. \A f \in Events : f \in queue' => f \in queue \/ outbox[f].state # "none"
    BY <1>2, TransportFacts
  <2>4. \A f \in Events : outbox'[f].state = "none" =>
           receipt'[f] = "none" /\ f \notin queue'
    BY <2>1, <2>2, <2>3 DEF ReceiptInv, FreeUntouched
  <2> QED
    BY <2>1, <2>4, ReceiptRest
<1>3. ASSUME NEW w \in Workers, NEW e \in Events, ClaimDelivery(w, e)
      PROVE  ReceiptInv'
  <2>1. /\ UNCHANGED <<outbox, queue>> /\ e \in queue /\ OutboxGrows
        /\ outbox[e].number = node.current
    BY <1>3 DEF ClaimDelivery, OutboxGrows, DeliveryCurrent
  <2>2. outbox[e].state # "none"
    BY <2>1 DEF ReceiptInv, FreeUntouched
  <2>3. /\ \A f \in Events : f # e => receipt'[f] = receipt[f]
        /\ receipt'[e] = "complete" =>
              attempt'[outbox[e].number].status \in Settled
    BY <1>3, DeliveryTypes
       DEF ClaimDelivery, ClaimSettled, ClaimRunning, ClaimReady
  <2>4. \A f \in Events : outbox'[f].state = "none" =>
           receipt'[f] = "none" /\ f \notin queue'
    BY <2>1, <2>2, <2>3 DEF ReceiptInv, FreeUntouched
  <2>5. \A f \in Events : receipt'[f] = "complete" =>
           \/ receipt[f] = "complete"
           \/ /\ outbox[f].state # "none"
              /\ attempt'[outbox[f].number].status \in Settled
    BY <2>2, <2>3
  <2>6. CASE ClaimReady(w, e)
    <3>1. /\ worker'[w].event = e /\ worker'[w].number = node.current
          /\ \A v \in Workers : v # w => worker'[v] = worker[v]
      BY <1>3, <2>6, ClaimFacts
    <3> QED
      BY <2>1, <2>2, <2>4, <2>5, <3>1, ReceiptRest
  <2>7. CASE ClaimSettled(w, e) \/ ClaimRunning(w, e)
    <3>1. UNCHANGED worker
      BY <2>7 DEF ClaimSettled, ClaimRunning
    <3> QED
      BY <2>1, <2>4, <2>5, <3>1, ReceiptRest
  <2> QED
    BY <1>3, <2>6, <2>7 DEF ClaimDelivery
<1>4. ASSUME NEW w \in Workers,
             WorkerStep(w) \/ Crash(w) \/ WorkerGivesUp(w)
      PROVE  ReceiptInv'
  <2>1. worker[w].phase # "idle" /\ UNCHANGED <<outbox, queue>>
    BY <1>4
       DEF WorkerStep, LoadInputs, EndWithoutDispatch, MarkDispatched,
           MarkRefused, Send, Return, HeartbeatAbort, CompleteDuplicate,
           CompleteRefused, CompleteCommit, Crash, WorkerGivesUp, onlyWorker
  <2>2. \A v \in Workers : worker'[v].phase # "idle" =>
           /\ worker[v].phase # "idle"
           /\ worker'[v].event = worker[v].event
           /\ worker'[v].number = worker[v].number
    BY <1>4, WorkerKeepsDelivery DEF WorkerStep
  <2>3. \/ UNCHANGED receipt
        \/ /\ receipt' = [receipt EXCEPT ![worker[w].event] = "complete"]
           /\ attempt'[worker[w].number].status \in Settled
    <3>1. CASE CompleteDuplicate(w)
      BY <3>1 DEF CompleteDuplicate
    <3>2. CASE CompleteCommit(w)
      BY <3>2, CommitFacts DEF CompleteCommit
    <3>3. CASE WorkerGivesUp(w)
      <4>1. CASE UNCHANGED receipt
        BY <4>1
      <4>2. CASE /\ CloseRun /\ LeaseCurrent(w)
                 /\ receipt' = [receipt EXCEPT ![worker[w].event] = "complete"]
        <5>1. /\ worker[w].number = node.current
              /\ node'.current = node.current
          BY <4>2, CloseFacts DEF LeaseCurrent
        <5>2. node'.status \in Settled
          BY <4>2, CloseStatus
        <5>3. attempt'[node'.current].status \in Settled
          BY <5>2 DEF Structure, NodeFollows
        <5> QED
          BY <4>2, <5>1, <5>3
      <4> QED
        BY <3>3, <4>1, <4>2 DEF WorkerGivesUp
    <3>4. CASE \/ LoadInputs(w) \/ EndWithoutDispatch(w) \/ MarkDispatched(w)
               \/ MarkRefused(w) \/ Send(w) \/ Return(w) \/ HeartbeatAbort(w)
               \/ CompleteRefused(w) \/ Crash(w)
      BY <3>4
         DEF LoadInputs, EndWithoutDispatch, MarkDispatched, MarkRefused, Send,
             Return, HeartbeatAbort, CompleteRefused, Crash, onlyWorker
    <3> QED
      BY <1>4, <3>1, <3>2, <3>3, <3>4 DEF WorkerStep
  <2> QED
    BY <2>1, <2>2, <2>3, ReceiptByWorker
<1>5. ASSUME NEW n \in Numbers,
             LeaseLapse(n) \/ RecoverExpired(n) \/ OperatorSettleUnknown(n)
      PROVE  ReceiptInv'
  <2>1. UNCHANGED <<receipt, queue, worker>>
    BY <1>5 DEF LeaseLapse, RecoverExpired, OperatorSettleUnknown, Reclaim,
                SettleUnknown
  <2>2. OutboxGrows \/ UNCHANGED outbox
    BY <1>5, EnqueueGrows
       DEF LeaseLapse, RecoverExpired, OperatorSettleUnknown, Reclaim,
           SettleUnknown
  <2> QED
    BY <2>1, <2>2, ReceiptSame
<1>6. CASE \/ Cancel \/ DeadlinePasses \/ ClaimDueDeadline \/ TimerDue
           \/ ClaimDueWakeup \/ AdvanceEnded \/ CoordinatorGivesUp
  BY <1>6, ReceiptSame
     DEF Cancel, DeadlinePasses, ClaimDueDeadline, TimerDue, ClaimDueWakeup,
         AdvanceEnded, CoordinatorGivesUp
<1>7. CASE Advance
  <2>1. UNCHANGED <<receipt, queue, worker>>
    BY <1>7 DEF Advance
  <2>2. OutboxGrows \/ UNCHANGED outbox
    BY <1>7, EnqueueGrows
       DEF Advance, NoChange, DecideFailure, StopWaiting, Resume, FinishRun,
           ConsumeFacts
  <2> QED
    BY <2>1, <2>2, ReceiptSame
<1> QED
  BY <1>1, <1>2, <1>3, <1>4, <1>5, <1>6, <1>7 DEF Next

LEMMA ReceiptInvariant == Spec => []ReceiptInv
<1>1. Base /\ Base' /\ ReceiptInv /\ [Next]_vars => ReceiptInv'
  BY ReceiptStep, StructureStep DEF Base
<1> QED
  BY <1>1, ReceiptInit, BaseInvariant, PTL DEF Spec

(* A message is only marked handled once the attempt it delivers has an    *)
(* outcome, so a redelivery can always pick unfinished work up again.      *)
THEOREM ReceiptsHonest == Spec => []ReceiptHonest
<1>1. ReceiptInv => ReceiptHonest
  BY DEF ReceiptInv
<1> QED
  BY <1>1, ReceiptInvariant, PTL

-----------------------------------------------------------------------------
(* Nothing is stranded: beside the structure and the deliveries, while the *)
(* run is underway the advance that is needed next is on its way.          *)

Decided == run = "active" /\ PendingFailure => wake
Timed ==
    run = "active" /\ node.status = "waiting" =>
        wake \/ node.timer \in {"set", "due"}
Ending == run = "active" /\ node.status \in Settled => wake
Watched ==
    run = "active" /\ node.status = "ready" =>
        \E e \in Events : Delivers(e, node.current)

WakeInv == Decided /\ Timed /\ Ending

LEMMA StrandedParts ==
    ASSUME Base, WakeInv, Watched
    PROVE  NoStrandedWork
<1> SUFFICES ASSUME run = "active"
             PROVE  LET n == node.current IN
                    CASE node.status = "ready" ->
                             /\ attempt[n].status = "ready"
                             /\ \E e \in Events : Delivers(e, n)
                      [] node.status = "running" ->
                             attempt[n].status = "running"
                                \/ (PendingFailure /\ wake)
                      [] node.status = "waiting" ->
                             wake \/ node.timer \in {"set", "due"}
                      [] OTHER -> wake
  BY DEF NoStrandedWork
<1>1. node.status \in NodeStatuses
  BY Typed DEF Base, NodeRecord
<1>2. node.status = "ready" =>
         /\ attempt[node.current].status = "ready"
         /\ \E e \in Events : Delivers(e, node.current)
  BY DEF Base, Structure, NodeFollows, Watched
<1>3. node.status = "running" =>
         attempt[node.current].status = "running" \/ (PendingFailure /\ wake)
  BY DEF Base, Structure, NodeFollows, WakeInv, Decided, PendingFailure
<1>4. node.status = "waiting" => wake \/ node.timer \in {"set", "due"}
  BY DEF WakeInv, Timed
<1>5. node.status \in Settled => wake
  BY DEF WakeInv, Ending
<1> QED
  BY <1>1, <1>2, <1>3, <1>4, <1>5 DEF NodeStatuses, Settled

LEMMA WakeInit == Init => WakeInv /\ Watched
<1> SUFFICES ASSUME Init PROVE WakeInv /\ Watched
  OBVIOUS
<1>1. node.status = "ready" /\ node.current = 1
  BY DEF Init
<1>2. WakeInv
  BY <1>1 DEF WakeInv, Decided, Timed, Ending, PendingFailure, Settled
<1>3. 1 \in Events /\ outbox[1] = Pending(1) /\ receipt[1] = "none"
  BY RowTypes DEF Init
<1>4. Delivers(1, 1)
  BY <1>3 DEF Delivers, Pending
<1> QED
  BY <1>1, <1>2, <1>3, <1>4 DEF Watched

(* A step that takes no advance away and leaves the node's status alone.   *)
LEMMA WakeSame ==
    ASSUME WakeInv, run' = run, wake => wake',
           node'.status = node.status, node'.current = node.current,
           node'.timer = node.timer,
           attempt'[node.current].status = attempt[node.current].status,
           attempt'[node.current].decision = attempt[node.current].decision
    PROVE  WakeInv'
BY DEF WakeInv, Decided, Timed, Ending, PendingFailure

LEMMA WakeOwed ==
    ASSUME wake' \/ run' # "active"
    PROVE  WakeInv'
BY DEF WakeInv, Decided, Timed, Ending

(* A step into ready or running with an open attempt owes no advance.      *)
LEMMA WakeOpen ==
    ASSUME node'.status \in Open, attempt'[node'.current].status \in Open
    PROVE  WakeInv'
BY DEF WakeInv, Decided, Timed, Ending, PendingFailure, Open, Settled

(* Away from the transport a ready attempt keeps its delivery.             *)
LEMMA WatchSame ==
    ASSUME TypeInv, Watched,
           run' = "active" /\ node'.status = "ready" =>
              /\ run = "active" /\ node.status = "ready"
              /\ node'.current = node.current /\ UNCHANGED outbox
              /\ \A e \in Events :
                    outbox[e].number = node.current /\ receipt[e] = "none" =>
                       receipt'[e] = "none"
    PROVE  Watched'
BY DEF Watched, Delivers

LEMMA WatchNew ==
    ASSUME TypeInv, FreeUntouched, NEW n \in Numbers, EnqueueAttempt(n),
           UNCHANGED receipt, node'.current = n
    PROVE  Watched'
<1>1. PICK e \in Events : outbox[e].state = "none" /\ outbox'[e] = Pending(n)
  BY EnqueueFacts
<1>2. Delivers(e, n)'
  BY <1>1 DEF FreeUntouched, Delivers, Pending
<1> QED
  BY <1>2 DEF Watched

LEMMA WorkerWatch ==
    ASSUME Base, ReceiptInv, Watched, NEW w \in Workers,
           worker[w].phase # "idle", UNCHANGED <<node, run, outbox>>,
           \/ UNCHANGED receipt
           \/ /\ receipt' = [receipt EXCEPT ![worker[w].event] = "complete"]
              /\ attempt[worker[w].number].status \in Settled
    PROVE  Watched'
<1> USE DEF Base
<1>1. /\ worker[w].event \in Events
      /\ outbox[worker[w].event].number = worker[w].number
  BY DEF ReceiptInv, HoldsDelivery
<1>2. node.status = "ready" => attempt[node.current].status \notin Settled
  BY DEF Structure, NodeFollows, Settled
<1>3. ASSUME node.status = "ready", NEW e \in Events,
             outbox[e].number = node.current, receipt[e] = "none"
      PROVE  receipt'[e] = "none"
  BY <1>1, <1>2, <1>3, DeliveryTypes
<1> QED
  BY <1>3, WatchSame

LEMMA WorkerWake ==
    ASSUME Base, Base', ReceiptInv, WakeInv, Watched, NEW w \in Workers,
           WorkerStep(w) \/ Crash(w) \/ WorkerGivesUp(w)
    PROVE  WakeInv' /\ Watched'
<1> USE DEF Base
<1>1. CASE \/ LoadInputs(w) \/ EndWithoutDispatch(w) \/ MarkRefused(w)
           \/ Send(w) \/ Return(w) \/ HeartbeatAbort(w)
           \/ CompleteDuplicate(w) \/ CompleteRefused(w) \/ Crash(w)
  <2>1. /\ UNCHANGED <<attempt, node, run, wake, outbox>>
        /\ worker[w].phase # "idle"
    BY <1>1
       DEF LoadInputs, EndWithoutDispatch, MarkRefused, Send, Return,
           HeartbeatAbort, CompleteDuplicate, CompleteRefused, Crash,
           onlyWorker, runVars
  <2>2. \/ UNCHANGED receipt
        \/ /\ receipt' = [receipt EXCEPT ![worker[w].event] = "complete"]
           /\ attempt[worker[w].number].status \in Settled
    BY <1>1
       DEF LoadInputs, EndWithoutDispatch, MarkRefused, Send, Return,
           HeartbeatAbort, CompleteDuplicate, CompleteRefused, Crash,
           onlyWorker
  <2> QED
    BY <2>1, <2>2, WakeSame, WorkerWatch
<1>2. CASE MarkDispatched(w)
  <2>1. UNCHANGED <<node, run, wake, outbox, receipt>>
    BY <1>2 DEF MarkDispatched, runVars
  <2>2. /\ attempt'[node.current].status = attempt[node.current].status
        /\ attempt'[node.current].decision = attempt[node.current].decision
        /\ worker[w].phase # "idle"
    BY <1>2, MarkFacts
  <2> QED
    BY <2>1, <2>2, WakeSame, WorkerWatch
<1>3. CASE CompleteCommit(w)
  <2>1. wake' = TRUE
    BY <1>3 DEF CompleteCommit
  <2>2. node'.status # "ready"
    BY <1>3, CommitFacts DEF Settled
  <2> QED
    BY <2>1, <2>2, WakeOwed, WatchSame
<1>4. CASE WorkerGivesUp(w)
  <2>1. CASE CloseRun
    BY <2>1, CloseFacts, WakeOwed, WatchSame
  <2>2. CASE UNCHANGED <<attempt, node, run, revision, receipt>>
    <3>1. UNCHANGED <<wake, outbox>> /\ worker[w].phase # "idle"
      BY <1>4 DEF WorkerGivesUp
    <3> QED
      BY <2>2, <3>1, WakeSame, WorkerWatch
  <2> QED
    BY <1>4, <2>1, <2>2 DEF WorkerGivesUp
<1> QED
  BY <1>1, <1>2, <1>3, <1>4 DEF WorkerStep

LEMMA AdvanceWake ==
    ASSUME Base, Base', ReceiptInv, WakeInv, Watched, Advance
    PROVE  WakeInv' /\ Watched'
<1> USE DEF Base
<1>1. UNCHANGED receipt /\ run = "active"
  BY DEF Advance
<1>2. CASE DecideFailure
  <2>1. UNCHANGED outbox /\ node'.status # "ready"
    BY <1>2, DecideFacts DEF DecideFailure
  <2>2. Watched'
    BY <2>1, WatchSame
  <2>3. CASE FailureDecision(node.current) = "retry"
    <3>1. node'.status = "waiting" /\ node'.timer = "set"
      BY <1>2, <2>3, DecideFacts
    <3>2. WakeInv'
      BY <3>1 DEF WakeInv, Decided, Timed, Ending, PendingFailure, Settled
    <3> QED
      BY <2>2, <3>2
  <2>4. CASE FailureDecision(node.current) # "retry"
    <3>1. /\ FailureDecision(node.current) \in Settled
          /\ run' = TerminalRunStatus(FailureDecision(node.current))
      BY <1>2, <2>4, DecideFacts DEF Settled
    <3>2. run' # "active"
      BY <3>1, TerminalStatus DEF Settled
    <3> QED
      BY <2>2, <3>2, WakeOwed
  <2> QED
    BY <2>3, <2>4
<1>3. CASE StopWaiting
  <2>1. AbortReason \in Settled /\ run' = TerminalRunStatus(AbortReason)
    BY <1>3, StopFacts DEF Settled
  <2>2. run' # "active"
    BY <2>1, TerminalStatus DEF Settled
  <2> QED
    BY <2>2, WakeOwed, WatchSame
<1>4. CASE Resume
  <2>1. /\ node.current + 1 \in Numbers /\ EnqueueAttempt(node.current + 1)
        /\ node'.current = node.current + 1 /\ node'.status = "ready"
    BY <1>4 DEF Resume
  <2>2. attempt'[node'.current].status = "ready"
    BY <2>1 DEF Structure, NodeFollows
  <2>3. Watched'
    BY <1>1, <2>1, WatchNew DEF ReceiptInv
  <2> QED
    BY <2>1, <2>2, <2>3, WakeOpen DEF Open
<1>5. CASE FinishRun
  <2>1. node.status \in Settled /\ run' = TerminalRunStatus(node.status)
    BY <1>5 DEF FinishRun
  <2>2. run' # "active"
    BY <2>1, TerminalStatus DEF Settled
  <2> QED
    BY <2>2, WakeOwed, WatchSame
<1>6. CASE ConsumeFacts
  <2>1. /\ UNCHANGED <<attempt, node, run, outbox>>
        /\ \/ node.status \in Open /\ ~PendingFailure
           \/ node.status = "waiting" /\ node.timer = "set"
    BY <1>6 DEF ConsumeFacts
  <2>2. WakeInv'
    BY <2>1 DEF WakeInv, Decided, Timed, Ending, PendingFailure, Open, Settled
  <2> QED
    BY <1>1, <2>1, <2>2, WatchSame
<1> QED
  BY <1>2, <1>3, <1>4, <1>5, <1>6 DEF Advance, NoChange

LEMMA WakeStep ==
    ASSUME Base, Base', ReceiptInv, WakeInv, Watched, [Next]_vars
    PROVE  WakeInv' /\ Watched'
<1> USE DEF Base
<1>1. CASE UNCHANGED vars
  BY <1>1, WakeSame, WatchSame DEF vars
<1>2. ASSUME NEW e \in Events,
             \/ Publish(e) \/ FailPublication(e) \/ LoseJob(e)
             \/ SettleOverdueDelivery(e) \/ ReplaceFailedJob(e)
      PROVE  WakeInv' /\ Watched'
  <2>1. UNCHANGED <<attempt, node, run, wake, receipt, worker>>
    BY <1>2, TransportFacts
  <2>2. ASSUME run = "active", node.status = "ready"
        PROVE  \E f \in Events : Delivers(f, node.current)'
    <3>1. /\ node.current \in Numbers /\ FreeUntouched
          /\ attempt[node.current].status = "ready"
          /\ \E f \in Events : Delivers(f, node.current)
      BY <2>2, Typed DEF Structure, NodeFollows, ReceiptInv, Watched
    <3> QED
      BY <1>2, <2>2, <3>1, TransportFacts
  <2>3. Watched'
    BY <2>1, <2>2 DEF Watched, Delivers
  <2> QED
    BY <2>1, <2>3, WakeSame
<1>3. ASSUME NEW w \in Workers, NEW e \in Events, ClaimDelivery(w, e)
      PROVE  WakeInv' /\ Watched'
  <2>1. UNCHANGED <<run, wake, outbox>> /\ outbox[e].number = node.current
    BY <1>3 DEF ClaimDelivery, runVars, DeliveryCurrent
  <2>2. CASE ClaimReady(w, e)
    <3>1. /\ node'.status = "running" /\ node'.current = node.current
          /\ attempt'[node.current].status = "running"
      BY <1>3, <2>2, ClaimFacts
    <3> QED
      BY <3>1, WakeOpen, WatchSame DEF Open
  <2>3. CASE ClaimSettled(w, e) \/ ClaimRunning(w, e)
    <3>1. UNCHANGED <<attempt, node>> /\ node.status # "ready"
      BY <2>1, <2>3
         DEF ClaimSettled, ClaimRunning, Structure, NodeFollows, Settled
    <3> QED
      BY <2>1, <3>1, WakeSame, WatchSame
  <2> QED
    BY <1>3, <2>2, <2>3 DEF ClaimDelivery
<1>4. ASSUME NEW w \in Workers,
             WorkerStep(w) \/ Crash(w) \/ WorkerGivesUp(w)
      PROVE  WakeInv' /\ Watched'
  BY <1>4, WorkerWake
<1>5. ASSUME NEW n \in Numbers, LeaseLapse(n) \/ Reclaim(n) \/ SettleUnknown(n)
      PROVE  WakeInv' /\ Watched'
  <2>1. /\ attempt[n].status = "running" /\ n = node.current
        /\ node'.current = n /\ UNCHANGED <<run, receipt>>
    <3>1. attempt[n].status = "running" /\ node'.current = node.current
      BY <1>5, RecoveryFacts
    <3> QED
      BY <1>5, <3>1
         DEF Structure, OneOpenAttempt, Open, LeaseLapse, Reclaim, SettleUnknown,
             runVars
  <2>2. CASE LeaseLapse(n)
    <3>1. /\ UNCHANGED <<node, outbox, wake>>
          /\ attempt'[n].status = "running" /\ attempt'[n].decision = attempt[n].decision
      BY <1>5, <2>2, RecoveryFacts DEF LeaseLapse
    <3> QED
      BY <2>1, <3>1, WakeSame, WatchSame
  <2>3. CASE Reclaim(n)
    <3>1. node'.status = "ready" /\ attempt'[n].status = "ready"
      BY <1>5, <2>3, RecoveryFacts
    <3>2. EnqueueAttempt(n)
      BY <2>3 DEF Reclaim
    <3> QED
      BY <2>1, <3>1, <3>2, WakeOpen, WatchNew DEF Open, ReceiptInv
  <2>4. CASE SettleUnknown(n)
    <3>1. wake' = TRUE /\ node'.status # "ready"
      BY <1>5, <2>1, <2>4, RecoveryFacts DEF SettleUnknown
    <3> QED
      BY <3>1, WakeOwed, WatchSame
  <2> QED
    BY <1>5, <2>2, <2>3, <2>4
<1>6. CASE Cancel \/ DeadlinePasses \/ ClaimDueDeadline
  <2>1. /\ UNCHANGED <<attempt, node, run, outbox, receipt>>
        /\ wake' = TRUE \/ wake' = wake
    BY <1>6 DEF Cancel, DeadlinePasses, ClaimDueDeadline
  <2> QED
    BY <2>1, WakeSame, WatchSame
<1>7. CASE TimerDue \/ ClaimDueWakeup
  <2>1. /\ node'.current = node.current /\ node'.status = node.status
        /\ UNCHANGED <<attempt, run, outbox, receipt>>
        /\ TimerDue => node'.timer = "due" /\ wake' = wake
        /\ ClaimDueWakeup => wake' = TRUE
    BY <1>7, TimerFacts DEF TimerDue, ClaimDueWakeup
  <2>2. TimerDue => WakeInv'
    BY <2>1 DEF WakeInv, Decided, Timed, Ending, PendingFailure
  <2> QED
    BY <1>7, <2>1, <2>2, WakeOwed, WatchSame
<1>8. CASE Advance
  BY <1>8, AdvanceWake
<1>9. CASE AdvanceEnded
  <2>1. run' # "active"
    BY <1>9 DEF AdvanceEnded, runVars
  <2> QED
    BY <2>1, WakeOwed, WatchSame
<1>10. CASE CoordinatorGivesUp
  <2>1. run' # "active"
    BY <1>10, CloseFacts DEF CoordinatorGivesUp
  <2> QED
    BY <2>1, WakeOwed, WatchSame
<1> QED
  BY <1>1, <1>2, <1>3, <1>4, <1>5, <1>6, <1>7, <1>8, <1>9, <1>10
     DEF Next, RecoverExpired, OperatorSettleUnknown

(* No crash, lost job, lapsed lease or stop strands a step: while its run  *)
(* is underway, something durable is still on its way to it.               *)
THEOREM NothingStranded == Spec => []NoStrandedWork
<1>1. /\ Base /\ Base' /\ ReceiptInv /\ WakeInv /\ Watched /\ [Next]_vars
      => WakeInv' /\ Watched'
  BY WakeStep
<1>2. Base /\ WakeInv /\ Watched => NoStrandedWork
  BY StrandedParts
<1> QED
  BY <1>1, <1>2, WakeInit, BaseInvariant, ReceiptInvariant, PTL DEF Spec

-----------------------------------------------------------------------------
(* What a worker holds over a step, for every side-effect class.           *)

(* Every worker that is busy afterwards was busy with the same lease.      *)
HandsOn ==
    \A v \in Workers : worker'[v].phase # "idle" =>
        /\ worker[v].phase # "idle"
        /\ worker'[v].number = worker[v].number
        /\ worker'[v].fence = worker[v].fence
        /\ worker'[v].unresolved = worker[v].unresolved

LEMMA HandsOnStep ==
    ASSUME Base, [Next]_vars
    PROVE  \/ HandsOn
           \/ \E w \in Workers, e \in Events :
                 ClaimDelivery(w, e) /\ ClaimReady(w, e)
<1> USE DEF Base
<1>1. UNCHANGED worker => HandsOn
  BY DEF HandsOn
<1>2. ASSUME NEW w \in Workers, NEW e \in Events, ClaimDelivery(w, e),
             ~ClaimReady(w, e)
      PROVE  UNCHANGED worker
  BY <1>2 DEF ClaimDelivery, ClaimSettled, ClaimRunning
<1>3. ASSUME NEW w \in Workers, WorkerStep(w) \/ Crash(w) \/ WorkerGivesUp(w)
      PROVE  HandsOn
  BY <1>3, WorkerKeepsDelivery DEF WorkerStep, HandsOn
<1>4. ASSUME NEW n \in Numbers,
             LeaseLapse(n) \/ RecoverExpired(n) \/ OperatorSettleUnknown(n)
      PROVE  UNCHANGED worker
  BY <1>4 DEF LeaseLapse, RecoverExpired, OperatorSettleUnknown, Reclaim,
              SettleUnknown
<1>5. CASE \/ Cancel \/ DeadlinePasses \/ ClaimDueDeadline \/ TimerDue
           \/ ClaimDueWakeup \/ Advance \/ AdvanceEnded \/ CoordinatorGivesUp
           \/ UNCHANGED vars
  BY <1>1, <1>5
     DEF Cancel, DeadlinePasses, ClaimDueDeadline, TimerDue, ClaimDueWakeup,
         Advance, AdvanceEnded, CoordinatorGivesUp, vars
<1>6. ASSUME NEW e \in Events,
             \/ Publish(e) \/ FailPublication(e) \/ LoseJob(e)
             \/ SettleOverdueDelivery(e) \/ ReplaceFailedJob(e)
      PROVE  UNCHANGED worker
  BY <1>6, TransportFacts
<1> QED
  BY <1>1, <1>2, <1>3, <1>4, <1>5, <1>6 DEF Next

LEMMA CurrentGrows ==
    ASSUME Base, [Next]_vars
    PROVE  node.current <= node'.current
<1> USE DEF Base
<1>1. node.current \in Nat /\ Numbers \subseteq Nat
  BY Typed
<1>2. ASSUME NEW e \in Events,
             \/ Publish(e) \/ FailPublication(e) \/ LoseJob(e)
             \/ SettleOverdueDelivery(e) \/ ReplaceFailedJob(e)
      PROVE  node'.current = node.current
  BY <1>2, TransportFacts
<1>3. ASSUME NEW w \in Workers, NEW e \in Events, ClaimDelivery(w, e)
      PROVE  node'.current = node.current
  BY <1>3, ClaimFacts DEF ClaimDelivery, ClaimSettled, ClaimRunning
<1>4. ASSUME NEW w \in Workers, WorkerStep(w) \/ Crash(w) \/ WorkerGivesUp(w)
      PROVE  node'.current = node.current
  <2>1. CompleteCommit(w) => node'.current = node.current
    BY CommitFacts
  <2>2. CloseRun => node'.current = node.current
    BY CloseFacts
  <2> QED
    BY <1>4, <2>1, <2>2
       DEF WorkerStep, LoadInputs, EndWithoutDispatch, MarkDispatched,
           MarkRefused, Send, Return, HeartbeatAbort, CompleteDuplicate,
           CompleteRefused, Crash, WorkerGivesUp, onlyWorker
<1>5. ASSUME NEW n \in Numbers,
             LeaseLapse(n) \/ RecoverExpired(n) \/ OperatorSettleUnknown(n)
      PROVE  node'.current = node.current
  BY <1>5, RecoveryFacts DEF RecoverExpired, OperatorSettleUnknown
<1>6. CASE \/ Cancel \/ DeadlinePasses \/ ClaimDueDeadline \/ TimerDue
           \/ ClaimDueWakeup \/ AdvanceEnded \/ CoordinatorGivesUp
           \/ UNCHANGED vars
  <2>1. node'.current = node.current
    BY <1>6, TimerFacts, CloseFacts
       DEF Cancel, DeadlinePasses, ClaimDueDeadline, AdvanceEnded,
           CoordinatorGivesUp, vars
  <2> QED
    BY <1>1, <2>1
<1>7. CASE Advance
  <2>1. \/ node'.current = node.current
        \/ node'.current = node.current + 1
    BY <1>7, DecideFacts, StopFacts
       DEF Advance, NoChange, Resume, FinishRun, ConsumeFacts
  <2> QED
    BY <1>1, <2>1
<1> QED
  BY <1>1, <1>2, <1>3, <1>4, <1>5, <1>6, <1>7 DEF Next

LEMMA TypedNext ==
    ASSUME TypeInv'
    PROVE  /\ node'.current \in Numbers /\ node'.current \in Nat
           /\ \A n \in Numbers : attempt'[n].fence \in Nat
BY TypeParts DEF Rows, NodeRecord, AttemptRecord, Numbers

(* A fence belongs to one worker, and none is newer than its attempt's.    *)
LeaseInv == Fenced /\ OneHolder

LEMMA LeaseStep ==
    ASSUME Base, Base', LeaseInv, KeepsSettled, [Next]_vars
    PROVE  LeaseInv'
<1> USE DEF Base
<1>1. /\ node.current <= node'.current /\ node.current \in Nat
      /\ node'.current \in Nat
  BY CurrentGrows, Typed, TypedNext
<1>2. \A v \in Workers : worker[v].phase # "idle" =>
         /\ worker[v].number <= node'.current
         /\ worker[v].fence <= attempt'[worker[v].number].fence
  <2> SUFFICES ASSUME NEW v \in Workers, worker[v].phase # "idle"
               PROVE  /\ worker[v].number <= node'.current
                      /\ worker[v].fence <= attempt'[worker[v].number].fence
    OBVIOUS
  <2> DEFINE n == worker[v].number
  <2>1. /\ n \in Numbers /\ n <= node.current
        /\ worker[v].fence <= attempt[n].fence /\ worker[v].fence \in Nat
        /\ attempt[n].fence \in Nat /\ attempt[n].fence <= attempt'[n].fence
        /\ Numbers \subseteq Nat
    BY Typed DEF LeaseInv, Fenced, KeepsSettled
  <2>2. attempt'[n].fence \in Nat
    BY <2>1, TypedNext
  <2>3. n <= node'.current
    <3>1. n \in Nat
      BY <2>1
    <3> QED
      BY <1>1, <2>1, <3>1
  <2>4. worker[v].fence <= attempt'[n].fence
    BY <2>1, <2>2
  <2> QED
    BY <2>3, <2>4
<1>3. CASE HandsOn
  <2>1. Fenced'
    BY <1>2, <1>3 DEF HandsOn, Fenced
  <2>2. OneHolder'
    BY <1>3 DEF HandsOn, LeaseInv, OneHolder
  <2> QED
    BY <2>1, <2>2 DEF LeaseInv
<1>4. ASSUME NEW w \in Workers, NEW e \in Events,
             ClaimDelivery(w, e), ClaimReady(w, e)
      PROVE  LeaseInv'
  <2> DEFINE n == node.current
  <2>1. /\ worker'[w].number = n /\ worker'[w].fence = attempt[n].fence + 1
        /\ attempt'[n].fence = attempt[n].fence + 1 /\ node'.current = n
        /\ \A v \in Workers : v # w => worker'[v] = worker[v]
    BY <1>4, ClaimFacts
  <2>2. n \in Numbers /\ n \in Nat /\ attempt[n].fence \in Nat
    BY Typed
  <2>3. Fenced'
    BY <1>2, <2>1, <2>2 DEF Fenced
  <2>4. \A v \in Workers : v # w /\ worker[v].phase # "idle"
           /\ worker[v].number = n => worker[v].fence # attempt[n].fence + 1
    BY <2>2, Typed DEF LeaseInv, Fenced
  <2>5. OneHolder'
    <3>1. ASSUME NEW u \in Workers, NEW v \in Workers, u # v,
                 worker'[u].phase # "idle", worker'[v].phase # "idle",
                 worker'[u].number = worker'[v].number
          PROVE  worker'[u].fence # worker'[v].fence
      <4>1. CASE u = w
        BY <2>1, <2>4, <3>1, <4>1
      <4>2. CASE v = w
        BY <2>1, <2>4, <3>1, <4>2
      <4>3. CASE u # w /\ v # w
        BY <2>1, <3>1, <4>3 DEF LeaseInv, OneHolder
      <4> QED
        BY <4>1, <4>2, <4>3
    <3> QED
      BY <3>1, Zenon DEF OneHolder
  <2> QED
    BY <2>3, <2>5 DEF LeaseInv
<1> QED
  BY <1>3, <1>4, HandsOnStep

LEMMA LeaseInvariant == Spec => []LeaseInv
<1>1. Init => LeaseInv
  <2> SUFFICES ASSUME Init PROVE LeaseInv
    OBVIOUS
  <2>1. \A w \in Workers : worker[w].phase = "idle"
    BY DEF Init, Idle
  <2> QED
    BY <2>1 DEF LeaseInv, Fenced, OneHolder
<1>2. Base /\ Base' /\ LeaseInv /\ [Next]_vars => LeaseInv'
  BY LeaseStep, StructureStep DEF Base
<1> QED
  BY <1>1, <1>2, BaseInvariant, PTL DEF Spec

-----------------------------------------------------------------------------
(* A canceled or timed-out attempt made no effect, whatever the class of   *)
(* side effect.  The marker comes first: an attempt without it is clean.   *)
(* A worker that still holds the lease and was told of no earlier send     *)
(* finds its attempt unmarked until it marks it itself, so the only stops  *)
(* it reports, and recovery and the emergency close write, are of clean    *)
(* attempts.                                                               *)

Stopped == {"canceled", "timed_out"}

MarkedFirst == \A n \in Numbers : attempt[n].marked \/ Clean(n)
FreshUnmarked ==
    \A w \in Workers :
        /\ Holding(w) /\ ~worker[w].unresolved
        /\ worker[w].phase \in {"claimed", "executing"}
        => ~attempt[worker[w].number].marked
UnsentClean ==
    \A w \in Workers :
        /\ Holding(w) /\ ~worker[w].unresolved /\ worker[w].phase = "unsent"
        => Clean(worker[w].number)
StopReportClean ==
    \A w \in Workers :
        /\ Holding(w) /\ worker[w].phase = "reporting"
        /\ worker[w].outcome.status \in Stopped
        => Clean(worker[w].number)
StoppedClean == \A n \in Numbers : attempt[n].status \in Stopped => Clean(n)

StopInv ==
    /\ MarkedFirst
    /\ FreshUnmarked
    /\ UnsentClean
    /\ StopReportClean
    /\ StoppedClean

LEMMA StopInit == Init => StopInv
<1> SUFFICES ASSUME Init PROVE StopInv
  OBVIOUS
<1>1. /\ \A w \in Workers : worker[w].phase = "idle"
      /\ \A n \in Numbers : effects[n] = 0
      /\ \A n \in Numbers : attempt[n].status \in {"ready", "absent"}
  BY DEF Init, Idle, Admitted, Absent
<1>2. \A n \in Numbers : Clean(n)
  BY <1>1 DEF Clean
<1> QED
  BY <1>1, <1>2
     DEF StopInv, MarkedFirst, FreshUnmarked, UnsentClean, StopReportClean,
         StoppedClean, Stopped

(* A busy worker's step that touches only its memory: it gains no          *)
(* permission and no fresh lease, and what it now claims not to have sent  *)
(* was not sent.                                                           *)
LEMMA MemoryKeepsStops ==
    ASSUME Base, StopInv, NEW w \in Workers, UNCHANGED <<attempt, effects>>,
           HandsOn, \A v \in Workers : v # w => worker'[v] = worker[v],
           worker'[w].phase # "marked",
           worker'[w].phase \in {"claimed", "executing"} =>
              worker[w].phase \in {"claimed", "executing"},
           /\ Holding(w) /\ ~worker[w].unresolved
           /\ worker'[w].phase = "unsent"
           => Clean(worker[w].number),
           /\ Holding(w) /\ worker'[w].phase = "reporting"
           /\ worker'[w].outcome.status \in Stopped
           => Clean(worker[w].number)
    PROVE  StopInv'
<1>1. ASSUME NEW n, Clean(n) PROVE Clean(n)'
  BY <1>1 DEF Clean
<1>2. \A v \in Workers : Holding(v)' =>
         /\ Holding(v) /\ worker'[v].number = worker[v].number
         /\ worker'[v].unresolved = worker[v].unresolved
  BY DEF Holding, HandsOn
<1>3. MarkedFirst' /\ StoppedClean'
  BY <1>1 DEF StopInv, MarkedFirst, StoppedClean
<1>4. FreshUnmarked'
  <2> SUFFICES ASSUME NEW v \in Workers, Holding(v)', ~worker'[v].unresolved,
                      worker'[v].phase \in {"claimed", "executing"}
               PROVE  ~attempt[worker[v].number].marked
    BY <1>2 DEF FreshUnmarked
  <2>1. worker[v].phase \in {"claimed", "executing"}
    OBVIOUS
  <2> QED
    BY <1>2, <2>1 DEF StopInv, FreshUnmarked
<1>5. UnsentClean'
  <2> SUFFICES ASSUME NEW v \in Workers, Holding(v)', ~worker'[v].unresolved,
                      worker'[v].phase = "unsent"
               PROVE  Clean(worker[v].number)'
    BY <1>2 DEF UnsentClean
  <2>1. Clean(worker[v].number)
    BY <1>2 DEF StopInv, UnsentClean
  <2> QED
    BY <1>2, <2>1 DEF Clean
<1>6. StopReportClean'
  <2> SUFFICES ASSUME NEW v \in Workers, Holding(v)',
                      worker'[v].phase = "reporting",
                      worker'[v].outcome.status \in Stopped
               PROVE  Clean(worker[v].number)'
    BY <1>2 DEF StopReportClean
  <2>1. Clean(worker[v].number)
    BY <1>2 DEF StopInv, StopReportClean
  <2> QED
    BY <1>2, <2>1 DEF Clean
<1> QED
  BY <1>3, <1>4, <1>5, <1>6 DEF StopInv

(* Steps that settle, reclaim or admit attempts and touch no effect.       *)
LEMMA RowsKeepStops ==
    ASSUME Base, StopInv, UNCHANGED effects,
           \A v \in Workers : worker'[v] = worker[v] \/ worker'[v] = Idle,
           \A m \in Numbers : attempt'[m].status = "running" =>
              /\ attempt[m].status = "running"
              /\ attempt'[m].fence = attempt[m].fence
              /\ attempt'[m].marked = attempt[m].marked,
           \A m \in Numbers : attempt'[m].marked \/ Clean(m),
           \A m \in Numbers : attempt'[m].status \in Stopped => Clean(m)
    PROVE  StopInv'
<1>1. /\ \A v \in Workers : worker'[v].phase # "idle" => worker'[v] = worker[v]
      /\ \A v \in Workers : worker'[v].phase = "marked" => worker'[v] = worker[v]
  BY DEF Idle
<1>2. ASSUME NEW n, Clean(n) PROVE Clean(n)'
  BY <1>1, <1>2 DEF Clean
<1>3. \A v \in Workers : Holding(v)' =>
         /\ Holding(v) /\ worker'[v] = worker[v] /\ worker[v].number \in Numbers
         /\ attempt'[worker[v].number].marked = attempt[worker[v].number].marked
  BY <1>1, Typed DEF Holding, Base
<1>4. MarkedFirst' /\ StoppedClean'
  BY <1>2 DEF MarkedFirst, StoppedClean
<1>5. FreshUnmarked'
  BY <1>3 DEF StopInv, FreshUnmarked
<1>6. ASSUME NEW v \in Workers, Clean(worker[v].number), worker'[v] = worker[v]
      PROVE  Clean(worker[v].number)'
  BY <1>1, <1>6 DEF Clean
<1>7. UnsentClean' /\ StopReportClean'
  <2>1. ASSUME NEW v \in Workers, Holding(v)', ~worker'[v].unresolved,
               worker'[v].phase = "unsent"
        PROVE  Clean(worker[v].number)'
    BY <1>3, <1>6, <2>1 DEF StopInv, UnsentClean
  <2>2. ASSUME NEW v \in Workers, Holding(v)', worker'[v].phase = "reporting",
               worker'[v].outcome.status \in Stopped
        PROVE  Clean(worker[v].number)'
    BY <1>3, <1>6, <2>2 DEF StopInv, StopReportClean
  <2> QED
    BY <1>3, <2>1, <2>2 DEF UnsentClean, StopReportClean
<1> QED
  BY <1>4, <1>5, <1>7 DEF StopInv

LEMMA FreshClean ==
    ASSUME Base, StopInv, NEW w \in Workers, Holding(w), ~worker[w].unresolved,
           worker[w].phase \in {"claimed", "executing"}
    PROVE  ~attempt[worker[w].number].marked /\ Clean(worker[w].number)
<1>1. ~attempt[worker[w].number].marked
  BY DEF StopInv, FreshUnmarked
<1>2. worker[w].number \in Numbers
  BY Typed DEF Base
<1> QED
  BY <1>1, <1>2 DEF StopInv, MarkedFirst

(* Only an abort that met no possible dispatch is reported as a stop.      *)
LEMMA StopReports ==
    ASSUME Class # "safe", NEW w \in Workers
    PROVE  /\ \A dispatched \in BOOLEAN :
                 ControlOutcome(AbortReason, dispatched).status \in Stopped =>
                    ~dispatched
           /\ Ambiguous(w).status = "executor_failure"
           /\ \A kind : Definite(w, kind).status = "executor_failure"
           /\ \A kind, possibly :
                 Failure(kind, possibly).status = "executor_failure"
           /\ \A status : Plain(status).status = status
BY DEF ControlOutcome, Plain, Ambiguous, Definite, Failure, Stopped

(* What a worker's memory becomes when it reports, moves on or lets go.    *)
LEMMA MemoryFields ==
    ASSUME Base, NEW w \in Workers
    PROVE  /\ \A outcome : Reporting(w, outcome) =>
                 worker'[w].phase = "reporting" /\ worker'[w].outcome = outcome
           /\ \A phase : InPhase(w, phase) =>
                 /\ worker'[w].phase = phase
                 /\ worker'[w].outcome = worker[w].outcome
           /\ LetGo(w) => worker'[w].phase = "idle"
BY Typed DEF Base, Reporting, InPhase, LetGo, WorkerRecord, Idle

LEMMA MemoryStops ==
    ASSUME Class # "safe", Base, StopInv, NEW w \in Workers,
           UNCHANGED <<attempt, effects>>,
           \/ LoadInputs(w) \/ EndWithoutDispatch(w) \/ MarkRefused(w)
           \/ Send(w) \/ Return(w) \/ HeartbeatAbort(w)
           \/ CompleteDuplicate(w) \/ CompleteRefused(w) \/ Crash(w)
           \/ WorkerGivesUp(w)
    PROVE  StopInv'
<1> USE DEF Base
<1>1. /\ HandsOn /\ worker[w].unresolved \in BOOLEAN
      /\ \A v \in Workers : v # w => worker'[v] = worker[v]
  BY WorkerKeepsDelivery, Typed DEF HandsOn
<1>2. /\ worker'[w].phase # "marked"
      /\ worker'[w].phase \in {"claimed", "executing"} =>
            worker[w].phase \in {"claimed", "executing"}
      /\ worker'[w].phase = "unsent" => worker[w].phase = "executing"
      /\ /\ worker'[w].phase = "reporting"
         /\ worker'[w].outcome.status \in Stopped
         => /\ worker[w].phase \in {"claimed", "executing", "unsent"}
            /\ ~worker[w].unresolved
  <2>1. CASE LoadInputs(w)
    BY <1>1, <2>1, MemoryFields, StopReports DEF LoadInputs, Stopped
  <2>2. CASE EndWithoutDispatch(w)
    <3>1. \E kind \in FailureKinds, possibly \in BOOLEAN :
             Reporting(w, Failure(kind, possibly))
      BY <2>2 DEF EndWithoutDispatch, FailureKinds
    <3>2. PICK kind \in FailureKinds, possibly \in BOOLEAN :
             Reporting(w, Failure(kind, possibly))
      BY <3>1
    <3>3. Failure(kind, possibly).status \notin Stopped
      BY DEF Failure, Stopped
    <3> QED
      BY <3>2, <3>3, MemoryFields
  <2>3. CASE MarkRefused(w)
    BY <1>1, <2>3, MemoryFields, StopReports DEF MarkRefused, Stopped
  <2>4. CASE Send(w)
    <3>1. InPhase(w, "missed") \/ InPhase(w, "applied")
      BY <2>4 DEF Send
    <3> QED
      BY <3>1, MemoryFields
  <2>5. CASE Return(w)
    BY <2>5, MemoryFields, StopReports DEF Return, Stopped
  <2>6. CASE HeartbeatAbort(w)
    <3> DEFINE dispatched == \/ worker[w].unresolved
                             \/ worker[w].phase \in {"marked", "applied", "missed"}
    <3>1. /\ worker[w].phase \in {"executing", "marked", "applied", "missed",
                                  "unsent"}
          /\ Reporting(w, ControlOutcome(AbortReason, dispatched))
      BY <2>6 DEF HeartbeatAbort
    <3>2. ControlOutcome(AbortReason, dispatched).status \in Stopped => ~dispatched
      BY StopReports
    <3> QED
      BY <3>1, <3>2, MemoryFields
  <2>7. CASE CompleteDuplicate(w) \/ CompleteRefused(w) \/ Crash(w)
             \/ WorkerGivesUp(w)
    BY <2>7, MemoryFields
       DEF CompleteDuplicate, CompleteRefused, Crash, WorkerGivesUp
  <2> QED
    BY <2>1, <2>2, <2>3, <2>4, <2>5, <2>6, <2>7
<1>3. /\ Holding(w) /\ ~worker[w].unresolved /\ worker'[w].phase = "unsent"
      => Clean(worker[w].number)
  BY <1>2, FreshClean
<1>4. /\ Holding(w) /\ worker'[w].phase = "reporting"
      /\ worker'[w].outcome.status \in Stopped
      => Clean(worker[w].number)
  BY <1>2, FreshClean DEF StopInv, UnsentClean
<1> QED
  BY <1>1, <1>2, <1>3, <1>4, MemoryKeepsStops

LEMMA ClaimStops ==
    ASSUME Base, LeaseInv, StopInv, NEW w \in Workers, NEW e \in Events,
           ClaimDelivery(w, e), ClaimReady(w, e)
    PROVE  StopInv'
<1> USE DEF Base
<1> DEFINE n == node.current
<1>1. /\ attempt[n].status = "ready" /\ attempt'[n].status = "running"
      /\ attempt'[n].fence = attempt[n].fence + 1
      /\ attempt'[n].marked = attempt[n].marked
      /\ \A m \in Numbers : m # n => attempt'[m] = attempt[m]
      /\ worker'[w].phase = "claimed" /\ worker'[w].number = n
      /\ worker'[w].unresolved = Unresolved(n)
      /\ \A v \in Workers : v # w => worker'[v] = worker[v]
      /\ n \in Numbers
  BY ClaimFacts, Typed DEF OthersSame
<1>2. UNCHANGED effects
  BY DEF ClaimDelivery
<1>3. ASSUME NEW m, Clean(m) PROVE Clean(m)'
  BY <1>1, <1>2, <1>3 DEF Clean
<1>4. ASSUME NEW v \in Workers, v # w, Holding(v)'
      PROVE  /\ Holding(v) /\ worker'[v] = worker[v]
             /\ attempt'[worker[v].number] = attempt[worker[v].number]
  <2>1. worker'[v] = worker[v] /\ worker[v].number \in Numbers
    BY <1>1, <1>4, Typed
  <2>2. worker[v].number # n
    BY <1>1, <1>4, <2>1, Typed DEF Holding, LeaseInv, Fenced
  <2>3. attempt'[worker[v].number] = attempt[worker[v].number]
    BY <1>1, <2>1, <2>2
  <2> QED
    BY <1>4, <2>1, <2>3 DEF Holding
<1>5. MarkedFirst'
  BY <1>1, <1>3 DEF StopInv, MarkedFirst
<1>6. FreshUnmarked'
  <2>1. ~worker'[w].unresolved => ~attempt'[n].marked
    BY <1>1 DEF Unresolved
  <2>2. ASSUME NEW v \in Workers, v # w, Holding(v)', ~worker'[v].unresolved,
               worker'[v].phase \in {"claimed", "executing"}
        PROVE  ~attempt'[worker'[v].number].marked
    BY <1>4, <2>2 DEF StopInv, FreshUnmarked
  <2> QED
    BY <1>1, <2>1, <2>2 DEF FreshUnmarked
<1>7. ASSUME NEW v \in Workers, v # w, Clean(worker[v].number)
      PROVE  Clean(worker[v].number)'
  BY <1>1, <1>2, <1>7 DEF Clean
<1>8. UnsentClean'
  <2>1. ASSUME NEW v \in Workers, v # w, Holding(v)', ~worker'[v].unresolved,
               worker'[v].phase = "unsent"
        PROVE  Clean(worker[v].number)'
    BY <1>4, <1>7, <2>1 DEF StopInv, UnsentClean
  <2> QED
    BY <1>1, <2>1 DEF UnsentClean
<1>9. StopReportClean'
  <2>1. ASSUME NEW v \in Workers, v # w, Holding(v)',
               worker'[v].phase = "reporting",
               worker'[v].outcome.status \in Stopped
        PROVE  Clean(worker[v].number)'
    BY <1>4, <1>7, <2>1 DEF StopInv, StopReportClean
  <2> QED
    BY <1>1, <2>1 DEF StopReportClean
<1>10. StoppedClean'
  <2>1. ASSUME NEW m \in Numbers, attempt'[m].status \in Stopped
        PROVE  Clean(m)
    BY <1>1, <2>1 DEF StopInv, StoppedClean, Stopped
  <2> QED
    BY <1>3, <2>1 DEF StoppedClean
<1> QED
  BY <1>5, <1>6, <1>8, <1>9, <1>10 DEF StopInv

LEMMA SendStops ==
    ASSUME Base, StopInv, NEW w \in Workers, Send(w),
           effects' # effects
    PROVE  StopInv'
<1> USE DEF Base
<1> DEFINE n == worker[w].number
<1>1. /\ worker[w].phase = "marked" /\ UNCHANGED attempt /\ n \in Numbers
      /\ effects' = [effects EXCEPT ![n] = @ + 1] /\ InPhase(w, "applied")
  BY Typed DEF Send
<1>2. /\ worker'[w].phase = "applied" /\ HandsOn
      /\ \A v \in Workers : v # w => worker'[v] = worker[v]
  BY <1>1, MemoryFields, WorkerKeepsDelivery DEF HandsOn
<1>3. ~Clean(n)
  BY <1>1 DEF Clean
<1>4. \A m \in Numbers : m # n => effects'[m] = effects[m]
  BY <1>1, Typed
<1>5. ASSUME NEW m \in Numbers, Clean(m) PROVE Clean(m)'
  BY <1>2, <1>3, <1>4, <1>5 DEF Clean
<1>6. \A v \in Workers : Holding(v)' =>
         /\ Holding(v) /\ worker'[v].number = worker[v].number
         /\ worker[v].number \in Numbers
         /\ worker'[v].unresolved = worker[v].unresolved
  BY <1>1, <1>2, Typed DEF Holding, HandsOn
<1>7. MarkedFirst' /\ StoppedClean'
  BY <1>1, <1>5 DEF StopInv, MarkedFirst, StoppedClean
<1>8. FreshUnmarked'
  BY <1>1, <1>2, <1>6 DEF StopInv, FreshUnmarked
<1>9. ASSUME NEW v \in Workers, Clean(worker[v].number), Holding(v)'
      PROVE  Clean(worker[v].number)'
  <2>1. worker'[v].number = worker[v].number /\ worker[v].number \in Numbers
    BY <1>6, <1>9
  <2> QED
    BY <1>5, <1>9, <2>1 DEF Clean
<1>10. UnsentClean'
  <2>1. ASSUME NEW v \in Workers, Holding(v)', ~worker'[v].unresolved,
               worker'[v].phase = "unsent"
        PROVE  Clean(worker[v].number)
    BY <1>2, <1>6, <2>1 DEF StopInv, UnsentClean
  <2> QED
    BY <1>6, <1>9, <2>1 DEF UnsentClean
<1>11. StopReportClean'
  <2>1. ASSUME NEW v \in Workers, Holding(v)', worker'[v].phase = "reporting",
               worker'[v].outcome.status \in Stopped
        PROVE  Clean(worker[v].number)
    BY <1>2, <1>6, <2>1 DEF StopInv, StopReportClean
  <2> QED
    BY <1>6, <1>9, <2>1 DEF StopReportClean
<1> QED
  BY <1>7, <1>8, <1>10, <1>11 DEF StopInv

(* Taking the marker: the lease is current, so no other worker holds the   *)
(* attempt and none is about to claim that it sent nothing.                *)
LEMMA MarkStops ==
    ASSUME Base, LeaseInv, StopInv, NEW w \in Workers, MarkDispatched(w)
    PROVE  StopInv'
<1> USE DEF Base
<1> DEFINE n == node.current
<1>1. /\ worker[w].number = n /\ worker[w].phase = "executing" /\ Holding(w)
      /\ attempt[n].status = "running"
      /\ attempt'[n].status = "running" /\ attempt'[n].marked = TRUE
      /\ attempt'[n].fence = attempt[n].fence
      /\ \A m \in Numbers : m # n => attempt'[m] = attempt[m]
      /\ \A v \in Workers : v # w => worker'[v] = worker[v]
      /\ n \in Numbers
  BY MarkFacts, Typed DEF OthersSame
<1>2. /\ worker'[w].phase \in {"marked", "unsent"} /\ worker'[w].number = n
      /\ worker'[w].fence = worker[w].fence
      /\ worker'[w].unresolved = worker[w].unresolved
  <2>1. PICK phase \in {"marked", "unsent"} :
           worker'[w] = [worker[w] EXCEPT !.phase = phase]
    BY MarkFacts
  <2>2. worker[w] \in WorkerRecord
    BY Typed
  <2> QED
    BY <1>1, <2>1, <2>2 DEF WorkerRecord
<1>3. UNCHANGED <<effects, node>>
  BY DEF MarkDispatched
<1>4. ASSUME NEW m, m # n, Clean(m) PROVE Clean(m)'
  BY <1>1, <1>2, <1>3, <1>4 DEF Clean
<1>5. ASSUME NEW v \in Workers, v # w, Holding(v)'
      PROVE  /\ Holding(v) /\ worker'[v] = worker[v]
             /\ worker[v].number \in Numbers /\ worker[v].number # n
             /\ attempt'[worker[v].number] = attempt[worker[v].number]
  <2>1. worker'[v] = worker[v] /\ worker[v].number \in Numbers
    BY <1>1, <1>5, Typed
  <2>2. Holding(v)
    BY <1>1, <1>5, <2>1 DEF Holding
  <2>3. worker[v].number # n
    BY <1>1, <1>5, <2>2 DEF Holding, LeaseInv, OneHolder
  <2> QED
    BY <1>1, <2>1, <2>2, <2>3
<1>6. MarkedFirst'
  <2>1. ASSUME NEW m \in Numbers PROVE attempt'[m].marked \/ Clean(m)'
    BY <1>1, <1>4 DEF StopInv, MarkedFirst
  <2> QED
    BY <2>1 DEF MarkedFirst
<1>7. FreshUnmarked'
  <2>1. ASSUME NEW v \in Workers, Holding(v)', ~worker'[v].unresolved,
               worker'[v].phase \in {"claimed", "executing"}
        PROVE  ~attempt'[worker'[v].number].marked
    BY <1>2, <1>5, <2>1 DEF StopInv, FreshUnmarked
  <2> QED
    BY <2>1 DEF FreshUnmarked
<1>8. UnsentClean'
  <2>1. ASSUME NEW v \in Workers, v # w, Holding(v)', ~worker'[v].unresolved,
               worker'[v].phase = "unsent"
        PROVE  Clean(worker[v].number)'
    BY <1>4, <1>5, <2>1 DEF StopInv, UnsentClean
  <2>2. ASSUME ~worker'[w].unresolved, worker'[w].phase = "unsent"
        PROVE  Clean(n)'
    <3>1. Clean(n)
      BY <1>1, <1>2, <2>2, FreshClean
    <3> QED
      BY <1>1, <1>3, <2>2, <3>1 DEF Clean
  <2> QED
    BY <1>1, <1>2, <1>3, <2>1, <2>2 DEF UnsentClean
<1>9. StopReportClean'
  <2>1. ASSUME NEW v \in Workers, v # w, Holding(v)',
               worker'[v].phase = "reporting",
               worker'[v].outcome.status \in Stopped
        PROVE  Clean(worker[v].number)'
    BY <1>4, <1>5, <2>1 DEF StopInv, StopReportClean
  <2> QED
    BY <1>1, <1>2, <2>1 DEF StopReportClean
<1>10. StoppedClean'
  <2>1. ASSUME NEW m \in Numbers, attempt'[m].status \in Stopped
        PROVE  m # n /\ Clean(m)
    BY <1>1, <2>1 DEF StopInv, StoppedClean, Stopped
  <2> QED
    BY <1>4, <2>1 DEF StoppedClean
<1> QED
  BY <1>6, <1>7, <1>8, <1>9, <1>10 DEF StopInv

LEMMA CommitStops ==
    ASSUME Base, StopInv, NEW w \in Workers, CompleteCommit(w)
    PROVE  StopInv'
<1> USE DEF Base
<1> DEFINE n == node.current
<1>1. /\ worker[w].number = n /\ worker[w].phase = "reporting" /\ Holding(w)
      /\ attempt'[n].status = DurableStatus(worker[w].outcome)
      /\ attempt'[n].status \in Settled
      /\ attempt'[n].marked = attempt[n].marked
      /\ \A m \in Numbers : m # n => attempt'[m] = attempt[m]
      /\ \A v \in Workers : worker'[v] = worker[v] \/ worker'[v] = Idle
      /\ n \in Numbers
  BY CommitFacts, Typed DEF OthersSame
<1>2. UNCHANGED effects
  BY DEF CompleteCommit
<1>3. attempt'[n].status \in Stopped => Clean(n)
  <2>1. attempt'[n].status \in Stopped => worker[w].outcome.status \in Stopped
    BY <1>1 DEF DurableStatus, Stopped
  <2> QED
    BY <1>1, <2>1 DEF StopInv, StopReportClean
<1>4. \A m \in Numbers : attempt'[m].status = "running" =>
         /\ attempt[m].status = "running"
         /\ attempt'[m].fence = attempt[m].fence
         /\ attempt'[m].marked = attempt[m].marked
  BY <1>1 DEF Settled
<1>5. \A m \in Numbers : attempt'[m].marked \/ Clean(m)
  BY <1>1 DEF StopInv, MarkedFirst
<1>6. \A m \in Numbers : attempt'[m].status \in Stopped => Clean(m)
  BY <1>1, <1>3 DEF StopInv, StoppedClean
<1> QED
  BY <1>1, <1>2, <1>4, <1>5, <1>6, RowsKeepStops

LEMMA RecoveryStops ==
    ASSUME Base, StopInv, NEW n \in Numbers,
           LeaseLapse(n) \/ Reclaim(n) \/ SettleUnknown(n)
    PROVE  StopInv'
<1> USE DEF Base
<1>1. /\ attempt[n].status = "running"
      /\ attempt'[n].marked = attempt[n].marked
      /\ attempt'[n].status \in {"running", "ready", "outcome_unknown"}
      /\ attempt'[n].status = "running" => attempt'[n].fence = attempt[n].fence
      /\ \A m \in Numbers : m # n => attempt'[m] = attempt[m]
      /\ UNCHANGED <<worker, effects>>
  BY RecoveryFacts DEF OthersSame
<1>2. \A m \in Numbers : attempt'[m].status = "running" =>
         /\ attempt[m].status = "running"
         /\ attempt'[m].fence = attempt[m].fence
         /\ attempt'[m].marked = attempt[m].marked
  BY <1>1
<1>3. \A m \in Numbers : attempt'[m].marked \/ Clean(m)
  BY <1>1 DEF StopInv, MarkedFirst
<1>4. \A m \in Numbers : attempt'[m].status \in Stopped => Clean(m)
  BY <1>1 DEF StopInv, StoppedClean, Stopped
<1> QED
  BY <1>1, <1>2, <1>3, <1>4, RowsKeepStops

(* The coordinator's decisions leave every status but the new attempt's,   *)
(* and an attempt that does not exist yet is clean.                        *)
LEMMA AdvanceStops ==
    ASSUME Base, StopInv, Advance
    PROVE  StopInv'
<1> USE DEF Base
<1>1. UNCHANGED <<worker, effects>>
  BY DEF Advance
<1>2. CASE DecideFailure
  <2> DEFINE n == node.current
  <2>1. /\ attempt[n].status = "failed" /\ attempt'[n].status = "failed"
        /\ attempt'[n].marked = attempt[n].marked
        /\ \A m \in Numbers : m # n => attempt'[m] = attempt[m]
        /\ n \in Numbers
    BY <1>2, DecideFacts, Typed DEF OthersSame
  <2>2. \A m \in Numbers : attempt'[m].status = "running" =>
           /\ attempt[m].status = "running"
           /\ attempt'[m].fence = attempt[m].fence
           /\ attempt'[m].marked = attempt[m].marked
    BY <2>1
  <2>3. \A m \in Numbers : attempt'[m].marked \/ Clean(m)
    BY <2>1 DEF StopInv, MarkedFirst
  <2>4. \A m \in Numbers : attempt'[m].status \in Stopped => Clean(m)
    BY <2>1 DEF StopInv, StoppedClean
  <2> QED
    BY <1>1, <2>2, <2>3, <2>4, RowsKeepStops
<1>3. CASE Resume
  <2> DEFINE n == node.current + 1
  <2>1. /\ n \in Numbers /\ attempt'[n].status = "ready"
        /\ \A m \in Numbers : m # n => attempt'[m] = attempt[m]
    BY <1>3, ResumeFacts DEF OthersSame
  <2>2. Clean(n)
    <3>1. n > node.current
      BY Typed
    <3>2. attempt[n] = Absent
      BY <2>1, <3>1 DEF Structure, LaterAbsent
    <3> QED
      BY <2>1, <3>2 DEF StopInv, MarkedFirst, Absent
  <2>3. \A m \in Numbers : attempt'[m].status = "running" =>
           /\ attempt[m].status = "running"
           /\ attempt'[m].fence = attempt[m].fence
           /\ attempt'[m].marked = attempt[m].marked
    BY <2>1
  <2>4. \A m \in Numbers : attempt'[m].marked \/ Clean(m)
    BY <2>1, <2>2 DEF StopInv, MarkedFirst
  <2>5. \A m \in Numbers : attempt'[m].status \in Stopped => Clean(m)
    BY <2>1, <2>2 DEF StopInv, StoppedClean
  <2> QED
    BY <1>1, <2>3, <2>4, <2>5, RowsKeepStops
<1>4. CASE UNCHANGED attempt
  BY <1>1, <1>4, RowsKeepStops DEF StopInv, MarkedFirst, StoppedClean
<1> QED
  BY <1>2, <1>3, <1>4
     DEF Advance, StopWaiting, FinishRun, ConsumeFacts, NoChange

LEMMA CloseStops ==
    ASSUME Class # "safe", Base, StopInv, CloseRun, UNCHANGED effects,
           \A v \in Workers : worker'[v] = worker[v] \/ worker'[v] = Idle
    PROVE  StopInv'
<1> USE DEF Base
<1>1. \A m \in Numbers :
         /\ attempt'[m].marked = attempt[m].marked
         /\ attempt'[m].status =
               IF attempt[m].status \notin Open THEN attempt[m].status
               ELSE IF attempt[m].marked THEN "outcome_unknown" ELSE "canceled"
  BY CloseFacts DEF SameFields
<1>2. \A m \in Numbers : attempt'[m].status # "running"
  BY <1>1 DEF Open
<1>3. \A m \in Numbers : attempt'[m].marked \/ Clean(m)
  BY <1>1 DEF StopInv, MarkedFirst
<1>4. \A m \in Numbers : attempt'[m].status \in Stopped => Clean(m)
  BY <1>1 DEF StopInv, StoppedClean, MarkedFirst, Stopped
<1> QED
  BY <1>2, <1>3, <1>4, RowsKeepStops

LEMMA StopStep ==
    ASSUME Class # "safe", Base, LeaseInv, StopInv, [Next]_vars
    PROVE  StopInv'
<1> USE DEF Base
<1>1. CASE UNCHANGED <<attempt, worker, effects>>
  BY <1>1, RowsKeepStops DEF StopInv, MarkedFirst, StoppedClean
<1>2. ASSUME NEW e \in Events,
             \/ Publish(e) \/ FailPublication(e) \/ LoseJob(e)
             \/ SettleOverdueDelivery(e) \/ ReplaceFailedJob(e)
      PROVE  StopInv'
  BY <1>1, <1>2
     DEF Publish, FailPublication, LoseJob, SettleOverdueDelivery,
         ReplaceFailedJob
<1>3. ASSUME NEW w \in Workers, NEW e \in Events, ClaimDelivery(w, e)
      PROVE  StopInv'
  <2>1. CASE ClaimReady(w, e)
    BY <1>3, <2>1, ClaimStops
  <2>2. CASE ClaimSettled(w, e) \/ ClaimRunning(w, e)
    BY <1>1, <1>3, <2>2 DEF ClaimDelivery, ClaimSettled, ClaimRunning
  <2> QED
    BY <1>3, <2>1, <2>2 DEF ClaimDelivery
<1>4. ASSUME NEW w \in Workers, WorkerStep(w) \/ Crash(w) \/ WorkerGivesUp(w)
      PROVE  StopInv'
  <2>1. CASE MarkDispatched(w)
    BY <2>1, MarkStops
  <2>2. CASE CompleteCommit(w)
    BY <2>2, CommitStops
  <2>3. CASE Send(w) /\ effects' # effects
    BY <2>3, SendStops
  <2>4. CASE /\ UNCHANGED <<attempt, effects>>
             /\ \/ LoadInputs(w) \/ EndWithoutDispatch(w) \/ MarkRefused(w)
                \/ Send(w) \/ Return(w) \/ HeartbeatAbort(w)
                \/ CompleteDuplicate(w) \/ CompleteRefused(w) \/ Crash(w)
                \/ WorkerGivesUp(w)
    BY <2>4, MemoryStops
  <2>5. CASE WorkerGivesUp(w) /\ CloseRun
    <3>1. /\ UNCHANGED effects
          /\ \A v \in Workers : worker'[v] = worker[v] \/ worker'[v] = Idle
      BY <2>5, Typed DEF WorkerGivesUp, LetGo
    <3> QED
      BY <2>5, <3>1, CloseStops
  <2>6. WorkerGivesUp(w) => UNCHANGED effects /\ (CloseRun \/ UNCHANGED attempt)
    BY DEF WorkerGivesUp
  <2>7. Send(w) => UNCHANGED attempt
    BY DEF Send
  <2>8. \/ LoadInputs(w) \/ EndWithoutDispatch(w) \/ MarkRefused(w)
        \/ Return(w) \/ HeartbeatAbort(w) \/ CompleteDuplicate(w)
        \/ CompleteRefused(w) \/ Crash(w)
        => UNCHANGED <<attempt, effects>>
    BY Zenon
       DEF LoadInputs, EndWithoutDispatch, MarkRefused, Return, HeartbeatAbort,
           CompleteDuplicate, CompleteRefused, Crash, onlyWorker
  <2> QED
    BY <1>4, <2>1, <2>2, <2>3, <2>4, <2>5, <2>6, <2>7, <2>8 DEF WorkerStep
<1>5. ASSUME NEW n \in Numbers,
             LeaseLapse(n) \/ RecoverExpired(n) \/ OperatorSettleUnknown(n)
      PROVE  StopInv'
  BY <1>5, RecoveryStops DEF RecoverExpired, OperatorSettleUnknown
<1>6. CASE \/ Cancel \/ DeadlinePasses \/ ClaimDueDeadline \/ AdvanceEnded
           \/ TimerDue \/ ClaimDueWakeup
  BY <1>1, <1>6, Zenon
     DEF Cancel, DeadlinePasses, ClaimDueDeadline, AdvanceEnded, TimerDue,
         ClaimDueWakeup
<1>7. CASE Advance
  BY <1>7, AdvanceStops
<1>8. CASE CoordinatorGivesUp
  BY <1>8, CloseStops DEF CoordinatorGivesUp
<1>9. CASE UNCHANGED vars
  BY <1>1, <1>9, Zenon DEF vars
<1> QED
  BY <1>2, <1>3, <1>4, <1>5, <1>6, <1>7, <1>8, <1>9 DEF Next

LEMMA StopInvariant ==
    ASSUME Class # "safe"
    PROVE  Spec => []StopInv
<1>1. Base /\ Base' /\ LeaseInv /\ StopInv /\ [Next]_vars => StopInv'
  BY StopStep
<1> QED
  BY <1>1, StopInit, BaseInvariant, LeaseInvariant, PTL DEF Spec

(* Only a send makes an effect.                                            *)
LEMMA EffectsStep ==
    ASSUME [Next]_vars
    PROVE  \/ UNCHANGED effects
           \/ \E w \in Workers :
                 /\ Send(w) /\ InPhase(w, "applied")
                 /\ effects' = [effects EXCEPT ![worker[w].number] = @ + 1]
<1>1. ASSUME NEW w \in Workers, Send(w)
      PROVE  \/ UNCHANGED effects
             \/ /\ InPhase(w, "applied")
                /\ effects' = [effects EXCEPT ![worker[w].number] = @ + 1]
  BY <1>1 DEF Send
<1>2. ASSUME NEW w \in Workers, WorkerStep(w) \/ Crash(w) \/ WorkerGivesUp(w)
      PROVE  UNCHANGED effects \/ Send(w)
  BY <1>2, Zenon
     DEF WorkerStep, LoadInputs, EndWithoutDispatch, MarkDispatched,
         MarkRefused, Return, HeartbeatAbort, CompleteDuplicate,
         CompleteRefused, CompleteCommit, Crash, WorkerGivesUp, onlyWorker
<1>3. ASSUME NEW e \in Events,
             \/ Publish(e) \/ FailPublication(e) \/ LoseJob(e)
             \/ SettleOverdueDelivery(e) \/ ReplaceFailedJob(e)
             \/ \E w \in Workers : ClaimDelivery(w, e)
      PROVE  UNCHANGED effects
  BY <1>3, Zenon
     DEF Publish, FailPublication, LoseJob, SettleOverdueDelivery,
         ReplaceFailedJob, ClaimDelivery
<1>4. ASSUME NEW n \in Numbers,
             LeaseLapse(n) \/ RecoverExpired(n) \/ OperatorSettleUnknown(n)
      PROVE  UNCHANGED effects
  BY <1>4 DEF LeaseLapse, RecoverExpired, OperatorSettleUnknown, SettleUnknown,
              Reclaim
<1>5. CASE \/ Cancel \/ DeadlinePasses \/ ClaimDueDeadline \/ AdvanceEnded
           \/ TimerDue \/ ClaimDueWakeup \/ Advance \/ CoordinatorGivesUp
  BY <1>5, Zenon
     DEF Cancel, DeadlinePasses, ClaimDueDeadline, AdvanceEnded, TimerDue,
         ClaimDueWakeup, Advance, CoordinatorGivesUp
<1>6. CASE UNCHANGED vars
  BY <1>6, Zenon DEF vars
<1> QED
  BY <1>1, <1>2, <1>3, <1>4, <1>5, <1>6 DEF Next

(* A step whose class is safe makes no effect at all.                      *)
LEMMA SafeUntouched ==
    ASSUME Class = "safe"
    PROVE  Spec => [](\A n \in Numbers : effects[n] = 0)
<1> DEFINE Untouched == \A n \in Numbers : effects[n] = 0
<1>1. Init => Untouched
  BY DEF Init
<1>2. Untouched /\ [Next]_vars => Untouched'
  BY EffectsStep DEF Send
<1> QED
  BY <1>1, <1>2, PTL DEF Spec

(* TruthfulAttempt, whatever the class: completeControlOutcome, recovery   *)
(* and failUnadvanceableRun never write canceled or timed out over an      *)
(* effect, and no worker that lost its lease makes one afterwards.         *)
THEOREM TruthfulAttempts == Spec => []TruthfulAttempt
<1>1. CASE Class = "safe"
  <2>1. (\A n \in Numbers : effects[n] = 0) => TruthfulAttempt
    BY DEF TruthfulAttempt
  <2> QED
    BY <1>1, <2>1, SafeUntouched, PTL
<1>2. CASE Class # "safe"
  <2>1. StopInv => TruthfulAttempt
    BY DEF StopInv, StoppedClean, TruthfulAttempt, Clean, Stopped
  <2> QED
    BY <1>2, <2>1, StopInvariant, PTL
<1> QED
  BY <1>1, <1>2

-----------------------------------------------------------------------------
(* A step that ends canceled or timed out made no effect under any of its  *)
(* attempts, for a side effect that may not be repeated.  Three more facts *)
(* are needed: a failure reported as not possibly dispatched is of a clean *)
(* attempt, while the worker holds it and once the coordinator has it; and *)
(* a step only stops over a clean current attempt.                         *)

DecidedClean ==
    \A n \in Numbers :
        /\ attempt[n].status = "failed" /\ attempt[n].decision # "none"
        /\ ~attempt[n].result.possibly
        => Clean(n)
Denies(r) ==
    /\ r.phase = "reporting"
    /\ r.outcome.status = "executor_failure"
    /\ ~r.outcome.possibly
FailureClean ==
    \A w \in Workers : Holding(w) /\ Denies(worker[w]) => Clean(worker[w].number)
StepClean == node.status \in Stopped => Clean(node.current)

HonestInv == DecidedClean /\ FailureClean /\ StepClean

(* Only the marker permits a send.                                         *)
LEMMA PermissionStep ==
    ASSUME Base, [Next]_vars
    PROVE  \/ \E w \in Workers : MarkDispatched(w)
           \/ \A v \in Workers : worker'[v].phase = "marked" =>
                 worker'[v] = worker[v]
<1> USE DEF Base
<1>1. UNCHANGED worker =>
         \A v \in Workers : worker'[v].phase = "marked" => worker'[v] = worker[v]
  OBVIOUS
<1>2. ASSUME NEW w \in Workers, NEW e \in Events, ClaimDelivery(w, e)
      PROVE  \A v \in Workers : worker'[v].phase = "marked" =>
                worker'[v] = worker[v]
  <2>1. CASE ClaimReady(w, e)
    BY <1>2, <2>1, ClaimFacts
  <2>2. CASE ~ClaimReady(w, e)
    BY <1>2, <2>2 DEF ClaimDelivery, ClaimSettled, ClaimRunning
  <2> QED
    BY <2>1, <2>2
<1>3. ASSUME NEW w \in Workers, WorkerStep(w) \/ Crash(w) \/ WorkerGivesUp(w),
             ~MarkDispatched(w)
      PROVE  \A v \in Workers : worker'[v].phase = "marked" =>
                worker'[v] = worker[v]
  <2>1. \A v \in Workers : v # w => worker'[v] = worker[v]
    BY <1>3, WorkerKeepsDelivery DEF WorkerStep
  <2>2. \/ \E outcome : Reporting(w, outcome)
        \/ \E phase \in {"executing", "missed", "applied", "unsent"} :
              InPhase(w, phase)
        \/ LetGo(w) \/ UNCHANGED worker
    BY <1>3
       DEF WorkerStep, LoadInputs, EndWithoutDispatch, MarkRefused, Send,
           Return, HeartbeatAbort, CompleteDuplicate, CompleteRefused,
           CompleteCommit, Crash, WorkerGivesUp
  <2>3. worker'[w].phase # "marked" \/ UNCHANGED worker
    BY <2>2, MemoryFields
  <2> QED
    BY <2>1, <2>3
<1>4. ASSUME NEW n \in Numbers,
             LeaseLapse(n) \/ RecoverExpired(n) \/ OperatorSettleUnknown(n)
      PROVE  UNCHANGED worker
  BY <1>4, RecoveryFacts DEF RecoverExpired, OperatorSettleUnknown
<1>5. CASE \/ Cancel \/ DeadlinePasses \/ ClaimDueDeadline \/ TimerDue
           \/ ClaimDueWakeup \/ Advance \/ AdvanceEnded \/ CoordinatorGivesUp
           \/ UNCHANGED vars
  BY <1>1, <1>5
     DEF Cancel, DeadlinePasses, ClaimDueDeadline, TimerDue, ClaimDueWakeup,
         Advance, AdvanceEnded, CoordinatorGivesUp, vars
<1>6. ASSUME NEW e \in Events,
             \/ Publish(e) \/ FailPublication(e) \/ LoseJob(e)
             \/ SettleOverdueDelivery(e) \/ ReplaceFailedJob(e)
      PROVE  UNCHANGED worker
  BY <1>6, TransportFacts
<1> QED
  BY <1>1, <1>2, <1>3, <1>4, <1>5, <1>6 DEF Next

(* An attempt stays clean until a worker commits its marker.               *)
LEMMA CleanKept ==
    ASSUME Base, [Next]_vars, NEW n \in Numbers, Clean(n),
           \A w \in Workers : MarkDispatched(w) => worker[w].number # n
    PROVE  effects'[n] = 0 /\ \A v \in Workers :
              ~(worker'[v].phase = "marked" /\ worker'[v].number = n)
<1> USE DEF Base
<1>1. effects'[n] = 0
  <2>1. ASSUME NEW w \in Workers, Send(w) PROVE worker[w].number # n
    BY <2>1 DEF Send, Clean
  <2> QED
    BY <2>1, EffectsStep, Typed DEF Clean
<1>2. ASSUME NEW v \in Workers, worker'[v].phase = "marked",
             worker'[v].number = n
      PROVE  FALSE
  <2>1. CASE \E w \in Workers : MarkDispatched(w)
    <3>1. PICK w \in Workers : MarkDispatched(w)
      BY <2>1
    <3>2. /\ \A u \in Workers : u # w => worker'[u] = worker[u]
          /\ worker'[w].phase # "idle" => worker'[w].number = worker[w].number
      BY <3>1, WorkerKeepsDelivery
    <3>3. worker[w].number # n
      BY <3>1
    <3> QED
      BY <1>2, <3>2, <3>3 DEF Clean
  <2>2. CASE worker'[v] = worker[v]
    BY <1>2, <2>2 DEF Clean
  <2> QED
    BY <1>2, <2>1, <2>2, PermissionStep
<1> QED
  BY <1>1, <1>2

LEMMA HonestInit == Init => HonestInv
<1> SUFFICES ASSUME Init PROVE HonestInv
  OBVIOUS
<1>1. /\ \A w \in Workers : worker[w].phase = "idle"
      /\ \A n \in Numbers : attempt[n].status \in {"ready", "absent"}
      /\ node.status = "ready"
  BY DEF Init, Idle, Admitted, Absent
<1> QED
  BY <1>1
     DEF HonestInv, DecidedClean, FailureClean, Holding, Denies, StepClean,
         Stopped

(* Steps other than the marker: clean attempts stay clean, so what becomes *)
(* decided, denied or stopped has to be clean.                             *)
LEMMA HonestSame ==
    ASSUME Base, Base', [Next]_vars, HonestInv,
           ~\E w \in Workers : MarkDispatched(w),
           \A n \in Numbers :
              attempt'[n].status = "failed" /\ attempt'[n].decision # "none"
              /\ ~attempt'[n].result.possibly =>
                 \/ /\ attempt[n].status = "failed"
                    /\ attempt[n].decision # "none"
                    /\ ~attempt[n].result.possibly
                 \/ Clean(n),
           \A v \in Workers : Holding(v)' /\ Denies(worker'[v]) =>
              \/ Holding(v) /\ worker'[v] = worker[v]
              \/ worker[v].number = worker'[v].number /\ Clean(worker[v].number),
           node'.status \in Stopped =>
              \/ node.status \in Stopped /\ node'.current = node.current
              \/ Clean(node'.current)
    PROVE  HonestInv'
<1> USE DEF Base
<1>1. ASSUME NEW n \in Numbers, Clean(n) PROVE Clean(n)'
  BY <1>1, CleanKept DEF Clean
<1>2. ASSUME NEW n \in Numbers, NEW m \in Numbers, n = m, Clean(m)'
      PROVE  effects'[n] = 0 /\ \A v \in Workers :
                ~(worker'[v].phase = "marked" /\ worker'[v].number = n)
  BY <1>2 DEF Clean
<1>3. DecidedClean'
  BY <1>1 DEF HonestInv, DecidedClean
<1>4. FailureClean'
  <2>1. ASSUME NEW v \in Workers, Holding(v)', Denies(worker'[v])
        PROVE  /\ worker'[v].number = worker[v].number
               /\ worker[v].number \in Numbers /\ Clean(worker[v].number)
    BY <2>1, Typed DEF HonestInv, FailureClean
  <2>2. ASSUME NEW v \in Workers, Holding(v)', Denies(worker'[v])
        PROVE  Clean(worker[v].number)'
    <3> DEFINE n == worker[v].number
    <3>1. effects'[n] = 0 /\ \A u \in Workers :
             ~(worker'[u].phase = "marked" /\ worker'[u].number = n)
      BY <2>1, <2>2, CleanKept
    <3> QED
      BY <2>1, <2>2, <3>1 DEF Clean
  <2> QED
    BY <2>2 DEF FailureClean
<1>5. StepClean'
  <2> SUFFICES ASSUME node'.status \in Stopped PROVE Clean(node.current)'
    BY DEF StepClean
  <2>1. node'.current \in Numbers /\ Clean(node'.current)
    BY TypedNext DEF HonestInv, StepClean
  <2>2. effects'[node'.current] = 0 /\ \A u \in Workers :
           ~(worker'[u].phase = "marked" /\ worker'[u].number = node'.current)
    BY <2>1, CleanKept
  <2> QED
    BY <2>2 DEF Clean
<1> QED
  BY <1>3, <1>4, <1>5 DEF HonestInv

(* What a worker may deny: only what neither it nor an earlier lease sent. *)
LEMMA DenialClean ==
    ASSUME Class = "unsafe", Base, EffectInv, StopInv, NEW w \in Workers,
           Holding(w), worker'[w] # worker[w], Denies(worker'[w]),
           \/ LoadInputs(w) \/ EndWithoutDispatch(w) \/ MarkRefused(w)
           \/ Send(w) \/ Return(w) \/ HeartbeatAbort(w)
           \/ CompleteDuplicate(w) \/ CompleteRefused(w) \/ Crash(w)
           \/ CompleteCommit(w) \/ WorkerGivesUp(w)
    PROVE  Clean(worker[w].number)
<1> USE DEF Base
<1>1. CASE LoadInputs(w) \/ MarkRefused(w) \/ HeartbeatAbort(w)
  <2>1. \A dispatched : ControlOutcome(AbortReason, dispatched).status
           # "executor_failure"
    BY DEF ControlOutcome, Plain, AbortReason
  <2>2. Plain("succeeded").status # "executor_failure"
    BY DEF Plain
  <2>3. \/ \E dispatched : Reporting(w, ControlOutcome(AbortReason, dispatched))
        \/ Reporting(w, Plain("succeeded"))
        \/ InPhase(w, "executing") \/ InPhase(w, "unsent")
    BY <1>1, Zenon DEF LoadInputs, MarkRefused, HeartbeatAbort
  <2> QED
    BY <2>1, <2>2, <2>3, MemoryFields DEF Denies
<1>2. CASE EndWithoutDispatch(w)
  <2>1. ~attempt[worker[w].number].marked
    BY <1>2, Zenon DEF EndWithoutDispatch, EffectInv, HolderClean
  <2>2. worker[w].number \in Numbers
    BY Typed
  <2> QED
    BY <2>1, <2>2, UnmarkedClean
<1>3. CASE Return(w)
  <2>1. \A status \in {"succeeded", "failed"} :
           Plain(status).status # "executor_failure"
    BY DEF Plain
  <2>2. Ambiguous(w).possibly
    BY DEF Ambiguous, Failure
  <2>3. worker[w].phase \in {"missed", "unsent"}
    BY <1>3, <2>1, <2>2, MemoryFields DEF Return, Denies
  <2> QED
    BY <2>3 DEF EffectInv, HolderClean, SentNothing
<1>4. CASE Send(w)
  BY <1>4, MemoryFields DEF Send, Denies
<1>5. CASE \/ CompleteDuplicate(w) \/ CompleteRefused(w) \/ Crash(w)
           \/ CompleteCommit(w) \/ WorkerGivesUp(w)
  BY <1>5, MemoryFields
     DEF CompleteDuplicate, CompleteRefused, Crash, CompleteCommit,
         WorkerGivesUp, Denies
<1> QED
  BY <1>1, <1>2, <1>3, <1>4, <1>5

LEMMA MarkHonest ==
    ASSUME Class = "unsafe", Base, Base', [Next]_vars, EffectInv, HonestInv,
           NEW w \in Workers, MarkDispatched(w)
    PROVE  HonestInv'
<1> USE DEF Base
<1> DEFINE n == node.current
<1>1. /\ worker[w].number = n /\ Holding(w) /\ worker[w].phase = "executing"
      /\ attempt[n].status = "running" /\ attempt'[n].status = "running"
      /\ attempt'[n].fence = attempt[n].fence
      /\ \A m \in Numbers : m # n => attempt'[m] = attempt[m]
      /\ \A v \in Workers : v # w => worker'[v] = worker[v]
      /\ n \in Numbers
  BY MarkFacts, Typed DEF OthersSame
<1>2. /\ worker'[w].phase \in {"marked", "unsent"} /\ worker'[w].number = n
      /\ UNCHANGED <<effects, node>> /\ node.status = "running"
  <2>1. worker'[w].phase \in {"marked", "unsent"}
    BY MemoryFields DEF MarkDispatched
  <2>2. worker'[w].number = n
    BY <1>1, <2>1, WorkerKeepsDelivery
  <2> QED
    BY <2>1, <2>2 DEF MarkDispatched, LeaseCurrent
<1>3. ASSUME NEW m, m # n, Clean(m) PROVE Clean(m)'
  BY <1>1, <1>2, <1>3 DEF Clean
<1>4. DecidedClean'
  BY <1>1, <1>3 DEF HonestInv, DecidedClean
<1>5. FailureClean'
  <2>1. ASSUME NEW v \in Workers, Holding(v)', Denies(worker'[v])
        PROVE  Clean(worker[v].number)' /\ worker'[v].number = worker[v].number
    <3>1. v # w /\ worker'[v] = worker[v] /\ worker[v].number \in Numbers
      BY <1>1, <1>2, <2>1, Typed DEF Denies
    <3>2. Holding(v)
      BY <1>1, <2>1, <3>1 DEF Holding
    <3>3. worker[v].number # n
      BY <1>1, <3>1, <3>2 DEF Holding, EffectInv, OneHolder
    <3> QED
      BY <1>3, <2>1, <3>1, <3>2, <3>3 DEF HonestInv, FailureClean
  <2> QED
    BY <2>1 DEF FailureClean
<1>6. StepClean'
  BY <1>2 DEF StepClean, Stopped
<1> QED
  BY <1>4, <1>5, <1>6 DEF HonestInv

LEMMA ClaimHonest ==
    ASSUME Class = "unsafe", Base, Base', [Next]_vars, EffectInv, HonestInv,
           NEW w \in Workers, NEW e \in Events, ClaimDelivery(w, e),
           ClaimReady(w, e), ~\E v \in Workers : MarkDispatched(v)
    PROVE  HonestInv'
<1> USE DEF Base
<1> DEFINE n == node.current
<1>1. /\ attempt[n].status = "ready" /\ attempt'[n].status = "running"
      /\ \A m \in Numbers : m # n => attempt'[m] = attempt[m]
      /\ worker'[w].phase = "claimed" /\ node'.status = "running"
      /\ \A v \in Workers : v # w => worker'[v] = worker[v]
      /\ attempt'[n].fence = attempt[n].fence + 1 /\ n \in Numbers
  BY ClaimFacts, Typed DEF OthersSame
<1>2. ASSUME NEW v \in Workers, Holding(v)', Denies(worker'[v])
      PROVE  Holding(v) /\ worker'[v] = worker[v]
  <2>1. v # w /\ worker'[v] = worker[v] /\ worker[v].number \in Numbers
    BY <1>1, <1>2, Typed DEF Denies
  <2>2. worker[v].number # n
    BY <1>1, <1>2, <2>1, Typed DEF Holding, EffectInv, Fenced
  <2>3. attempt'[worker[v].number] = attempt[worker[v].number]
    BY <1>1, <2>1, <2>2
  <2> QED
    BY <1>2, <2>1, <2>3 DEF Holding
<1>3. \A m \in Numbers : attempt'[m].status = "failed" => attempt'[m] = attempt[m]
  BY <1>1
<1>4. node'.status \notin Stopped
  BY <1>1 DEF Stopped
<1> QED
  BY <1>2, <1>3, <1>4, HonestSame

LEMMA WorkerHonest ==
    ASSUME Class = "unsafe", Base, Base', [Next]_vars, EffectInv, StopInv,
           HonestInv, ~\E v \in Workers : MarkDispatched(v),
           NEW w \in Workers, UNCHANGED <<attempt, node>>,
           WorkerStep(w) \/ Crash(w) \/ WorkerGivesUp(w)
    PROVE  HonestInv'
<1> USE DEF Base
<1>1. /\ HandsOn /\ \A v \in Workers : v # w => worker'[v] = worker[v]
  BY WorkerKeepsDelivery DEF WorkerStep, HandsOn
<1>2. ASSUME NEW v \in Workers, Holding(v)', Denies(worker'[v])
      PROVE  \/ Holding(v) /\ worker'[v] = worker[v]
             \/ worker[v].number = worker'[v].number /\ Clean(worker[v].number)
  <2>1. Holding(v) /\ worker[v].number = worker'[v].number
    BY <1>1, <1>2 DEF Holding, HandsOn
  <2>2. CASE worker'[v] # worker[v]
    <3>1. v = w
      BY <1>1, <2>2
    <3> QED
      BY <1>2, <2>1, <2>2, <3>1, DenialClean DEF WorkerStep
  <2> QED
    BY <2>1, <2>2
<1> QED
  BY <1>2, HonestSame

LEMMA CommitHonest ==
    ASSUME Base, Base', [Next]_vars, StopInv, HonestInv,
           NEW w \in Workers, CompleteCommit(w),
           ~\E v \in Workers : MarkDispatched(v)
    PROVE  HonestInv'
<1> USE DEF Base
<1> DEFINE n == node.current
           outcome == worker[w].outcome
<1>1. /\ worker[w].number = n /\ worker[w].phase = "reporting" /\ Holding(w)
      /\ attempt'[n].status \in Settled /\ attempt'[n].result = outcome
      /\ attempt'[n].decision =
            IF outcome.status = "executor_failure" THEN "pending" ELSE "none"
      /\ node.status = "running" /\ node'.current = n /\ n \in Numbers
      /\ \A m \in Numbers : m # n => attempt'[m] = attempt[m]
      /\ outcome.status = "executor_failure" => node' = node
      /\ outcome.status = "suspended" => node'.status = "waiting"
      /\ outcome.status \notin {"executor_failure", "suspended"} =>
            node'.status = outcome.status
      /\ \A v \in Workers : worker'[v] = worker[v] \/ worker'[v] = Idle
  BY CommitFacts, Typed DEF OthersSame
<1>2. ASSUME NEW m \in Numbers, attempt'[m].decision # "none",
             ~attempt'[m].result.possibly
      PROVE  attempt'[m] = attempt[m] \/ Clean(m)
  <2>1. CASE m = n
    <3>1. outcome.status = "executor_failure" /\ ~outcome.possibly
      BY <1>1, <1>2, <2>1
    <3> QED
      BY <1>1, <2>1, <3>1 DEF HonestInv, FailureClean, Denies
  <2> QED
    BY <1>1, <2>1
<1>3. ASSUME NEW v \in Workers, Holding(v)', Denies(worker'[v])
      PROVE  Holding(v) /\ worker'[v] = worker[v]
  <2>1. worker'[v] = worker[v] /\ worker[v].number \in Numbers
    BY <1>1, <1>3, Typed DEF Denies, Idle
  <2>2. worker[v].number # n
    BY <1>1, <1>3, <2>1 DEF Holding, Settled
  <2> QED
    BY <1>1, <1>3, <2>1, <2>2 DEF Holding
<1>4. node'.status \in Stopped => Clean(node'.current)
  <2>1. node'.status \in Stopped => outcome.status \in Stopped
    BY <1>1 DEF Stopped
  <2> QED
    BY <1>1, <2>1 DEF StopInv, StopReportClean
<1> QED
  BY <1>2, <1>3, <1>4, HonestSame

LEMMA RecoveryHonest ==
    ASSUME Base, Base', [Next]_vars, HonestInv, NEW n \in Numbers,
           LeaseLapse(n) \/ Reclaim(n) \/ SettleUnknown(n),
           ~\E v \in Workers : MarkDispatched(v)
    PROVE  HonestInv'
<1> USE DEF Base
<1>1. /\ attempt'[n].status \in {"running", "ready", "outcome_unknown"}
      /\ attempt[n].status = "running"
      /\ attempt'[n].status = "running" => attempt'[n].fence = attempt[n].fence
      /\ \A m \in Numbers : m # n => attempt'[m] = attempt[m]
      /\ node'.status \in {"ready", "outcome_unknown", node.status}
      /\ node'.current = node.current /\ UNCHANGED worker
  BY RecoveryFacts DEF OthersSame
<1>2. \A m \in Numbers : attempt'[m].status = "failed" => attempt'[m] = attempt[m]
  BY <1>1
<1>3. \A v \in Workers : Holding(v)' => Holding(v)
  BY <1>1, Typed DEF Holding
<1>4. node'.status \in Stopped => node.status \in Stopped
  BY <1>1 DEF Stopped
<1> QED
  BY <1>1, <1>2, <1>3, <1>4, HonestSame

(* The coordinator only decides a stop over a failure that denied any      *)
(* dispatch, and stops a wait only over a clean attempt.                   *)
LEMMA AdvanceHonest ==
    ASSUME Class = "unsafe", Base, Base', [Next]_vars, EffectInv, HonestInv,
           Advance, ~\E v \in Workers : MarkDispatched(v)
    PROVE  HonestInv'
<1> USE DEF Base
<1> DEFINE n == node.current
<1>1. UNCHANGED worker
  BY DEF Advance
<1>2. CASE DecideFailure
  <2> DEFINE decision == FailureDecision(n)
  <2>1. /\ attempt[n].status = "failed" /\ attempt'[n].status = "failed"
        /\ attempt[n].decision = "pending"
        /\ attempt'[n].result = attempt[n].result
        /\ \A m \in Numbers : m # n => attempt'[m] = attempt[m]
        /\ n \in Numbers /\ node'.current = n
        /\ decision = "retry" => node'.status = "waiting"
        /\ decision # "retry" => node'.status = decision
    BY <1>2, DecideFacts, Typed DEF OthersSame
  <2>2. decision \in Stopped => ~attempt[n].result.possibly
    BY DEF FailureDecision, Stopped
  <2> HIDE DEF decision
  <2>3. node'.status \in Stopped => Clean(node'.current)
    <3>1. node'.status \in Stopped => decision \in Stopped
      BY <2>1 DEF Stopped
    <3>2. decision \in Stopped => Clean(n)
      BY <2>1, <2>2 DEF HonestInv, DecidedClean
    <3> QED
      BY <2>1, <3>1, <3>2
  <2>4. \A v \in Workers : Holding(v)' => Holding(v)
    BY <1>1, <2>1, Typed DEF Holding
  <2>5. \A m \in Numbers :
           attempt'[m].status = "failed" /\ attempt'[m].decision # "none"
           /\ ~attempt'[m].result.possibly =>
              /\ attempt[m].status = "failed" /\ attempt[m].decision # "none"
              /\ ~attempt[m].result.possibly
    BY <2>1
  <2> QED
    BY <1>1, <2>3, <2>4, <2>5, HonestSame
<1>3. CASE StopWaiting
  <2>1. UNCHANGED attempt /\ Clean(n) /\ node'.current = n
    BY <1>3, StopFacts DEF EffectInv, PastClean
  <2>2. \A v \in Workers : Holding(v)' => Holding(v)
    BY <1>1, <2>1 DEF Holding
  <2> QED
    BY <1>1, <2>1, <2>2, HonestSame
<1>4. CASE Resume
  <2>1. /\ attempt'[n + 1].status = "ready" /\ node'.status = "ready"
        /\ \A m \in Numbers : m # n + 1 => attempt'[m] = attempt[m]
    BY <1>4, ResumeFacts DEF OthersSame
  <2>2. \A v \in Workers : Holding(v)' => Holding(v)
    BY <1>1, <2>1, Typed DEF Holding
  <2>3. \A m \in Numbers : attempt'[m].status = "failed" =>
           attempt'[m] = attempt[m]
    BY <2>1
  <2>4. node'.status \notin Stopped
    BY <2>1 DEF Stopped
  <2> QED
    BY <1>1, <2>2, <2>3, <2>4, HonestSame
<1>5. CASE UNCHANGED <<attempt, node>>
  <2>1. \A v \in Workers : Holding(v)' => Holding(v)
    BY <1>1, <1>5 DEF Holding
  <2> QED
    BY <1>1, <1>5, <2>1, HonestSame
<1> QED
  BY <1>2, <1>3, <1>4, <1>5 DEF Advance, FinishRun, ConsumeFacts, NoChange

LEMMA CloseHonest ==
    ASSUME Class = "unsafe", Base, Base', [Next]_vars, EffectInv, StopInv,
           HonestInv, CloseRun, ~\E v \in Workers : MarkDispatched(v)
    PROVE  HonestInv'
<1> USE DEF Base
<1> DEFINE n == node.current
<1>1. \A m \in Numbers :
         /\ attempt'[m].status =
               IF attempt[m].status \notin Open THEN attempt[m].status
               ELSE IF attempt[m].marked THEN "outcome_unknown" ELSE "canceled"
         /\ attempt[m].status \notin Open => attempt'[m] = attempt[m]
  BY CloseFacts
<1>2. node'.current = n /\ n \in Numbers
  BY CloseFacts, Typed
<1>3. /\ \A m \in Numbers : attempt'[m].status # "running"
      /\ \A m \in Numbers : attempt'[m].status = "failed" =>
            attempt'[m] = attempt[m]
  BY <1>1 DEF Open
<1>4. \A v \in Workers : ~Holding(v)'
  <2> SUFFICES ASSUME NEW v \in Workers, Holding(v)' PROVE FALSE
    OBVIOUS
  <2>1. worker'[v].number \in Numbers
    BY TypeParts DEF Rows, WorkerRecord
  <2> QED
    BY <1>3, <2>1 DEF Holding
<1>5. node'.status \in Stopped =>
         (node.status \in Stopped /\ node'.current = n) \/ Clean(node'.current)
  <2>1. CASE node.status \in Settled
    BY <1>2, <2>1, CloseStatus
  <2>2. CASE node.status \notin Settled /\ attempt[n].status = "succeeded"
    <3>1. node.status = "waiting" \/ node'.status \notin Stopped
      <4>1. node.status \in {"ready", "running", "waiting"}
        BY <2>2, Typed DEF NodeRecord, NodeStatuses
      <4> QED
        BY <2>2, <4>1 DEF Structure, NodeFollows
    <3> QED
      BY <1>2, <3>1 DEF EffectInv, PastClean
  <2>3. CASE node.status \notin Settled /\ attempt[n].status # "succeeded"
    <3>1. node'.status \in Stopped => attempt'[n].status \in Stopped
      BY <2>3, CloseStatus DEF Stopped
    <3>2. attempt'[n].status \in Stopped => Clean(n)
      BY <1>1, <1>2 DEF StopInv, StoppedClean, MarkedFirst, Stopped
    <3> QED
      BY <1>2, <3>1, <3>2
  <2> QED
    BY <2>1, <2>2, <2>3
<1> QED
  BY <1>3, <1>4, <1>5, HonestSame

LEMMA HonestStep ==
    ASSUME Class = "unsafe", Base, Base', EffectInv, StopInv, HonestInv,
           [Next]_vars
    PROVE  HonestInv'
<1> USE DEF Base
<1>1. CASE \E w \in Workers : MarkDispatched(w)
  BY <1>1, MarkHonest
<1> SUFFICES ASSUME ~\E w \in Workers : MarkDispatched(w)
             PROVE  HonestInv'
  BY <1>1
<1>2. CASE UNCHANGED <<attempt, worker>> /\ node'.status = node.status
           /\ node'.current = node.current
  <2>1. \A v \in Workers : Holding(v)' => Holding(v)
    BY <1>2 DEF Holding
  <2> QED
    BY <1>2, <2>1, HonestSame
<1>3. ASSUME NEW e \in Events,
             \/ Publish(e) \/ FailPublication(e) \/ LoseJob(e)
             \/ SettleOverdueDelivery(e) \/ ReplaceFailedJob(e)
      PROVE  HonestInv'
  BY <1>2, <1>3
     DEF Publish, FailPublication, LoseJob, SettleOverdueDelivery,
         ReplaceFailedJob
<1>4. ASSUME NEW w \in Workers, NEW e \in Events, ClaimDelivery(w, e)
      PROVE  HonestInv'
  <2>1. CASE ClaimReady(w, e)
    BY <1>4, <2>1, ClaimHonest
  <2>2. CASE ClaimSettled(w, e) \/ ClaimRunning(w, e)
    BY <1>2, <2>2 DEF ClaimSettled, ClaimRunning
  <2> QED
    BY <1>4, <2>1, <2>2 DEF ClaimDelivery
<1>5. ASSUME NEW w \in Workers, WorkerStep(w) \/ Crash(w) \/ WorkerGivesUp(w)
      PROVE  HonestInv'
  <2>1. CASE CompleteCommit(w)
    BY <2>1, CommitHonest
  <2>2. CASE CloseRun
    BY <2>2, CloseHonest
  <2>3. CASE UNCHANGED <<attempt, node>>
    BY <1>5, <2>3, WorkerHonest
  <2>4. WorkerGivesUp(w) => CloseRun \/ UNCHANGED <<attempt, node>>
    BY DEF WorkerGivesUp
  <2>5. \/ LoadInputs(w) \/ EndWithoutDispatch(w) \/ MarkRefused(w) \/ Send(w)
        \/ Return(w) \/ HeartbeatAbort(w) \/ CompleteDuplicate(w)
        \/ CompleteRefused(w) \/ Crash(w)
        => UNCHANGED <<attempt, node>>
    BY Zenon
       DEF LoadInputs, EndWithoutDispatch, MarkRefused, Send, Return,
           HeartbeatAbort, CompleteDuplicate, CompleteRefused, Crash, onlyWorker
  <2> QED
    BY <1>5, <2>1, <2>2, <2>3, <2>4, <2>5 DEF WorkerStep
<1>6. ASSUME NEW n \in Numbers,
             LeaseLapse(n) \/ RecoverExpired(n) \/ OperatorSettleUnknown(n)
      PROVE  HonestInv'
  BY <1>6, RecoveryHonest DEF RecoverExpired, OperatorSettleUnknown
<1>7. CASE Cancel \/ DeadlinePasses \/ ClaimDueDeadline \/ AdvanceEnded
  BY <1>2, <1>7 DEF Cancel, DeadlinePasses, ClaimDueDeadline, AdvanceEnded
<1>8. CASE TimerDue \/ ClaimDueWakeup
  BY <1>2, <1>8, TimerFacts
<1>9. CASE Advance
  BY <1>9, AdvanceHonest
<1>10. CASE CoordinatorGivesUp
  BY <1>10, CloseHonest DEF CoordinatorGivesUp
<1>11. CASE UNCHANGED vars
  BY <1>2, <1>11 DEF vars
<1> QED
  BY <1>3, <1>4, <1>5, <1>6, <1>7, <1>8, <1>9, <1>10, <1>11 DEF Next

LEMMA EffectInvariant ==
    ASSUME Class = "unsafe"
    PROVE  Spec => []EffectInv
<1>1. TypeInv /\ TypeInv' /\ EffectInv /\ [Next]_vars => EffectInv'
  BY EffectStep
<1>2. Base => TypeInv
  BY DEF Base
<1> QED
  BY <1>1, <1>2, EffectInit, BaseInvariant, PTL DEF Spec

LEMMA HonestInvariant ==
    ASSUME Class = "unsafe"
    PROVE  Spec => []HonestInv
<1>1. Base /\ Base' /\ EffectInv /\ StopInv /\ HonestInv /\ [Next]_vars
         => HonestInv'
  BY HonestStep
<1>2. Spec => []StopInv
  BY StopInvariant
<1> QED
  BY <1>1, <1>2, HonestInit, BaseInvariant, EffectInvariant, PTL DEF Spec

LEMMA HonestImpliesTruth ==
    ASSUME Base, EffectInv, HonestInv
    PROVE  TruthfulStop
<1> SUFFICES ASSUME node.status \in Stopped, NEW n \in Numbers
             PROVE  effects[n] = 0
  BY DEF TruthfulStop, Stopped
<1>1. CASE n = node.current
  BY <1>1 DEF HonestInv, StepClean, Clean
<1>2. CASE n < node.current
  BY <1>2 DEF EffectInv, PastClean, Clean
<1>3. CASE n > node.current
  BY <1>3 DEF EffectInv, FutureUntouched
<1> QED
  BY <1>1, <1>2, <1>3, Typed DEF Base

(* TruthfulStop for every class but idempotent_with_key, where an earlier  *)
(* attempt whose send was never confirmed may have made the effect before  *)
(* stopInvocation stopped the wait for the retry.                          *)
THEOREM TruthfulStops ==
    Spec => [](Class # "idempotent_with_key" => TruthfulStop)
<1>1. CASE Class = "safe"
  <2>1. (\A n \in Numbers : effects[n] = 0) =>
           (Class # "idempotent_with_key" => TruthfulStop)
    BY DEF TruthfulStop
  <2> QED
    BY <1>1, <2>1, SafeUntouched, PTL
<1>2. CASE Class = "unsafe"
  <2>1. Base /\ EffectInv /\ HonestInv =>
           (Class # "idempotent_with_key" => TruthfulStop)
    BY HonestImpliesTruth
  <2> QED
    BY <1>2, <2>1, BaseInvariant, EffectInvariant, HonestInvariant, PTL
<1>3. CASE Class = "idempotent_with_key"
  <2>1. TRUE => (Class # "idempotent_with_key" => TruthfulStop)
    BY <1>3
  <2> QED
    BY <2>1, PTL
<1> QED
  BY <1>1, <1>2, <1>3, StepAssumption DEF Classes

-----------------------------------------------------------------------------
(* The promise of StepPromise.  Beyond what is proved above: a worker with *)
(* permission to send holds the lease, or the step was written off as      *)
(* unknown; a worker that reports success made the effect; and a step      *)
(* that does not suspend is never resumed.                                 *)

PermissionKept ==
    \A w \in Workers : worker[w].phase = "marked" =>
        Holding(w) \/ node.status = "outcome_unknown"
Succeeding(r) ==
    r.phase = "applied" \/ (r.phase = "reporting" /\ r.outcome.status = "succeeded")
SuccessMade ==
    \A w \in Workers : Succeeding(worker[w]) => effects[worker[w].number] > 0
NeverResumes ==
    node.wait # "node_wait" /\ \A n \in Numbers : ~attempt[n].resume

PromiseInv == PermissionKept /\ SuccessMade /\ NeverResumes

LEMMA PromiseInit == Init => PromiseInv
<1> SUFFICES ASSUME Init PROVE PromiseInv
  OBVIOUS
<1>1. /\ \A w \in Workers : worker[w].phase = "idle"
      /\ \A n \in Numbers : ~attempt[n].resume
      /\ node.wait = "none"
  BY DEF Init, Idle, Admitted, Absent
<1> QED
  BY <1>1
     DEF PromiseInv, PermissionKept, SuccessMade, Succeeding, NeverResumes

(* How the step and its run may end.                                       *)
NodeMoves ==
    /\ node.status \in Settled => node'.status = node.status
    /\ run' # run =>
          /\ run = "active" /\ run' \in Settled
          /\ (run' = "outcome_unknown") <=> (node'.status = "outcome_unknown")
    /\ node'.status = "succeeded" =>
          \/ node.status = "succeeded"
          \/ \E w \in Workers :
                /\ worker[w].phase = "reporting"
                /\ worker[w].outcome.status = "succeeded"

LEMMA CloseMoves ==
    ASSUME Base, Base', CloseRun
    PROVE  NodeMoves
<1> USE DEF Base
<1>1. /\ run = "active" /\ node'.status = EmergencyNodeStatus
      /\ run' = IF EmergencyNodeStatus = "outcome_unknown"
                THEN "outcome_unknown" ELSE "failed"
  BY CloseFacts
<1>2. node.status \in Settled => node'.status = node.status
  BY CloseStatus
<1>3. node'.status = "succeeded" => node.status = "succeeded"
  <2> SUFFICES ASSUME node.status \notin Settled, node'.status = "succeeded"
               PROVE  FALSE
    BY <1>2
  <2> DEFINE c == attempt[node.current]
  <2>1. c.status # "succeeded" => attempt'[node.current].status = "succeeded"
    BY CloseStatus
  <2>2. c.status = "succeeded"
    BY <2>1, CloseFacts, Typed
  <2>3. node.status = "running"
    BY <2>2, CloseStatus
  <2> QED
    BY <2>2, <2>3 DEF Structure, NodeFollows
<1> QED
  BY <1>1, <1>2, <1>3 DEF NodeMoves, Settled

LEMMA AdvanceMoves ==
    ASSUME Base, Base', Advance
    PROVE  NodeMoves
<1> USE DEF Base
<1>1. run = "active"
  BY DEF Advance
<1>2. CASE DecideFailure
  <2> DEFINE decision == FailureDecision(node.current)
  <2>1. /\ node.status = "running"
        /\ decision \in {"retry", "outcome_unknown", "canceled", "timed_out",
                         "failed"}
        /\ decision = "retry" => node'.status = "waiting" /\ UNCHANGED run
        /\ decision # "retry" =>
              node'.status = decision /\ run' = TerminalRunStatus(decision)
    BY <1>2, DecideFacts
  <2> HIDE DEF decision
  <2>2. decision # "retry" => decision \in Settled
    BY <2>1 DEF Settled
  <2> QED
    BY <1>1, <2>1, <2>2, TerminalStatus DEF NodeMoves, Settled
<1>3. CASE StopWaiting
  <2>1. /\ node.status = "waiting" /\ AbortReason \in {"canceled", "timed_out"}
        /\ node'.status = AbortReason /\ run' = TerminalRunStatus(AbortReason)
    BY <1>3, StopFacts
  <2>2. AbortReason \in Settled
    BY <2>1 DEF Settled
  <2> QED
    BY <1>1, <2>1, <2>2, TerminalStatus DEF NodeMoves, Settled
<1>4. CASE Resume
  BY <1>4, ResumeFacts DEF NodeMoves, Settled
<1>5. CASE FinishRun
  BY <1>1, <1>5, TerminalStatus DEF NodeMoves, FinishRun
<1>6. CASE ConsumeFacts
  BY <1>6 DEF NodeMoves, ConsumeFacts
<1> QED
  BY <1>2, <1>3, <1>4, <1>5, <1>6 DEF Advance, NoChange

LEMMA NodeStep ==
    ASSUME Base, Base', [Next]_vars
    PROVE  NodeMoves
<1> USE DEF Base
<1>1. CASE node'.status = node.status /\ UNCHANGED run
  BY <1>1 DEF NodeMoves
<1>2. ASSUME NEW e \in Events,
             \/ Publish(e) \/ FailPublication(e) \/ LoseJob(e)
             \/ SettleOverdueDelivery(e) \/ ReplaceFailedJob(e)
      PROVE  NodeMoves
  BY <1>1, <1>2, TransportFacts
     DEF Publish, FailPublication, LoseJob, SettleOverdueDelivery,
         ReplaceFailedJob, runVars
<1>3. ASSUME NEW w \in Workers, NEW e \in Events, ClaimDelivery(w, e)
      PROVE  NodeMoves
  <2>1. UNCHANGED run
    BY <1>3 DEF ClaimDelivery, runVars
  <2>2. CASE ClaimReady(w, e)
    BY <1>3, <2>1, <2>2, ClaimFacts DEF NodeMoves, Settled
  <2>3. CASE ~ClaimReady(w, e)
    BY <1>1, <1>3, <2>1, <2>3 DEF ClaimDelivery, ClaimSettled, ClaimRunning
  <2> QED
    BY <2>2, <2>3
<1>4. ASSUME NEW w \in Workers, WorkerStep(w) \/ Crash(w) \/ WorkerGivesUp(w)
      PROVE  NodeMoves
  <2>1. CASE CompleteCommit(w)
    <3>1. /\ worker[w].phase = "reporting" /\ node.status = "running"
          /\ UNCHANGED run
      BY <2>1, CommitFacts DEF CompleteCommit, runVars
    <3>2. node'.status = "succeeded" => worker[w].outcome.status = "succeeded"
      <4> DEFINE outcome == worker[w].outcome
      <4>1. /\ outcome.status = "executor_failure" => node' = node
            /\ outcome.status = "suspended" => node'.status = "waiting"
            /\ outcome.status \notin {"executor_failure", "suspended"} =>
                  node'.status = outcome.status
        BY <2>1, CommitFacts
      <4> QED
        BY <3>1, <4>1
    <3> QED
      BY <3>1, <3>2 DEF NodeMoves, Settled
  <2>2. CASE CloseRun
    BY <2>2, CloseMoves
  <2>3. WorkerGivesUp(w) => CloseRun \/ UNCHANGED <<node, run>>
    BY DEF WorkerGivesUp
  <2>4. \/ LoadInputs(w) \/ EndWithoutDispatch(w) \/ MarkRefused(w) \/ Send(w)
        \/ Return(w) \/ HeartbeatAbort(w) \/ CompleteDuplicate(w)
        \/ CompleteRefused(w) \/ Crash(w) \/ MarkDispatched(w)
        => UNCHANGED <<node, run>>
    BY Zenon
       DEF LoadInputs, EndWithoutDispatch, MarkRefused, Send, Return,
           HeartbeatAbort, CompleteDuplicate, CompleteRefused, Crash,
           MarkDispatched, onlyWorker, runVars
  <2> QED
    BY <1>1, <1>4, <2>1, <2>2, <2>3, <2>4 DEF WorkerStep
<1>5. ASSUME NEW n \in Numbers,
             LeaseLapse(n) \/ RecoverExpired(n) \/ OperatorSettleUnknown(n)
      PROVE  NodeMoves
  <2>1. LeaseLapse(n) \/ Reclaim(n) \/ SettleUnknown(n)
    BY <1>5 DEF RecoverExpired, OperatorSettleUnknown
  <2>2. /\ attempt[n].status = "running" /\ UNCHANGED run
        /\ \/ node'.status = node.status
           \/ node.status = "running" /\ node'.status = "ready"
           \/ node.current = n /\ node'.status = "outcome_unknown"
    BY <2>1, RecoveryFacts
  <2>3. node.current = n => node.status \notin Settled
    BY <2>2 DEF Structure, NodeFollows, Settled
  <2> QED
    BY <2>2, <2>3 DEF NodeMoves, Settled
<1>6. CASE \/ Cancel \/ DeadlinePasses \/ ClaimDueDeadline \/ AdvanceEnded
           \/ UNCHANGED vars
  BY <1>1, <1>6
     DEF Cancel, DeadlinePasses, ClaimDueDeadline, AdvanceEnded, runVars, vars
<1>7. CASE TimerDue \/ ClaimDueWakeup
  BY <1>1, <1>7, TimerFacts
<1>8. CASE Advance
  BY <1>8, AdvanceMoves
<1>9. CASE CoordinatorGivesUp
  BY <1>9, CloseMoves DEF CoordinatorGivesUp
<1> QED
  BY <1>2, <1>3, <1>4, <1>5, <1>6, <1>7, <1>8, <1>9 DEF Next

(* A worker that may send keeps its lease until its attempt is written off.*)
LEMMA RunningStep ==
    ASSUME Class = "unsafe", Base, Base', [Next]_vars, NEW n \in Numbers,
           attempt[n].status = "running", attempt[n].marked
    PROVE  \/ /\ attempt'[n].status = "running"
              /\ attempt'[n].fence = attempt[n].fence
           \/ node'.status = "outcome_unknown"
           \/ \E w \in Workers : CompleteCommit(w) /\ worker[w].number = n
<1> USE DEF Base
<1>1. n = node.current /\ node.status \notin Settled
  BY DEF Structure, OneOpenAttempt, NodeFollows, Open, Settled
<1>2. CASE attempt'[n] = attempt[n]
  BY <1>2
<1>3. ASSUME NEW e \in Events,
             \/ Publish(e) \/ FailPublication(e) \/ LoseJob(e)
             \/ SettleOverdueDelivery(e) \/ ReplaceFailedJob(e)
      PROVE  UNCHANGED attempt
  BY <1>3, TransportFacts
<1>4. ASSUME NEW w \in Workers, NEW e \in Events, ClaimDelivery(w, e)
      PROVE  UNCHANGED attempt
  <2>1. ~ClaimReady(w, e)
    BY <1>1, <1>4, ClaimFacts
  <2> QED
    BY <1>4, <2>1 DEF ClaimDelivery, ClaimSettled, ClaimRunning
<1>5. CASE CloseRun
  <2>1. attempt'[n].status = "outcome_unknown"
    BY <1>5, CloseFacts DEF Open
  <2> QED
    BY <1>1, <1>5, <2>1, CloseStatus
<1>6. ASSUME NEW w \in Workers, WorkerStep(w) \/ Crash(w) \/ WorkerGivesUp(w)
      PROVE  \/ CloseRun \/ UNCHANGED attempt
             \/ CompleteCommit(w) /\ worker[w].number = n
             \/ /\ attempt'[n].status = "running"
                /\ attempt'[n].fence = attempt[n].fence
  <2>1. CASE CompleteCommit(w)
    BY <1>1, <2>1, CommitFacts
  <2>2. CASE MarkDispatched(w)
    BY <1>1, <2>2, MarkFacts
  <2>3. WorkerGivesUp(w) => CloseRun \/ UNCHANGED attempt
    BY DEF WorkerGivesUp
  <2>4. \/ LoadInputs(w) \/ EndWithoutDispatch(w) \/ MarkRefused(w) \/ Send(w)
        \/ Return(w) \/ HeartbeatAbort(w) \/ CompleteDuplicate(w)
        \/ CompleteRefused(w) \/ Crash(w)
        => UNCHANGED attempt
    BY Zenon
       DEF LoadInputs, EndWithoutDispatch, MarkRefused, Send, Return,
           HeartbeatAbort, CompleteDuplicate, CompleteRefused, Crash, onlyWorker
  <2> QED
    BY <1>6, <2>1, <2>2, <2>3, <2>4 DEF WorkerStep
<1>7. ASSUME NEW m \in Numbers,
             LeaseLapse(m) \/ RecoverExpired(m) \/ OperatorSettleUnknown(m)
      PROVE  \/ /\ attempt'[n].status = "running"
                /\ attempt'[n].fence = attempt[n].fence
             \/ node'.status = "outcome_unknown"
  <2>1. LeaseLapse(m) \/ Reclaim(m) \/ SettleUnknown(m)
    BY <1>7 DEF RecoverExpired, OperatorSettleUnknown
  <2>2. m = n
    <3>1. attempt[m].status = "running"
      BY <2>1, RecoveryFacts
    <3> QED
      BY <1>1, <3>1 DEF Structure, OneOpenAttempt, Open
  <2> QED
    BY <1>1, <2>1, <2>2, RecoveryFacts
<1>8. CASE \/ Cancel \/ DeadlinePasses \/ ClaimDueDeadline \/ AdvanceEnded
           \/ TimerDue \/ ClaimDueWakeup \/ UNCHANGED vars
  BY <1>2, <1>8, Zenon
     DEF Cancel, DeadlinePasses, ClaimDueDeadline, AdvanceEnded, TimerDue,
         ClaimDueWakeup, vars
<1>9. CASE Advance
  <2>1. ~DecideFailure /\ (Resume => attempt'[n] = attempt[n])
    <3>1. ~DecideFailure
      BY <1>1, DecideFacts
    <3>2. Resume => attempt'[n] = attempt[n]
      BY <1>1, ResumeFacts, Typed DEF OthersSame
    <3> QED
      BY <3>1, <3>2
  <2> QED
    BY <1>2, <1>9, <2>1
       DEF Advance, NoChange, StopWaiting, FinishRun, ConsumeFacts
<1>10. CASE CoordinatorGivesUp
  BY <1>5, <1>10 DEF CoordinatorGivesUp
<1> QED
  BY <1>2, <1>3, <1>4, <1>5, <1>6, <1>7, <1>8, <1>9, <1>10 DEF Next

LEMMA PermissionKeptStep ==
    ASSUME Class = "unsafe", Base, Base', [Next]_vars, EffectInv,
           PermissionKept
    PROVE  PermissionKept'
<1> USE DEF Base
<1> SUFFICES ASSUME NEW v \in Workers, worker'[v].phase = "marked"
             PROVE  Holding(v)' \/ node'.status = "outcome_unknown"
  BY DEF PermissionKept
<1>1. CASE MarkDispatched(v)
  <2>1. /\ Holding(v) /\ attempt'[worker[v].number].status = "running"
        /\ attempt'[worker[v].number].fence = attempt[worker[v].number].fence
    BY <1>1, MarkFacts
  <2>2. /\ worker'[v].number = worker[v].number
        /\ worker'[v].fence = worker[v].fence
    BY <1>1, WorkerKeepsDelivery
  <2> QED
    BY <2>1, <2>2 DEF Holding
<1>2. CASE worker'[v] = worker[v]
  <2> DEFINE n == worker[v].number
  <2>1. /\ worker[v].phase = "marked" /\ n \in Numbers
        /\ attempt[n].marked
    BY <1>2, Typed DEF EffectInv, OnePermission
  <2>2. CASE node.status = "outcome_unknown"
    BY <2>2, NodeStep DEF NodeMoves, Settled
  <2>3. CASE Holding(v)
    <3>1. ASSUME NEW w \in Workers, CompleteCommit(w), worker[w].number = n
          PROVE  FALSE
      <4>1. worker[w].phase = "reporting" /\ Holding(w)
        BY <3>1, CommitFacts
      <4>2. w # v
        BY <2>1, <4>1
      <4> QED
        BY <2>1, <2>3, <3>1, <4>1, <4>2 DEF Holding, EffectInv, OneHolder
    <3>2. \/ /\ attempt'[n].status = "running"
             /\ attempt'[n].fence = attempt[n].fence
          \/ node'.status = "outcome_unknown"
      BY <2>1, <2>3, <3>1, RunningStep DEF Holding
    <3> QED
      BY <1>2, <2>1, <2>3, <3>2 DEF Holding
  <2> QED
    BY <2>1, <2>2, <2>3 DEF PermissionKept
<1>3. CASE \E w \in Workers : w # v /\ MarkDispatched(w)
  BY <1>2, <1>3, WorkerKeepsDelivery
<1> QED
  BY <1>1, <1>2, <1>3, PermissionStep

LEMMA SuccessReport ==
    ASSUME Class = "unsafe", Base, NeverResumes, NEW w \in Workers,
           WorkerStep(w) \/ Crash(w) \/ WorkerGivesUp(w),
           worker'[w] # worker[w], Succeeding(worker'[w])
    PROVE  \/ worker[w].phase = "applied"
           \/ Send(w) /\ ~UNCHANGED effects
<1> USE DEF Base
<1>1. CASE LoadInputs(w) \/ MarkRefused(w) \/ HeartbeatAbort(w)
  <2>1. \A dispatched : ControlOutcome(AbortReason, dispatched).status
           # "succeeded"
    BY DEF ControlOutcome, Plain, AbortReason
  <2>2. ~attempt[worker[w].number].resume
    BY Typed DEF NeverResumes
  <2>3. \/ \E dispatched : Reporting(w, ControlOutcome(AbortReason, dispatched))
        \/ InPhase(w, "executing") \/ InPhase(w, "unsent")
    BY <1>1, <2>2, Zenon DEF LoadInputs, MarkRefused, HeartbeatAbort
  <2> QED
    BY <2>1, <2>3, MemoryFields DEF Succeeding
<1>2. CASE EndWithoutDispatch(w)
  <2>1. \E kind \in FailureKinds, possibly \in BOOLEAN :
           Reporting(w, Failure(kind, possibly))
    BY <1>2 DEF EndWithoutDispatch, FailureKinds
  <2> QED
    BY <2>1, MemoryFields DEF Failure, Succeeding
<1>3. CASE Return(w)
  <2>1. Ambiguous(w).status # "succeeded"
    BY DEF Ambiguous, Failure
  <2>2. \A kind : Definite(w, kind).status # "succeeded"
    BY DEF Definite, Failure
  <2> QED
    BY <1>3, <2>1, <2>2, MemoryFields DEF Return, Succeeding
<1>4. CASE Send(w)
  <2>1. InPhase(w, "missed") => ~Succeeding(worker'[w])
    BY MemoryFields DEF Succeeding
  <2>2. ASSUME effects' = [effects EXCEPT ![worker[w].number] = @ + 1]
        PROVE  ~UNCHANGED effects
    <3>1. worker[w].number \in Numbers /\ effects[worker[w].number] \in Nat
      BY Typed
    <3> QED
      BY <2>2, <3>1, Typed
  <2> QED
    BY <1>4, <2>1, <2>2 DEF Send
<1>5. CASE MarkDispatched(w)
  BY <1>5, MemoryFields DEF MarkDispatched, Succeeding
<1>6. CASE \/ CompleteDuplicate(w) \/ CompleteRefused(w) \/ Crash(w)
           \/ CompleteCommit(w) \/ WorkerGivesUp(w)
  BY <1>6, MemoryFields
     DEF CompleteDuplicate, CompleteRefused, Crash, CompleteCommit,
         WorkerGivesUp, Succeeding
<1> QED
  BY <1>1, <1>2, <1>3, <1>4, <1>5, <1>6 DEF WorkerStep

LEMMA EffectsGrow ==
    ASSUME Base, [Next]_vars, NEW n \in Numbers
    PROVE  effects[n] <= effects'[n] /\ effects[n] \in Nat /\ effects'[n] \in Nat
BY EffectsStep, Typed DEF Base

LEMMA SuccessMadeStep ==
    ASSUME Class = "unsafe", Base, [Next]_vars, NeverResumes, SuccessMade
    PROVE  SuccessMade'
<1> USE DEF Base
<1>1. ASSUME NEW v \in Workers, worker'[v] = worker[v], Succeeding(worker[v])
      PROVE  effects'[worker'[v].number] > 0
  <2>1. worker[v].number \in Numbers /\ effects[worker[v].number] > 0
    BY <1>1, Typed DEF SuccessMade
  <2> QED
    BY <1>1, <2>1, EffectsGrow
<1>2. ASSUME NEW w \in Workers, WorkerStep(w) \/ Crash(w) \/ WorkerGivesUp(w)
      PROVE  SuccessMade'
  <2>1. /\ \A v \in Workers : v # w => worker'[v] = worker[v]
        /\ worker'[w].phase # "idle" => worker'[w].number = worker[w].number
    BY <1>2, WorkerKeepsDelivery DEF WorkerStep
  <2>2. ASSUME worker'[w] # worker[w], Succeeding(worker'[w])
        PROVE  effects'[worker'[w].number] > 0
    <3> DEFINE n == worker[w].number
    <3>1. n \in Numbers /\ worker'[w].number = n
      BY <2>1, <2>2, Typed DEF Succeeding
    <3>2. CASE worker[w].phase = "applied"
      BY <3>1, <3>2, EffectsGrow DEF SuccessMade, Succeeding
    <3>3. CASE Send(w) /\ ~UNCHANGED effects
      <4>1. effects' = [effects EXCEPT ![n] = @ + 1]
        BY <3>3 DEF Send
      <4> QED
        BY <3>1, <4>1, Typed
    <3> QED
      BY <1>2, <2>2, <3>2, <3>3, SuccessReport
  <2> QED
    BY <1>1, <2>1, <2>2 DEF SuccessMade
<1>3. CASE UNCHANGED worker
  BY <1>1, <1>3 DEF SuccessMade
<1>4. ASSUME NEW w \in Workers, NEW e \in Events, ClaimDelivery(w, e)
      PROVE  SuccessMade'
  <2>1. CASE ClaimReady(w, e)
    <3>1. /\ worker'[w].phase = "claimed"
          /\ \A v \in Workers : v # w => worker'[v] = worker[v]
      BY <1>4, <2>1, ClaimFacts
    <3> QED
      BY <1>1, <3>1 DEF SuccessMade, Succeeding
  <2>2. CASE ~ClaimReady(w, e)
    BY <1>3, <1>4, <2>2 DEF ClaimDelivery, ClaimSettled, ClaimRunning
  <2> QED
    BY <2>1, <2>2
<1>5. ASSUME NEW n \in Numbers,
             LeaseLapse(n) \/ RecoverExpired(n) \/ OperatorSettleUnknown(n)
      PROVE  UNCHANGED worker
  BY <1>5, RecoveryFacts DEF RecoverExpired, OperatorSettleUnknown
<1>6. CASE \/ Cancel \/ DeadlinePasses \/ ClaimDueDeadline \/ TimerDue
           \/ ClaimDueWakeup \/ Advance \/ AdvanceEnded \/ CoordinatorGivesUp
           \/ UNCHANGED vars
  BY <1>3, <1>6
     DEF Cancel, DeadlinePasses, ClaimDueDeadline, TimerDue, ClaimDueWakeup,
         Advance, AdvanceEnded, CoordinatorGivesUp, vars
<1>7. ASSUME NEW e \in Events,
             \/ Publish(e) \/ FailPublication(e) \/ LoseJob(e)
             \/ SettleOverdueDelivery(e) \/ ReplaceFailedJob(e)
      PROVE  UNCHANGED worker
  BY <1>7, TransportFacts
<1> QED
  BY <1>2, <1>3, <1>4, <1>5, <1>6, <1>7 DEF Next

LEMMA NeverResumesStep ==
    ASSUME Base, [Next]_vars, EffectInv, NeverResumes
    PROVE  NeverResumes'
<1> USE DEF Base
<1>1. CASE UNCHANGED attempt /\ node'.wait = node.wait
  BY <1>1 DEF NeverResumes
<1>2. ASSUME NEW e \in Events,
             \/ Publish(e) \/ FailPublication(e) \/ LoseJob(e)
             \/ SettleOverdueDelivery(e) \/ ReplaceFailedJob(e)
      PROVE  NeverResumes'
  BY <1>1, <1>2, TransportFacts
<1>3. ASSUME NEW w \in Workers, NEW e \in Events, ClaimDelivery(w, e)
      PROVE  NeverResumes'
  <2>1. CASE ClaimReady(w, e)
    BY <1>3, <2>1, ClaimFacts DEF NeverResumes, OthersSame
  <2>2. CASE ~ClaimReady(w, e)
    BY <1>1, <1>3, <2>2 DEF ClaimDelivery, ClaimSettled, ClaimRunning
  <2> QED
    BY <2>1, <2>2
<1>4. CASE CloseRun
  BY <1>4, CloseFacts DEF NeverResumes, SameFields
<1>5. ASSUME NEW w \in Workers, WorkerStep(w) \/ Crash(w) \/ WorkerGivesUp(w)
      PROVE  NeverResumes'
  <2>1. CASE CompleteCommit(w)
    <3> DEFINE n == node.current
               outcome == worker[w].outcome
    <3>1. /\ attempt'[n].resume = attempt[n].resume
          /\ \A m \in Numbers : m # n => attempt'[m] = attempt[m]
          /\ outcome.status = "executor_failure" => node' = node
          /\ outcome.status \notin {"executor_failure", "suspended"} =>
                node'.wait = node.wait
      BY <2>1, CommitFacts DEF OthersSame
    <3>2. outcome.status # "suspended"
      BY DEF EffectInv, NeverSuspends
    <3> QED
      BY <3>1, <3>2 DEF NeverResumes
  <2>2. CASE MarkDispatched(w)
    <3>1. UNCHANGED node
      BY <2>2 DEF MarkDispatched
    <3> QED
      BY <2>2, <3>1, MarkFacts DEF NeverResumes, OthersSame
  <2>3. WorkerGivesUp(w) => CloseRun \/ UNCHANGED <<attempt, node>>
    BY DEF WorkerGivesUp
  <2>4. \/ LoadInputs(w) \/ EndWithoutDispatch(w) \/ MarkRefused(w) \/ Send(w)
        \/ Return(w) \/ HeartbeatAbort(w) \/ CompleteDuplicate(w)
        \/ CompleteRefused(w) \/ Crash(w)
        => UNCHANGED <<attempt, node>>
    BY Zenon
       DEF LoadInputs, EndWithoutDispatch, MarkRefused, Send, Return,
           HeartbeatAbort, CompleteDuplicate, CompleteRefused, Crash, onlyWorker
  <2> QED
    BY <1>1, <1>4, <1>5, <2>1, <2>2, <2>3, <2>4 DEF WorkerStep
<1>6. ASSUME NEW n \in Numbers,
             LeaseLapse(n) \/ RecoverExpired(n) \/ OperatorSettleUnknown(n)
      PROVE  NeverResumes'
  <2>1. LeaseLapse(n) \/ Reclaim(n) \/ SettleUnknown(n)
    BY <1>6 DEF RecoverExpired, OperatorSettleUnknown
  <2>2. /\ node'.wait = node.wait /\ attempt'[n].resume = attempt[n].resume
        /\ OthersSame(n)
    BY <2>1, RecoveryFacts
  <2> QED
    BY <2>2 DEF NeverResumes, OthersSame
<1>7. CASE \/ Cancel \/ DeadlinePasses \/ ClaimDueDeadline \/ AdvanceEnded
           \/ UNCHANGED vars
  BY <1>1, <1>7
     DEF Cancel, DeadlinePasses, ClaimDueDeadline, AdvanceEnded, vars
<1>8. CASE TimerDue \/ ClaimDueWakeup
  BY <1>1, <1>8, TimerFacts
<1>9. CASE Advance
  <2>1. CASE DecideFailure
    <3>1. /\ attempt'[node.current].resume = attempt[node.current].resume
          /\ OthersSame(node.current)
          /\ node'.wait \in {"retry_backoff", node.wait}
      BY <2>1, DecideFacts
    <3> QED
      BY <3>1 DEF NeverResumes, OthersSame
  <2>2. CASE StopWaiting
    BY <2>2, StopFacts DEF NeverResumes
  <2>3. CASE Resume
    <3>1. /\ attempt'[node.current + 1].resume = (node.wait = "node_wait")
          /\ OthersSame(node.current + 1) /\ node'.wait = "none"
      BY <2>3, ResumeFacts
    <3> QED
      BY <3>1 DEF NeverResumes, OthersSame
  <2>4. CASE UNCHANGED <<attempt, node>>
    BY <1>1, <2>4
  <2> QED
    BY <1>9, <2>1, <2>2, <2>3, <2>4 DEF Advance, FinishRun, ConsumeFacts, NoChange
<1>10. CASE CoordinatorGivesUp
  BY <1>4, <1>10 DEF CoordinatorGivesUp
<1> QED
  BY <1>2, <1>3, <1>5, <1>6, <1>7, <1>8, <1>9, <1>10 DEF Next

LEMMA PromiseInvariant ==
    ASSUME Class = "unsafe"
    PROVE  Spec => []PromiseInv
<1>1. Base /\ Base' /\ EffectInv /\ PromiseInv /\ [Next]_vars => PromiseInv'
  BY PermissionKeptStep, SuccessMadeStep, NeverResumesStep DEF PromiseInv
<1> QED
  BY <1>1, PromiseInit, BaseInvariant, EffectInvariant, PTL DEF Spec

(* The step's caller sees one of three things: the effect being made, the  *)
(* step being settled, perhaps with its run, or the run ending after it.   *)
Shown == IF node.status \in Settled THEN node.status ELSE "open"
Made == \E n \in Numbers : effects[n] > 0

LEMMA ShownStep ==
    ASSUME Base, Base', [Next]_vars
    PROVE  /\ Shown # "open" => Shown' = Shown
           /\ Shown' = "open" => UNCHANGED run
           /\ run' # run =>
                 /\ run = "active" /\ Shown' \in Settled /\ run' \in Settled
                 /\ (run' = "outcome_unknown") <=> (Shown' = "outcome_unknown")
           /\ Shown \in Settled \union {"open"}
           /\ Shown' \in Settled \union {"open"}
<1>1. NodeMoves
  BY NodeStep
<1>2. "open" \notin Settled
  BY DEF Settled
<1>3. /\ run # "active" => node.status \in Settled
      /\ run' # "active" => node'.status \in Settled
  BY DEF Base, Structure, EndedSettled
<1>4. run' # run => run' \in Settled /\ run' # "active"
  BY <1>1 DEF NodeMoves, Settled
<1>5. Shown # "open" => Shown' = Shown
  BY <1>1, <1>2 DEF Shown, NodeMoves
<1>6. run' # run => Shown' = node'.status /\ Shown' \in Settled
  BY <1>3, <1>4 DEF Shown
<1> QED
  BY <1>1, <1>2, <1>4, <1>5, <1>6 DEF Shown, NodeMoves

LEMMA StepSettles ==
    ASSUME Base, Base', [Next]_vars, UNCHANGED effects,
           EffectInv', HonestInv', PromiseInv
    PROVE  /\ Made' <=> Made
           /\ Shown = "open" /\ Shown' = "succeeded" => Made
           /\ Shown' \in Stopped => ~Made
<1> USE DEF Base
<1>1. Made' <=> Made
  BY DEF Made
<1>2. Shown = "open" /\ Shown' = "succeeded" => Made
  <2> SUFFICES ASSUME Shown = "open", Shown' = "succeeded" PROVE Made
    OBVIOUS
  <2>1. node.status \notin Settled /\ node'.status = "succeeded"
    BY DEF Shown, Settled
  <2>2. PICK w \in Workers : /\ worker[w].phase = "reporting"
                             /\ worker[w].outcome.status = "succeeded"
    BY <2>1, NodeStep DEF NodeMoves, Settled
  <2>3. worker[w].number \in Numbers /\ effects[worker[w].number] > 0
    BY <2>2, Typed DEF PromiseInv, SuccessMade, Succeeding
  <2> QED
    BY <2>3 DEF Made
<1>3. Shown' \in Stopped => ~Made
  <2>1. TruthfulStop'
    BY HonestImpliesTruth, PTL
  <2> SUFFICES ASSUME Shown' \in Stopped PROVE \A n \in Numbers : effects[n] = 0
    BY DEF Made
  <2>2. node'.status \in Stopped
    BY DEF Shown, Stopped
  <2> QED
    BY <2>1, <2>2 DEF TruthfulStop, Stopped
<1> QED
  BY <1>1, <1>2, <1>3

(* A send that reaches the provider is the first, and comes while the step *)
(* is open or after it was written off.                                    *)
LEMMA EffectMade ==
    ASSUME Class = "unsafe", Base, EffectInv, PromiseInv, NEW w \in Workers,
           Send(w), effects' = [effects EXCEPT ![worker[w].number] = @ + 1]
    PROVE  /\ ~Made /\ Made' /\ UNCHANGED <<node, run>>
           /\ Shown \in {"open", "outcome_unknown"}
<1> USE DEF Base
<1> DEFINE n == worker[w].number
<1>1. /\ worker[w].phase = "marked" /\ n \in Numbers
      /\ UNCHANGED <<node, run>>
  BY Typed DEF Send, runVars
<1>2. n = node.current /\ effects[n] = 0
  <2>1. ~Clean(n) /\ n <= node.current
    BY <1>1 DEF Clean, EffectInv, Fenced
  <2>2. ~(n < node.current)
    BY <1>1, <2>1 DEF EffectInv, PastClean
  <2>3. effects[n] = 0
    BY <1>1 DEF EffectInv, OnePermission
  <2>4. n \in Nat /\ node.current \in Nat
    BY <1>1, Typed
  <2> HIDE DEF n
  <2> QED
    BY <2>1, <2>2, <2>3, <2>4
<1>3. ~Made
  <2> SUFFICES ASSUME NEW m \in Numbers PROVE effects[m] = 0
    BY DEF Made
  <2>1. m < node.current \/ m = n \/ m > node.current
    BY <1>2, Typed
  <2> QED
    BY <1>2, <2>1 DEF EffectInv, PastClean, FutureUntouched, Clean
<1>4. Made'
  <2>1. effects'[n] = effects[n] + 1
    BY <1>1, Typed
  <2> QED
    BY <1>1, <1>2, <2>1 DEF Made
<1>5. Shown \in {"open", "outcome_unknown"}
  <2>1. Holding(w) => node.status \notin Settled
    BY <1>1, <1>2 DEF Holding, Structure, NodeFollows, Settled
  <2> QED
    BY <1>1, <2>1 DEF PromiseInv, PermissionKept, Shown
<1> QED
  BY <1>1, <1>3, <1>4, <1>5

LEMMA PromiseStep ==
    ASSUME Class = "unsafe", Base, Base', EffectInv, EffectInv', HonestInv',
           PromiseInv, [Next]_vars
    PROVE  [Promise!Next]_(Promise!vars)
<1>1. CASE \E w \in Workers : Send(w) /\
              effects' = [effects EXCEPT ![worker[w].number] = @ + 1]
  <2>1. /\ ~Made /\ Made' /\ UNCHANGED <<node, run>>
        /\ Shown \in {"open", "outcome_unknown"}
    BY <1>1, EffectMade
  <2>2. Promise!Make
    BY <2>1 DEF Promise!Make, Made, Shown
  <2> QED
    BY <2>2 DEF Promise!Next
<1>2. CASE UNCHANGED effects
  <2>1. /\ Made' <=> Made
        /\ Shown = "open" /\ Shown' = "succeeded" => Made
        /\ Shown' \in Stopped => ~Made
    BY <1>2, StepSettles
  <2>2. UNCHANGED (\E n \in Numbers : effects[n] > 0)
    BY <1>2
  <2>3. Settled = Promise!Outcomes
    BY DEF Settled, Promise!Outcomes
  <2>4. CASE Shown' = Shown /\ UNCHANGED run
    BY <2>2, <2>4 DEF Promise!vars, Shown
  <2>5. CASE Shown' = Shown /\ run' # run
    <3>1. Promise!Finish
      BY <2>3, <2>5, ShownStep DEF Promise!Finish, Shown
    <3>2. Promise!End
      BY <2>2, <2>5, <3>1 DEF Promise!End, Shown
    <3> QED
      BY <3>2 DEF Promise!Next
  <2>6. CASE Shown' # Shown
    <3>1. Shown = "open" /\ Shown' \in Settled
      BY <2>6, ShownStep
    <3>2. Promise!Settle
      BY <2>1, <2>2, <2>3, <3>1 DEF Promise!Settle, Shown, Made, Stopped
    <3>3. UNCHANGED run \/ Promise!Finish
      BY <2>3, ShownStep DEF Promise!Finish, Shown
    <3> QED
      BY <3>2, <3>3 DEF Promise!Next
  <2> QED
    BY <2>4, <2>5, <2>6
<1> QED
  BY <1>1, <1>2, EffectsStep

(* PromiseKept: a step whose side effect may not be repeated implements    *)
(* StepPromise.  Whatever its workers, leases, deliveries and recoveries   *)
(* do, its caller sees the effect made once or not at all, a success only  *)
(* after it, a stop only without it, and a run that ends as its step did.  *)
THEOREM UnsafePromiseKept ==
    ASSUME Class = "unsafe"
    PROVE  Spec => PromiseKept
<1>1. Init => Promise!Init
  <2> SUFFICES ASSUME Init PROVE Promise!Init
    OBVIOUS
  <2>1. node.status = "ready" /\ run = "active"
        /\ \A n \in Numbers : effects[n] = 0
    BY DEF Init
  <2>2. (\E n \in Numbers : effects[n] > 0) = FALSE
    BY <2>1
  <2> QED
    BY <2>1, <2>2 DEF Promise!Init, Settled
<1>2. Base /\ Base' /\ EffectInv /\ EffectInv' /\ HonestInv' /\ PromiseInv
         /\ [Next]_vars => [Promise!Next]_(Promise!vars)
  BY PromiseStep
<1> QED
  BY <1>1, <1>2, BaseInvariant, EffectInvariant, HonestInvariant,
     PromiseInvariant, PTL DEF Spec, PromiseKept, Promise!Spec

=============================================================================
