------------------------- MODULE PendingTaskProofs -------------------------
(***************************************************************************)
(* Proofs about PendingTask: its types, that one answer counts and is told *)
(* truly, and that no settled task is left without an advance on its way,  *)
(* for any number of responders and of jobs.                               *)
(***************************************************************************)
EXTENDS PendingTask, TLAPS

\* The task follows its step: it is bound when the step waits, prepared only
\* before, and pending only while; its expiry can pass only once it is bound.
\* A run failed as a whole has ended.
StepInv ==
    /\ step \in {"unreached", "declared"} => ~task.bound
    /\ step = "waiting" =>
          task.bound /\ task.status \in {"pending", "answered", "expired", "refused"}
    /\ step = "declared" /\ task.kind = "callback" =>
          task.status \in {"prepared", "answered"}
    /\ task.status = "pending" => step = "waiting"
    /\ task.status = "prepared" =>
          task.kind = "callback" /\ ~task.bound /\ step \in {"unreached", "declared"}
    /\ task.kind = "human" /\ ~task.bound => task.status = "none"
    /\ task.due => task.bound
    /\ scanned => task.due
    /\ run.failed => ~Active

\* An answer stands in the task that has it; a person's has its receipt, and
\* what was answered before it was bound is a callback.
AnswerInv ==
    /\ task.status = "answered" <=> task.answer # NoAnswer
    /\ task.status = "answered" /\ ~task.bound => task.early
    /\ task.early => task.kind = "callback" /\ task.status \in {"answered", "canceled"}
    /\ task.kind = "human" => receipts = {r \in Responders : task.answer = r}

TaskInv == TaskTypeOK /\ StepInv /\ AnswerInv /\ AnswerCounts /\ SettledIsWoken

-----------------------------------------------------------------------------

LEMMA InvHolds == TaskInit => TaskInv
<1>1. TaskInit => TaskTypeOK
    <2> SUFFICES ASSUME TaskInit PROVE TaskTypeOK
        OBVIOUS
    <2>1. run \in RunRecord BY DEF TaskInit, RunRecord
    <2>2. \A k \in {"human", "callback"}, e \in {"continue", "fail"} :
              NewTask(k, e) \in TaskRecord
        BY DEF NewTask, TaskRecord
    <2>3. task \in TaskRecord BY <2>2 DEF TaskInit
    <2>4. heard \in [Responders -> {"nothing", "accepted", "refused"}]
          /\ receipts \in SUBSET Responders
        BY DEF TaskInit
    <2>5. step \in OpenSteps /\ jobs \in 0..MaxJobs
        BY TaskAssumption DEF TaskInit, OpenSteps
    <2>6. consumed \in BOOLEAN /\ scanned \in BOOLEAN
        BY DEF TaskInit
    <2> QED BY <2>1, <2>3, <2>4, <2>5, <2>6 DEF TaskTypeOK
<1>2. TaskInit => StepInv
    BY TaskAssumption DEF TaskInit, NewTask, StepInv
<1>3. TaskInit => AnswerInv
    BY TaskAssumption DEF TaskInit, NewTask, AnswerInv
<1>4. TaskInit => AnswerCounts
    BY TaskAssumption DEF TaskInit, NewTask, AnswerCounts, Dropped
<1>5. TaskInit => SettledIsWoken
    BY TaskAssumption DEF TaskInit, NewTask, SettledIsWoken
<1> QED BY <1>1, <1>2, <1>3, <1>4, <1>5 DEF TaskInv

LEMMA RespondKeeps ==
    ASSUME TaskInv, NEW r \in Responders, Respond(r) PROVE TaskInv'
<1>1. TaskTypeOK'
    <2>0. task \in TaskRecord
        BY DEF TaskInv, TaskTypeOK
    <2>1. task' \in TaskRecord
        <3>1. CASE Settle(r)
            BY <2>0, <3>1 DEF TaskRecord, Settle
        <3> QED BY <2>0, <3>1 DEF Respond
    <2>2. heard' \in [Responders -> {"nothing", "accepted", "refused"}]
        BY DEF TaskInv, TaskTypeOK, Respond, Tell
    <2>3. receipts' \in SUBSET Responders
        BY DEF TaskInv, TaskTypeOK, Respond
    <2>4. jobs' \in 0..MaxJobs
        BY TaskAssumption DEF TaskInv, TaskTypeOK, Respond, Wake
    <2> QED BY <2>1, <2>2, <2>3, <2>4 DEF TaskInv, TaskTypeOK, Respond
<1>2. StepInv'
    <2>1. CASE UNCHANGED task
        BY <2>1 DEF TaskInv, StepInv, Active, Respond
    <2>2. CASE ~Blocked /\ Settle(r)
        BY <2>2 DEF TaskInv, TaskTypeOK, TaskRecord, StepInv, Active, Respond, Blocked,
                    Settle
    <2> QED BY <2>1, <2>2 DEF Respond
<1>3. AnswerInv'
    <2>1. CASE UNCHANGED <<task, receipts>>
        BY <2>1 DEF TaskInv, AnswerInv
    <2>2. CASE ~Blocked /\ Settle(r) /\ receipts' = receipts \cup {r}
        <3>1. /\ task'.status = "answered" /\ task'.answer = r
              /\ task'.early = ~task.bound /\ task'.bound = task.bound
              /\ task'.kind = "human"
            BY <2>2 DEF TaskInv, TaskTypeOK, TaskRecord, Respond, Settle
        <3>2. receipts = {}
            BY <2>2, TaskAssumption DEF TaskInv, AnswerInv, Respond, Blocked
        <3>3. task.bound
            BY DEF Respond
        <3> QED BY <2>2, <3>1, <3>2, <3>3, TaskAssumption DEF AnswerInv
    <2> QED BY <2>1, <2>2 DEF Respond
<1>4. AnswerCounts'
    <2>1. run' = run /\ step' = step /\ heard[r] = "nothing"
        BY DEF Respond
    <2>2. \A q \in Responders : heard'[q] = heard[q] \/ q = r
        BY DEF TaskInv, TaskTypeOK, Respond, Tell
    <2>3. CASE UNCHANGED <<task, receipts>>
        <3>1. heard'[r] = "accepted" => task.answer = r
            BY <2>1, <2>3 DEF TaskInv, TaskTypeOK, TaskRecord, AnswerInv, Respond, Tell, Settle, Blocked
        <3>2. heard'[r] = "refused" /\ task.kind = "human" => task.answer # r
            BY <2>1, <2>3 DEF TaskInv, TaskTypeOK, TaskRecord, AnswerInv, Respond, Tell, Settle, Blocked
        <3> QED BY <2>1, <2>2, <2>3, <3>1, <3>2 DEF TaskInv, AnswerCounts, Dropped
    <2>4. CASE ~Blocked /\ Settle(r) /\ receipts' = receipts \cup {r}
        <3>1. /\ task'.status = "answered" /\ task'.answer = r
              /\ task'.early = ~task.bound /\ task'.kind = "human"
            BY <2>4 DEF TaskInv, TaskTypeOK, TaskRecord, Respond, Settle
        <3>2. task.answer = NoAnswer /\ ~Dropped
            BY <2>4 DEF TaskInv, TaskTypeOK, RunRecord, TaskRecord, StepInv, AnswerInv,
                        Dropped, Respond, Blocked, RunClosed, Active
        <3>3. step = "waiting" \/ (task'.early /\ step \in {"unreached", "declared"})
            BY <2>4, <3>1 DEF TaskInv, TaskTypeOK, TaskRecord, StepInv, Respond, Blocked
        <3>4. heard'[r] # "refused" \/ task'.kind # "human"
            BY <2>1, <2>4 DEF TaskInv, TaskTypeOK, TaskRecord, AnswerInv, Respond, Tell, Blocked
        <3>5. \A q \in Responders : heard[q] # "accepted"
            BY <3>2, TaskAssumption DEF TaskInv, AnswerCounts
        <3> QED BY <2>1, <2>2, <3>1, <3>3, <3>4, <3>5 DEF TaskInv, AnswerCounts
    <2> QED BY <2>3, <2>4 DEF Respond
<1>5. SettledIsWoken'
    <2>1. CASE UNCHANGED <<task, jobs>>
        BY <2>1 DEF TaskInv, SettledIsWoken, Active, Respond
    <2>2. CASE Wake
        <3>1. jobs' > 0
            BY <2>2, TaskAssumption DEF TaskInv, TaskTypeOK, Wake
        <3> QED BY <3>1 DEF SettledIsWoken
    <2> QED BY <2>1, <2>2 DEF Respond
<1> QED BY <1>1, <1>2, <1>3, <1>4, <1>5 DEF TaskInv

LEMMA RespondCallbackKeeps ==
    ASSUME TaskInv, NEW r \in Responders, RespondCallback(r) PROVE TaskInv'
<1>1. TaskTypeOK'
    <2>1. task' \in TaskRecord
        BY DEF TaskInv, TaskTypeOK, TaskRecord, RespondCallback, Settle
    <2>2. heard' \in [Responders -> {"nothing", "accepted", "refused"}]
        BY DEF TaskInv, TaskTypeOK, RespondCallback, Tell
    <2>3. jobs' \in 0..MaxJobs
        BY TaskAssumption DEF TaskInv, TaskTypeOK, RespondCallback, Wake
    <2> QED BY <2>1, <2>2, <2>3 DEF TaskInv, TaskTypeOK, RespondCallback
<1>2. StepInv'
    <2>1. CASE UNCHANGED task
        BY <2>1 DEF TaskInv, StepInv, Active, RespondCallback
    <2>2. CASE ~CallbackBlocked /\ Settle(r)
        BY <2>2 DEF TaskInv, TaskTypeOK, TaskRecord, StepInv, Active, RespondCallback,
                    CallbackBlocked, Settle
    <2> QED BY <2>1, <2>2 DEF RespondCallback
<1>3. AnswerInv'
    <2>1. CASE UNCHANGED <<task, receipts>>
        BY <2>1 DEF TaskInv, AnswerInv
    <2>2. CASE ~CallbackBlocked /\ Settle(r) /\ UNCHANGED receipts
        <3>1. /\ task'.status = "answered" /\ task'.answer = r
              /\ task'.early = ~task.bound /\ task'.bound = task.bound
              /\ task'.kind = "callback"
            BY <2>2 DEF TaskInv, TaskTypeOK, TaskRecord, RespondCallback, Settle
        <3> QED BY <2>2, <3>1, TaskAssumption DEF AnswerInv
    <2> QED BY <2>1, <2>2 DEF RespondCallback
<1>4. AnswerCounts'
    <2>1. run' = run /\ step' = step /\ heard[r] = "nothing"
        BY DEF RespondCallback
    <2>2. \A q \in Responders : heard'[q] = heard[q] \/ q = r
        BY DEF TaskInv, TaskTypeOK, RespondCallback, Tell
    <2>3. CASE UNCHANGED <<task, receipts>>
        <3>1. heard'[r] = "accepted" => task.answer = r
            BY <2>1, <2>3 DEF TaskInv, TaskTypeOK, TaskRecord, AnswerInv, RespondCallback, Tell, Settle, CallbackBlocked
        <3>2. heard'[r] = "refused" /\ task.kind = "human" => task.answer # r
            BY <2>1, <2>3 DEF TaskInv, TaskTypeOK, TaskRecord, AnswerInv, RespondCallback, Tell, Settle, CallbackBlocked
        <3> QED BY <2>1, <2>2, <2>3, <3>1, <3>2 DEF TaskInv, AnswerCounts, Dropped
    <2>4. CASE ~CallbackBlocked /\ Settle(r) /\ UNCHANGED receipts
        <3>1. /\ task'.status = "answered" /\ task'.answer = r
              /\ task'.early = ~task.bound /\ task'.kind = "callback"
            BY <2>4 DEF TaskInv, TaskTypeOK, TaskRecord, RespondCallback, Settle
        <3>2. task.answer = NoAnswer /\ ~Dropped
            BY <2>4 DEF TaskInv, TaskTypeOK, RunRecord, TaskRecord, StepInv, AnswerInv,
                        Dropped, RespondCallback, CallbackBlocked, RunClosed, Active
        <3>3. step = "waiting" \/ (task'.early /\ step \in {"unreached", "declared"})
            BY <2>4, <3>1 DEF TaskInv, TaskTypeOK, TaskRecord, StepInv, RespondCallback, CallbackBlocked
        <3>4. heard'[r] # "refused" \/ task'.kind # "human"
            BY <2>1, <2>4 DEF TaskInv, TaskTypeOK, TaskRecord, AnswerInv, RespondCallback, Tell, CallbackBlocked
        <3>5. \A q \in Responders : heard[q] # "accepted"
            BY <3>2, TaskAssumption DEF TaskInv, AnswerCounts
        <3> QED BY <2>1, <2>2, <3>1, <3>3, <3>4, <3>5 DEF TaskInv, AnswerCounts
    <2> QED BY <2>3, <2>4 DEF RespondCallback
<1>5. SettledIsWoken'
    BY TaskAssumption
       DEF TaskInv, TaskTypeOK, RunRecord, TaskRecord, OpenSteps, StepInv, SettledIsWoken, Active,
           RespondCallback, Wake, RunClosed, CallbackBlocked, Settle, Tell
<1> QED BY <1>1, <1>2, <1>3, <1>4, <1>5 DEF TaskInv

LEMMA PrepareCallbackKeeps ==
    ASSUME TaskInv, PrepareCallback PROVE TaskInv'
BY TaskAssumption
   DEF TaskInv, TaskTypeOK, RunRecord, TaskRecord, OpenSteps, StepInv, AnswerInv,
       AnswerCounts, SettledIsWoken, Dropped, Active, Wake, PrepareCallback

LEMMA DeclareKeeps ==
    ASSUME TaskInv, Declare PROVE TaskInv'
BY TaskAssumption
   DEF TaskInv, TaskTypeOK, RunRecord, TaskRecord, OpenSteps, StepInv, AnswerInv,
       AnswerCounts, SettledIsWoken, Dropped, Active, Wake, Declare

LEMMA OtherWorkKeeps ==
    ASSUME TaskInv, OtherWork PROVE TaskInv'
BY TaskAssumption
   DEF TaskInv, TaskTypeOK, RunRecord, TaskRecord, OpenSteps, StepInv, AnswerInv,
       AnswerCounts, SettledIsWoken, Dropped, Active, Wake, OtherWork

LEMMA CancelKeeps ==
    ASSUME TaskInv, Cancel PROVE TaskInv'
<1>1. TaskTypeOK'
    <2>1. run' \in RunRecord BY DEF TaskInv, TaskTypeOK, RunRecord, Cancel
    <2>2. jobs' \in 0..MaxJobs BY TaskAssumption DEF TaskInv, TaskTypeOK, Cancel, Wake
    <2> QED BY <2>1, <2>2 DEF TaskInv, TaskTypeOK, Cancel
<1>2. StepInv'
    BY TaskAssumption
       DEF TaskInv, TaskTypeOK, RunRecord, TaskRecord, OpenSteps, StepInv, Active,
           Cancel, Wake
<1>3. AnswerInv'
    BY TaskAssumption
       DEF TaskInv, TaskTypeOK, RunRecord, TaskRecord, OpenSteps, StepInv, AnswerInv, Active,
           Cancel, Wake
<1>4. AnswerCounts'
    BY TaskAssumption
       DEF TaskInv, TaskTypeOK, RunRecord, TaskRecord, OpenSteps, StepInv, AnswerInv, AnswerCounts, Dropped, Active,
           Cancel, Wake
<1>5. SettledIsWoken'
    BY TaskAssumption
       DEF TaskInv, TaskTypeOK, RunRecord, TaskRecord, OpenSteps, StepInv, SettledIsWoken, Active,
           Cancel, Wake
<1> QED BY <1>1, <1>2, <1>3, <1>4, <1>5 DEF TaskInv

LEMMA DeadlinePassesKeeps ==
    ASSUME TaskInv, DeadlinePasses PROVE TaskInv'
<1>1. TaskTypeOK'
    <2>1. run' \in RunRecord BY DEF TaskInv, TaskTypeOK, RunRecord, DeadlinePasses
    <2>2. jobs' \in 0..MaxJobs BY TaskAssumption DEF TaskInv, TaskTypeOK, DeadlinePasses, Wake
    <2> QED BY <2>1, <2>2 DEF TaskInv, TaskTypeOK, DeadlinePasses
<1>2. StepInv'
    BY TaskAssumption
       DEF TaskInv, TaskTypeOK, RunRecord, TaskRecord, OpenSteps, StepInv, Active,
           DeadlinePasses, Wake
<1>3. AnswerInv'
    BY TaskAssumption
       DEF TaskInv, TaskTypeOK, RunRecord, TaskRecord, OpenSteps, StepInv, AnswerInv, Active,
           DeadlinePasses, Wake
<1>4. AnswerCounts'
    BY TaskAssumption
       DEF TaskInv, TaskTypeOK, RunRecord, TaskRecord, OpenSteps, StepInv, AnswerInv, AnswerCounts, Dropped, Active,
           DeadlinePasses, Wake
<1>5. SettledIsWoken'
    BY TaskAssumption
       DEF TaskInv, TaskTypeOK, RunRecord, TaskRecord, OpenSteps, StepInv, SettledIsWoken, Active,
           DeadlinePasses, Wake
<1> QED BY <1>1, <1>2, <1>3, <1>4, <1>5 DEF TaskInv

LEMMA ExpiryPassesKeeps ==
    ASSUME TaskInv, ExpiryPasses PROVE TaskInv'
<1>1. TaskTypeOK'
    BY TaskAssumption
       DEF TaskInv, TaskTypeOK, RunRecord, TaskRecord, OpenSteps,
           ExpiryPasses
<1>2. StepInv'
    BY TaskAssumption
       DEF TaskInv, TaskTypeOK, RunRecord, TaskRecord, OpenSteps, StepInv, Active,
           ExpiryPasses
<1>3. AnswerInv'
    BY TaskAssumption
       DEF TaskInv, TaskTypeOK, RunRecord, TaskRecord, OpenSteps, StepInv, AnswerInv, Active,
           ExpiryPasses
<1>4. AnswerCounts'
    BY TaskAssumption
       DEF TaskInv, TaskTypeOK, RunRecord, TaskRecord, OpenSteps, StepInv, AnswerInv, AnswerCounts, Dropped, Active,
           ExpiryPasses
<1>5. SettledIsWoken'
    BY TaskAssumption
       DEF TaskInv, TaskTypeOK, RunRecord, TaskRecord, OpenSteps, StepInv, SettledIsWoken, Active,
           ExpiryPasses
<1> QED BY <1>1, <1>2, <1>3, <1>4, <1>5 DEF TaskInv

LEMMA DueScanKeeps ==
    ASSUME TaskInv, DueScan PROVE TaskInv'
BY TaskAssumption
   DEF TaskInv, TaskTypeOK, RunRecord, TaskRecord, OpenSteps, StepInv, AnswerInv,
       AnswerCounts, SettledIsWoken, Dropped, Active, Wake, DueScan

\* What closing does to a task, whether its step has settled or is dropped.
LEMMA ClosedTask ==
    ASSUME NEW t \in TaskRecord, NEW next, NEW ended \in BOOLEAN
    PROVE  LET c == Close(t, next, ended)
           IN  /\ c \in TaskRecord /\ c.bound = t.bound
               /\ c.kind = t.kind /\ c.early = t.early /\ c.due = t.due
               /\ c.answer = t.answer
               /\ \/ c.status = t.status
                  \/ t.status \in {"pending", "prepared"} /\ c.status = "canceled"
               /\ \/ t.bound /\ next \notin OpenSteps
                  \/ /\ ~t.bound /\ t.kind = "callback" /\ t.status # "none"
                     /\ ended \/ next = "skipped"
                  => c.status \notin {"pending", "prepared"}
               /\ t.bound /\ next \in OpenSteps => c = t
<1> DEFINE closes == \/ t.bound /\ next \notin OpenSteps
                     \/ /\ ~t.bound /\ t.kind = "callback" /\ t.status # "none"
                        /\ ended \/ next = "skipped"
           c == Close(t, next, ended)
<1>1. CASE closes
    <2>1. c = [t EXCEPT !.closed = TRUE,
                        !.status = IF t.status \in {"pending", "prepared"}
                                   THEN "canceled" ELSE t.status]
        BY <1>1 DEF Close
    <2>2. c \in TaskRecord
        BY <2>1 DEF TaskRecord
    <2>3. /\ c.bound = t.bound /\ c.kind = t.kind /\ c.early = t.early
          /\ c.due = t.due /\ c.answer = t.answer
        BY <2>1 DEF TaskRecord
    <2>4. c.status = IF t.status \in {"pending", "prepared"} THEN "canceled" ELSE t.status
        BY <2>1 DEF TaskRecord
    <2> QED BY <1>1, <2>2, <2>3, <2>4
<1>2. CASE ~closes
    <2>1. c = t
        BY <1>2 DEF Close
    <2> QED BY <1>2, <2>1
<1> QED BY <1>1, <1>2

LEMMA AdvanceKeeps ==
    ASSUME TaskInv, Advance PROVE TaskInv'
<1>a. TaskTypeOK /\ StepInv /\ AnswerInv /\ AnswerCounts /\ SettledIsWoken
    BY DEF TaskInv
<1>b. run \in RunRecord /\ task \in TaskRecord
    BY <1>a DEF TaskTypeOK
<1>1. PICK next \in {NextStep(Expired)} \cup (IF step = "unreached"
                                              THEN {"skipped"} ELSE {}),
           ended \in BOOLEAN, room \in BOOLEAN :
          LET t == IF step = "declared" THEN Bind(ended, room) ELSE Expired
          IN  /\ ended => next \notin OpenSteps
              /\ task' = Close(t, next, ended)
              /\ step' = next
              /\ run' = [run EXCEPT !.status = IF ended THEN "ended" ELSE @]
              /\ jobs' = IF step = "declared" /\ SettledAtBind(t)
                         THEN jobs ELSE jobs - 1
    BY DEF Advance
<1> DEFINE t == IF step = "declared" THEN Bind(ended, room) ELSE Expired
<1>2. /\ jobs > 0 /\ run.status = "active"
      /\ UNCHANGED <<scanned, receipts, heard>> /\ consumed' = TRUE
    BY DEF Advance, Active
\* the run
<1>3. /\ run' \in RunRecord
      /\ run'.cancel = run.cancel /\ run'.deadline = run.deadline
      /\ run'.failed = run.failed
      /\ run'.status = IF ended THEN "ended" ELSE "active"
    BY <1>1, <1>2, <1>b DEF RunRecord
<1>4. ~run.failed
    BY <1>2, <1>a DEF StepInv, Active
\* the task before it is closed: bound, expired or as it was
<1>5. ASSUME step = "declared"
      PROVE  /\ t \in TaskRecord /\ t.bound
             /\ t.kind = task.kind /\ t.early = task.early /\ ~t.due
             /\ ended => t.status = "canceled" /\ t.answer = NoAnswer
             /\ ~ended => /\ t.answer = task.answer
                          /\ \/ t.status = "pending" /\ task.status # "answered"
                             \/ t.status = "refused" /\ task.status = "none"
                             \/ t.status = "answered" /\ task.status = "answered"
    <2>1. CASE task.kind = "human"
        <3>1. task.status = "none" /\ task.answer = NoAnswer
            BY <1>5, <1>a, <1>b, <2>1 DEF StepInv, AnswerInv, TaskRecord
        <3> QED BY <1>5, <1>a, <1>b, <2>1, <3>1
                DEF StepInv, TaskRecord, Bind, BindHuman
    <2>2. CASE task.kind = "callback"
        BY <1>5, <1>a, <1>b, <2>2 DEF StepInv, TaskRecord, Bind, BindCallback
    <2> QED BY <2>1, <2>2, <1>b DEF TaskRecord
<1>6. ASSUME step # "declared"
      PROVE  /\ t \in TaskRecord /\ t.bound = task.bound
             /\ t.kind = task.kind /\ t.early = task.early /\ t.due = task.due
             /\ t.answer = task.answer
             /\ \/ t.status = task.status
                \/ /\ t.status = "expired" /\ task.status = "pending"
             /\ task.bound /\ task.due /\ ~run.cancel => t.status # "pending"
    BY <1>6, <1>2, <1>b DEF Expired, Active, TaskRecord
<1>7. t \in TaskRecord
    BY <1>5, <1>6
\* the task as it is left
<1>8. /\ task' \in TaskRecord /\ task'.bound = t.bound
      /\ task'.kind = t.kind /\ task'.early = t.early /\ task'.due = t.due
      /\ task'.answer = t.answer
      /\ \/ task'.status = t.status
         \/ t.status \in {"pending", "prepared"} /\ task'.status = "canceled"
      /\ t.bound /\ next \notin OpenSteps => task'.status \notin {"pending", "prepared"}
      /\ ~t.bound /\ t.kind = "callback" /\ t.status # "none"
         /\ (ended \/ next = "skipped") => task'.status \notin {"pending", "prepared"}
      /\ next = "waiting" => task'.status = t.status
    <2>1. task' = Close(t, next, ended)
        BY <1>1, Zenon
    <2>2. next = "waiting" => t.bound
        BY <1>1, <1>5, <1>6, <1>a DEF StepInv, NextStep, OpenSteps, Outcome, Stopped
    <2> HIDE DEF t
    <2> QED BY <1>7, <2>1, <2>2, ClosedTask DEF OpenSteps
<1> HIDE DEF t
\* the step
<1>9. /\ step = "waiting" /\ Expired.status # "pending" => next = Outcome(Expired)
      /\ step = "waiting" /\ Expired.status = "pending" =>
            next = IF run.cancel \/ run.deadline THEN Stopped ELSE "waiting"
      /\ step = "declared" =>
            next = IF run.cancel \/ run.deadline THEN Stopped ELSE "waiting"
      /\ step = "unreached" => next \in {"unreached", "skipped"}
      /\ step \notin {"unreached", "declared", "waiting"} => next = step
    BY <1>1 DEF NextStep
<1>10. next = "waiting" => /\ ~run.cancel /\ ~ended /\ t.bound
                           /\ \/ step = "waiting" /\ t.status = "pending" /\ ~t.due
                              \/ step = "declared"
    <2>1. "waiting" # Stopped /\ "waiting" \in OpenSteps
        BY DEF Stopped, OpenSteps
    <2>2. CASE step = "declared"
        BY <2>1, <2>2, <1>1, <1>5, <1>9
    <2>3. CASE step = "waiting"
        <3>1. t = Expired /\ task.bound
            BY <2>3, <1>a DEF t, StepInv
        <3>2. t.status \in {"pending", "answered", "expired", "refused"}
            BY <2>3, <1>6, <1>a DEF StepInv
        <3>3. t.status # "pending" => Outcome(t) # "waiting"
            BY <3>2 DEF Outcome
        <3> QED BY <2>1, <2>3, <3>1, <3>3, <1>1, <1>6, <1>9
    <2> QED BY <2>2, <2>3, <1>9
<1>11. next # "declared"
    <2>1. "declared" # Stopped
        BY DEF Stopped
    <2>2. step = "waiting" /\ t.status # "pending" => Outcome(t) # "declared"
        BY <1>6, <1>a DEF StepInv, Outcome
    <2>3. step = "waiting" => t = Expired
        BY DEF t
    <2> QED BY <2>1, <2>2, <2>3, <1>9
<1>12. next = "unreached" => step = "unreached"
    <2>1. "unreached" # Stopped
        BY DEF Stopped
    <2>2. step = "waiting" /\ t.status # "pending" => Outcome(t) # "unreached"
        BY <1>6, <1>a DEF StepInv, Outcome
    <2>3. step = "waiting" => t = Expired
        BY DEF t
    <2> QED BY <2>1, <2>2, <2>3, <1>9
<1>13. /\ t.status = "pending" => t.bound /\ step \in {"waiting", "declared"}
       /\ t.status = "prepared" => task.status = "prepared" /\ step = "unreached"
                                   /\ ~t.bound /\ t.kind = "callback"
    BY <1>5, <1>6, <1>a DEF StepInv
<1>14. TaskTypeOK'
    <2>1. step' \in OpenSteps \cup {"skipped", "answered", "continued", "failed",
                                     "canceled", "timed_out"}
        <3>1. Stopped \in {"canceled", "timed_out"}
            BY DEF Stopped
        <3>2. step = "waiting" /\ t.status # "pending" =>
                  Outcome(t) \in {"answered", "continued", "failed", "canceled"}
            BY <1>6, <1>a DEF StepInv, Outcome
        <3>3. step = "waiting" => t = Expired
            BY DEF t
        <3> QED BY <3>1, <3>2, <3>3, <1>1, <1>9, <1>a DEF TaskTypeOK, OpenSteps
    <2>2. jobs' \in 0..MaxJobs
        BY <1>1, <1>2, <1>a, TaskAssumption DEF TaskTypeOK
    <2> QED BY <2>1, <2>2, <1>2, <1>3, <1>8, <1>a DEF TaskTypeOK
<1>15. StepInv'
    <2>1. step' = next
        BY <1>1
    <2>2. next \in {"unreached", "declared"} => ~task'.bound
        BY <1>5, <1>6, <1>8, <1>11, <1>12, <1>a DEF StepInv
    <2>3. next = "waiting" =>
              /\ task'.bound
              /\ task'.status \in {"pending", "answered", "expired", "refused"}
        BY <1>5, <1>8, <1>10
    <2>4. task'.status = "pending" => next = "waiting"
        <3>1. OpenSteps = {"unreached", "declared", "waiting"}
            BY DEF OpenSteps
        <3> QED BY <3>1, <1>8, <1>11, <1>12, <1>13
    <2>5. task'.status = "prepared" =>
              task'.kind = "callback" /\ ~task'.bound /\ next = "unreached"
        BY <1>8, <1>9, <1>13
    <2>6. task'.kind = "human" /\ ~task'.bound => task'.status = "none"
        BY <1>5, <1>6, <1>8, <1>a DEF StepInv
    <2>7. (task'.due => task'.bound) /\ (scanned => task'.due)
        BY <1>5, <1>6, <1>8, <1>a DEF StepInv
    <2> QED BY <2>1, <2>2, <2>3, <2>4, <2>5, <2>6, <2>7, <1>2, <1>3, <1>4, <1>11
            DEF StepInv, Active
<1>16. AnswerInv'
    <2>1. task'.status = "answered" <=> t.status = "answered"
        BY <1>8
    <2>2. CASE step = "declared"
        BY <2>1, <2>2, <1>2, <1>5, <1>8, <1>a, TaskAssumption DEF AnswerInv, StepInv
    <2>3. CASE step # "declared"
        BY <2>1, <2>3, <1>2, <1>6, <1>8, <1>a, TaskAssumption DEF AnswerInv
    <2> QED BY <2>2, <2>3
<1>17. AnswerCounts'
    <2>1. step' = next /\ heard' = heard
        BY <1>1, <1>2
    <2>2. /\ task'.kind = task.kind /\ task'.early = task.early
          /\ task'.answer = task.answer \/ (step = "declared" /\ ended
                                            /\ task'.answer = NoAnswer)
        BY <1>5, <1>6, <1>8
    <2>3. Dropped => Dropped'
        BY <2>1, <2>2, <1>3, <1>9 DEF Dropped
    <2>4. step = "declared" => next = "waiting" \/ run.cancel \/ run.deadline
        BY <1>9
    <2>5. CASE task'.answer = task.answer
        <3>1. task.answer # NoAnswer =>
                  task.status = "answered" /\ t.status = "answered"
            <4>1. task.answer # NoAnswer => task.status = "answered"
                BY <1>a DEF AnswerInv
            <4> QED BY <4>1, <2>5, <1>5, <1>6, <1>8
        <3>2. step = "waiting" /\ t.status = "answered" => next = "answered"
            BY <1>9 DEF t, Outcome
        <3>3. next = "waiting" /\ t.status = "answered" => task'.status = "answered"
            BY <1>8
        <3>4. task.early /\ (run.cancel \/ run.deadline \/ next = "skipped") => Dropped'
            BY <2>1, <2>2, <1>3 DEF Dropped
        <3>5. task'.answer # NoAnswer
              => \/ next = "waiting" /\ task'.status = "answered"
                 \/ next = "answered"
                 \/ task'.early /\ next \in {"unreached", "declared"}
                 \/ Dropped'
            BY <2>2, <2>3, <2>4, <2>5, <3>1, <3>2, <3>3, <3>4, <1>9, <1>a DEF AnswerCounts
        <3> QED BY <2>1, <2>2, <2>3, <2>5, <3>5, <1>a DEF AnswerCounts
    <2>6. CASE step = "declared" /\ ended /\ task'.answer = NoAnswer
        <3>1. run.cancel \/ run.deadline
            BY <2>4, <2>6, <1>1 DEF OpenSteps
        <3>2. task.answer # NoAnswer => task.early
            BY <2>6, <1>a DEF StepInv, AnswerInv
        <3>3. task.answer # NoAnswer => Dropped'
            BY <2>2, <3>1, <3>2, <1>3 DEF Dropped
        <3>4. \A r \in Responders : r # NoAnswer
            BY TaskAssumption
        <3> QED BY <2>1, <2>2, <2>3, <2>6, <3>3, <3>4, <1>a DEF AnswerCounts
    <2> QED BY <2>2, <2>5, <2>6
<1>18. SettledIsWoken'
    <2>1. CASE step = "declared"
        BY <2>1, <1>1, <1>2, <1>5, <1>8, <1>10, <1>3 DEF SettledIsWoken, SettledAtBind, t
    <2>2. CASE step # "declared"
        BY <2>2, <1>1, <1>2, <1>3, <1>8, <1>10 DEF SettledIsWoken
    <2> QED BY <2>1, <2>2
<1> QED BY <1>14, <1>15, <1>16, <1>17, <1>18 DEF TaskInv

LEMMA AdvanceEndedKeeps ==
    ASSUME TaskInv, AdvanceEnded PROVE TaskInv'
BY TaskAssumption
   DEF TaskInv, TaskTypeOK, RunRecord, TaskRecord, OpenSteps, StepInv, AnswerInv,
       AnswerCounts, SettledIsWoken, Dropped, Active, Wake, AdvanceEnded

LEMMA AdvanceAgainKeeps ==
    ASSUME TaskInv, AdvanceAgain PROVE TaskInv'
<1>1. TaskTypeOK'
    BY TaskAssumption
       DEF TaskInv, TaskTypeOK, RunRecord, TaskRecord, OpenSteps,
           AdvanceAgain, Expired
<1>2. StepInv'
    BY TaskAssumption
       DEF TaskInv, TaskTypeOK, RunRecord, TaskRecord, OpenSteps, StepInv, Active,
           AdvanceAgain, Expired
<1>3. AnswerInv'
    BY TaskAssumption
       DEF TaskInv, TaskTypeOK, RunRecord, TaskRecord, OpenSteps, StepInv, AnswerInv, Active,
           AdvanceAgain, Expired
<1>4. AnswerCounts'
    BY TaskAssumption
       DEF TaskInv, TaskTypeOK, RunRecord, TaskRecord, OpenSteps, StepInv, AnswerInv, AnswerCounts, Dropped, Active,
           AdvanceAgain, Expired
<1>5. SettledIsWoken'
    BY TaskAssumption
       DEF TaskInv, TaskTypeOK, RunRecord, TaskRecord, OpenSteps, StepInv, SettledIsWoken, Active,
           AdvanceAgain, Expired
<1> QED BY <1>1, <1>2, <1>3, <1>4, <1>5 DEF TaskInv

LEMMA FailRunKeeps ==
    ASSUME TaskInv, FailRun PROVE TaskInv'
<1>1. TaskTypeOK'
    BY TaskAssumption
       DEF TaskInv, TaskTypeOK, RunRecord, TaskRecord, OpenSteps,
           FailRun, Close
<1>2. StepInv'
    BY TaskAssumption
       DEF TaskInv, TaskTypeOK, RunRecord, TaskRecord, OpenSteps, StepInv, Active,
           FailRun, Close
<1>3. AnswerInv'
    BY TaskAssumption
       DEF TaskInv, TaskTypeOK, RunRecord, TaskRecord, OpenSteps, StepInv, AnswerInv, Active,
           FailRun, Close
<1>4. AnswerCounts'
    BY TaskAssumption
       DEF TaskInv, TaskTypeOK, RunRecord, TaskRecord, OpenSteps, StepInv, AnswerInv, AnswerCounts, Dropped, Active,
           FailRun, Close
<1>5. SettledIsWoken'
    BY TaskAssumption
       DEF TaskInv, TaskTypeOK, RunRecord, TaskRecord, OpenSteps, StepInv, SettledIsWoken, Active,
           FailRun, Close
<1> QED BY <1>1, <1>2, <1>3, <1>4, <1>5 DEF TaskInv

-----------------------------------------------------------------------------

LEMMA StepKeeps == TaskInv /\ [TaskNext]_taskVars => TaskInv'
<1> SUFFICES ASSUME TaskInv, [TaskNext]_taskVars PROVE TaskInv'
    OBVIOUS
<1>1. CASE UNCHANGED taskVars
    BY <1>1 DEF taskVars, TaskInv, TaskTypeOK, StepInv, AnswerInv, AnswerCounts,
                SettledIsWoken, Dropped, Active
<1>2. CASE TaskNext
    BY <1>2, RespondKeeps, RespondCallbackKeeps, PrepareCallbackKeeps, DeclareKeeps,
       OtherWorkKeeps, CancelKeeps, DeadlinePassesKeeps, ExpiryPassesKeeps,
       DueScanKeeps, AdvanceKeeps, AdvanceEndedKeeps, AdvanceAgainKeeps, FailRunKeeps
       DEF TaskNext
<1> QED BY <1>1, <1>2

LEMMA TaskSafe == TaskSpec => []TaskInv
<1> QED BY InvHolds, StepKeeps, PTL DEF TaskSpec

\* Every variable of a waiting step, its task and its run keeps its type,
\* whatever people, callers, timers and advances do (core/runs/pending-tasks).
THEOREM TaskTypeCorrect == TaskSpec => []TaskTypeOK
<1>1. TaskInv => TaskTypeOK BY DEF TaskInv
<1> QED BY <1>1, TaskSafe, PTL

\* However many people or callers answer, and retry: whoever was told that his
\* answer counts gave the one that does, a person told otherwise did not, and
\* the step ends with it (respondToTask, respondCallback, advanceRun).
THEOREM OneAnswerCounts == TaskSpec => []AnswerCounts
<1>1. TaskInv => AnswerCounts BY DEF TaskInv
<1> QED BY <1>1, TaskSafe, PTL

\* While a step waits on a settled task, an advance of its run is on its way or
\* the scanner of due steps will see it: every statement that settles a task,
\* or binds a settled one, wakes the run, and no advance consumes the last wake
\* without reading the task (wakeWorkflowRun, persistTaskIntents).
THEOREM NoSettledTaskForgotten == TaskSpec => []SettledIsWoken
<1>1. TaskInv => SettledIsWoken BY DEF TaskInv
<1> QED BY <1>1, TaskSafe, PTL

=============================================================================
