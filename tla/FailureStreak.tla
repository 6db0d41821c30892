--------------------------- MODULE FailureStreak ---------------------------
(***************************************************************************)
(* The failure streak that pauses a workflow's triggers                    *)
(* (packages/core/src/triggers/pause, ADR 056).  A run that ends is given  *)
(* its end time before its transaction commits the outcome; folders take   *)
(* outcomes in any order, some at a time, and fold them into the streak of *)
(* runs that failed one after the other in the order of their ends.        *)
(*                                                                         *)
(* Times are positions: each end, and the resume, takes the next one.  A   *)
(* run is named by the position of its end.                                *)
(***************************************************************************)
EXTENDS Integers, FiniteSets, FiniteSetsExt

CONSTANTS MaxTime,          \* ends of runs and resumes
          Thresholds,       \* what the workflow's threshold may be set to
          MaxKept,          \* MAX_AUTO_PAUSE_THRESHOLD
          FoldLimit,        \* outcomes a fold takes at most
          Legacy,           \* failures carried over from the old counter
          MaxChanges        \* changes of the workflow and its settings

ASSUME StreakAssumption ==
    /\ MaxTime \in Nat /\ MaxKept \in Nat \ {0} /\ Legacy \in Nat
    /\ Thresholds \subseteq 1..MaxKept /\ Thresholds # {}

Times == 1..MaxTime

VARIABLES
    now,         \* the last position taken
    outcome,     \* by position: what ended then, if that is known
    streak,      \* the workflow's streak row, with the failures kept for it
    workflow     \* its pause, threshold, and whether it may be paused

streakVars == <<now, outcome, streak, workflow>>

StreakInit ==
    /\ now = 0
    /\ outcome = [t \in Times |-> "none"]
    /\ streak = [count |-> Legacy, legacy |-> Legacy, resumed |-> 0,
                 success |-> 0, failures |-> {}]
    /\ workflow \in [pause : {0}, threshold : Thresholds,
                     enabled : BOOLEAN, changes : {0}]

Failures == {t \in Times : outcome[t] \in {"failure", "folded_failure"}}
Successes == {t \in Times : outcome[t] \in {"success", "folded_success"}}
Pending == {t \in Times : outcome[t] \in {"failure", "success"}}

Latest(S) == Max(S \cup {0})

\* The MaxKept latest of a set of positions
Newest(S) == {t \in S : Cardinality({u \in S : u >= t}) <= MaxKept}

AtMost(n, m) == IF n <= m THEN n ELSE m

-----------------------------------------------------------------------------
\* A run ends, its transaction still open: failed or succeeded, as far as its
\* trigger counts (streakOutcome).
RunEnded(kind) ==
    /\ now < MaxTime
    /\ now' = now + 1
    /\ outcome' = [outcome EXCEPT ![now + 1] = kind]
    /\ UNCHANGED <<streak, workflow>>

\* persistWorkflowTriggerOutcome: the transaction commits
CommitOutcome(t) ==
    /\ outcome[t] \in {"failing", "succeeding"}
    /\ outcome' = [outcome EXCEPT ![t] = IF @ = "failing" THEN "failure" ELSE "success"]
    /\ UNCHANGED <<now, streak, workflow>>

\* Mutant: a success that is committed and not in the batch is not looked for.
BatchSuccess(batch) == Latest({streak.success} \cup (batch \cap Successes))

\* advanceSuccessWatermark over the batch and the latest success that is
\* committed, whether or not the batch has it (readPendingSuccess)
SuccessMark(batch) ==
    Latest({streak.success} \cup (batch \cap Successes)
           \cup {t \in Pending \cap Successes : t > streak.resumed})

\* applyOrderedOutcomes
FoldedStreak(batch) ==
    LET mark == SuccessMark(batch)
        legacy == IF mark = 0 THEN streak.legacy ELSE 0
        ordered == Newest({t \in streak.failures : t > streak.resumed /\ t > mark})
                   \cup {t \in batch \cap Failures : t > mark}
        size == Cardinality(ordered)
    IN  [streak EXCEPT !.legacy = legacy, !.success = mark,
             !.failures = {t \in @ : ordered # {} /\ t >= Min(Newest(ordered))}
                          \cup Newest(ordered),
             !.count = Latest({legacy, AtMost(legacy + size, MaxKept)})]

\* foldTriggerOutcomes, foldWorkflow: outcomes are selected in the order of
\* their rows before the workflow is locked, and what another folder has taken
\* since is skipped, so a batch is any part of what is pending.  It is deleted;
\* ends no later than the resume are dropped.
Fold(batch) ==
    LET eligible == {t \in batch : t > streak.resumed}
        next == IF eligible = {} THEN streak ELSE FoldedStreak(eligible)
        latest == Latest({t \in next.failures : t > next.resumed /\ t > next.success})
    IN  /\ batch # {} /\ Cardinality(batch) <= FoldLimit
        /\ outcome' = [t \in Times |->
              IF t \notin batch THEN outcome[t]
              ELSE IF outcome[t] = "failure" THEN "folded_failure"
              ELSE "folded_success"]
        /\ streak' = next
        /\ workflow' = IF /\ eligible # {} /\ latest # 0
                          /\ next.count >= workflow.threshold
                          /\ workflow.enabled /\ workflow.pause = 0
                       THEN [workflow EXCEPT !.pause = next.count] ELSE workflow
        /\ UNCHANGED now

\* resumePausedWorkflow: what ended before no longer counts
Resume ==
    /\ workflow.pause # 0 /\ now < MaxTime
    /\ now' = now + 1
    /\ streak' = [streak EXCEPT !.count = 0, !.legacy = 0, !.resumed = now + 1]
    /\ workflow' = [workflow EXCEPT !.pause = 0]
    /\ UNCHANGED outcome

\* updateWorkflowPauseSettings, and the commands that stop and start the
\* workflow or its workspace: the next fold sees them
ChangeSettings ==
    /\ workflow.changes < MaxChanges
    /\ \E threshold \in Thresholds, enabled \in BOOLEAN :
          workflow' = [workflow EXCEPT !.threshold = threshold,
                                       !.enabled = enabled, !.changes = @ + 1]
    /\ UNCHANGED <<now, outcome, streak>>

\* TRIGGER_FAILURE_RETENTION_RULE
RetainFailures(t) ==
    /\ t \in streak.failures
    /\ \/ t <= streak.resumed \/ t <= streak.success
       \/ t \notin Newest(streak.failures)
    /\ streak' = [streak EXCEPT !.failures = @ \ {t}]
    /\ UNCHANGED <<now, outcome, workflow>>

StreakNext ==
    \/ \E kind \in {"failing", "succeeding"} : RunEnded(kind)
    \/ \E t \in Times : CommitOutcome(t) \/ RetainFailures(t)
    \/ (\E batch \in SUBSET Pending : Fold(batch)) \/ Resume \/ ChangeSettings

StreakSpec == StreakInit /\ [][StreakNext]_streakVars

-----------------------------------------------------------------------------
(* Properties                                                              *)

\* The streak as ADR 056 defines it, over all outcomes that are committed:
\* the runs that failed since the last success, in the order of their ends.
TrueStreak ==
    LET counted == {t \in Times : t > streak.resumed}
        success == Latest(Successes \cap counted)
        carried == IF success = 0 /\ streak.resumed = 0 THEN Legacy ELSE 0
    IN  carried + Cardinality({t \in Failures \cap counted : t > success})

\* Triggers are paused only on a streak that has really happened, by the runs'
\* ends, in whatever order and portions it was folded and committed; and a
\* fold that leaves nothing pending has counted all of it, up to the number
\* of failures that is kept.
StreakIsTrue ==
    [][/\ workflow'.pause \notin {0, workflow.pause}
          => workflow'.pause \in workflow.threshold..TrueStreak'
       /\ Pending # {} /\ Pending' = {}
          => AtMost(streak'.count, MaxKept) = AtMost(TrueStreak', MaxKept)
      ]_streakVars

=============================================================================
