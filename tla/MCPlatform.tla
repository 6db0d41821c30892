----------------------------- MODULE MCPlatform -----------------------------
(***************************************************************************)
(* Model checking of five components that share no state: a connection's   *)
(* tokens, a step that waits for a person or a callback, a workflow's      *)
(* failure streak, the events of a trigger's key, and the order of claims. *)
(* A behaviour is one of one component; the others stay as they began.     *)
(***************************************************************************)
EXTENDS OAuthRefresh, PendingTask, FailureStreak, EventCoordination, FairClaim, TLC

VARIABLE part

platformVars == <<part, oauthVars, taskVars, streakVars, coordinationVars, claimVars>>

\* Processes and people are interchangeable.
Interchangeable == Permutations(Refreshers) \cup Permutations(Responders)

\* A component that stays as it began has one beginning.
AtRest(name) ==
    /\ name # "task" => task = NewTask("human", "fail")
    /\ name # "streak" => workflow.enabled /\ \A m \in Thresholds : workflow.threshold <= m
    /\ name # "events" => policy = "delay"

PlatformInit ==
    /\ OAuthInit /\ TaskInit /\ StreakInit /\ CoordinationInit /\ ClaimInit
    /\ part \in {"connection", "task", "streak", "events", "claims"}
    /\ AtRest(part)

PlatformNext ==
    \/ /\ part = "connection" /\ OAuthNext
       /\ UNCHANGED <<part, taskVars, streakVars, coordinationVars, claimVars>>
    \/ /\ part = "task" /\ TaskNext
       /\ UNCHANGED <<part, oauthVars, streakVars, coordinationVars, claimVars>>
    \/ /\ part = "streak" /\ StreakNext
       /\ UNCHANGED <<part, oauthVars, taskVars, coordinationVars, claimVars>>
    \/ /\ part = "events" /\ CoordinationNext
       /\ UNCHANGED <<part, oauthVars, taskVars, streakVars, claimVars>>
    \/ /\ part = "claims" /\ ClaimNext
       /\ UNCHANGED <<part, oauthVars, taskVars, streakVars, coordinationVars>>

PlatformSpec == PlatformInit /\ [][PlatformNext]_platformVars

=============================================================================
