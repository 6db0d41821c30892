----------------------------- MODULE FairClaim -----------------------------
(***************************************************************************)
(* How a claim of the outbox shares its batch between workspaces           *)
(* (packages/core/src/outbox/dispatcher/claim.ts).  A claim takes the      *)
(* workspaces that have rows in turn, from the cursor on, and the same     *)
(* number of rows from each, the earliest first.  The delivery that starts *)
(* a run needs a slot of its workspace, and keeps it.                      *)
(*                                                                         *)
(* Claims come one after the other: each locks the cursor.  What becomes   *)
(* of a claimed row is OutboxEvent's, how slots are counted RunAdmission's,*)
(* which also has the order of the runs of one workflow.                   *)
(***************************************************************************)
EXTENDS Integers, FiniteSets

CONSTANTS WorkspaceCount,   \* workspaces, in the order of their ids
          BatchLimit,       \* rows a claim takes at most
          Slots,            \* active runs a workspace may have
          MaxRows           \* bound: rows of a workspace

ASSUME ClaimAssumption ==
    /\ WorkspaceCount \in Nat \ {0} /\ BatchLimit \in Nat \ {0}
    /\ Slots \in Nat /\ MaxRows \in Nat

Workspaces == 1..WorkspaceCount
NoWorkspace == 0            \* the cursor before the first claim

VARIABLES
    rows,        \* by workspace: the rows that can be claimed
    free,        \* by workspace: slots that nobody has
    cursor,      \* outbox_fair_dispatch_cursor.last_workspace_id
    passed       \* by workspace: claims in a row that left it what it could have

claimVars == <<rows, free, cursor, passed>>

\* A row has a place in the order of available_at.  It is "work", or starts a
\* run ("start"), or starts one that has its slot ("granted").

ClaimInit ==
    /\ rows = [w \in Workspaces |-> {}]
    /\ free = [w \in Workspaces |-> Slots]
    /\ cursor = NoWorkspace
    /\ passed = [w \in Workspaces |-> 0]

\* A place that no row of the workspace has.
Places(w) == {n \in 1..MaxRows : \A r \in rows[w] : r.at # n}

\* A row is inserted, its available_at comes, or the lease of one that starts
\* nothing lapses.
Appear(w) ==
    /\ \E n \in Places(w), kind \in {"work", "start"} :
          rows' = [rows EXCEPT ![w] = @ \cup {[at |-> n, kind |-> kind]}]
    /\ UNCHANGED <<free, cursor, passed>>

-----------------------------------------------------------------------------
(* A claim                                                                 *)

Waiting == {w \in Workspaces : rows[w] # {}}

\* The turn of a workspace: those after the cursor, then the others.
Before(v, w) ==
    IF (v > cursor) = (w > cursor) THEN v < w ELSE v > cursor

\* Mutant: the turn begins with the first workspace, not after the cursor.
FirstById == {w \in Waiting : Cardinality({v \in Waiting : v < w}) < BatchLimit}

\* workspace_round: as many workspaces as the batch may have rows
Round == {w \in Waiting :
             Cardinality({v \in Waiting : Before(v, w)}) < BatchLimit}

\* An equal share of the batch, and so at least one row
\* (a round has at most as many workspaces as the batch has rows).
Share(round) == BatchLimit \div Cardinality(round)

\* Mutant: a start is a candidate whether or not there is a slot for it.
EveryRow(w) == rows[w]

\* workflow_run_active_admission_eligible
Eligible(w) == {r \in rows[w] : r.kind = "start" => free[w] > 0}

\* The earliest n rows of a set.
Earliest(set, n) == {r \in set : Cardinality({q \in set : q.at < r.at}) < n}

\* admitted, of candidates: a slot is reserved for one after the other.
Admitted(candidates, slots) ==
    LET starts == {r \in candidates : r.kind = "start"}
    IN  (candidates \ starts) \cup Earliest(starts, slots)

\* What a workspace could have now, with one row and with all its slots.
CouldHave(w) == {r \in rows[w] : r.kind # "start" \/ free[w] > 0}

\* leaseFairOutboxBatch.  Another transaction may hold the locks of some rows
\* of one workspace: they are skipped.
ClaimBatch ==
    LET round == Round
        share == Share(round)
    IN  /\ round # {}
        /\ \E v \in round : \E locked \in SUBSET rows[v] :
              LET Open(w) == IF w = v THEN rows[w] \ locked ELSE rows[w]
                  leased == [w \in Workspaces |->
                      IF w \notin round THEN {}
                      ELSE Admitted(Earliest(Eligible(w) \cap Open(w), share), free[w])]
              IN  /\ rows' = [w \in Workspaces |-> rows[w] \ leased[w]]
                  /\ free' = [w \in Workspaces |->
                        free[w] - Cardinality({r \in leased[w] : r.kind = "start"})]
                  /\ passed' = [w \in Workspaces |->
                        IF leased[w] # {} \/ CouldHave(w) \cap Open(w) = {}
                        THEN 0 ELSE passed[w] + 1]
        /\ cursor' = CHOOSE w \in round : \A u \in round \ {w} : Before(u, w)

-----------------------------------------------------------------------------
(* What becomes of a run that was given a slot                             *)

\* Runs that have a slot, and whose row was claimed.
Running(w) ==
    Slots - free[w] - Cardinality({r \in rows[w] : r.kind = "granted"})

SlotFreed(w) ==
    /\ Running(w) > 0
    /\ free' = [free EXCEPT ![w] = @ + 1]
    /\ UNCHANGED <<rows, cursor, passed>>

\* The lease of its row lapses: the row can be claimed again, and the run
\* keeps its slot.
LeaseLapses(w) ==
    /\ Running(w) > 0
    /\ \E n \in Places(w) :
          rows' = [rows EXCEPT ![w] = @ \cup {[at |-> n, kind |-> "granted"]}]
    /\ UNCHANGED <<free, cursor, passed>>

ClaimNext ==
    \/ \E w \in Workspaces : Appear(w) \/ SlotFreed(w) \/ LeaseLapses(w)
    \/ ClaimBatch

ClaimSpec == ClaimInit /\ [][ClaimNext]_claimVars

-----------------------------------------------------------------------------
(* Properties                                                              *)

\* No workspace waits longer than its turn: claims leave a workspace what it
\* could have only while others are before it, whichever workspaces join and
\* leave meanwhile and however many deliveries wait for a slot
\* (leaseFairOutboxBatch's round, cursor and eligible).
TurnComes ==
    \A w \in Workspaces : passed[w] <= (WorkspaceCount - 1) \div BatchLimit

=============================================================================
