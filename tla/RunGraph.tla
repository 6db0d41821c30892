----------------------------- MODULE RunGraph -----------------------------
(***************************************************************************)
(* One run of a published workflow as its coordinator moves it: the        *)
(* checkpoint (what the engine knows), the node_runs rows (what workers    *)
(* and operators see), the facts that workers, timers and members leave    *)
(* for the next advance, and the advance jobs they insert.                 *)
(*                                                                         *)
(* Advance is one transaction under the run's lock: it loads every fact,   *)
(* lets the engine plan over a record s of the checkpoint, one operator    *)
(* per stage, and saves the plan; a plan the engine or the rows refuse is  *)
(* rolled back, and after enough deliveries the run is ended without the   *)
(* engine.  What an attempt does between its admission and its fact is     *)
(* NodeAttempt's.  Loops, called runs, human tasks and the run's slot are  *)
(* left out.                                                               *)
(***************************************************************************)
EXTENDS Integers, FiniteSets

CONSTANTS
    Graphs,         \* the workflows a run may be of, see GraphShape
    MaxAttempts,    \* attempts of a step that the retry policy allows
    MaxAdmissions,  \* attempts that one advance may admit
    MaxWakes        \* bound: advance jobs that are told apart

ASSUME BoundsAssumption ==
    /\ MaxAttempts \in Nat \ {0}
    /\ MaxAdmissions \in Nat \ {0}
    /\ MaxWakes \in Nat \ {0}

(* What F makes of start, again and again until nothing is added.          *)
Grown(nodes, start, F) ==
    LET upto[k \in 0 .. Cardinality(nodes)] ==
            IF k = 0 THEN start ELSE F[upto[k - 1]]
    IN  upto[Cardinality(nodes)]

(* The steps that the links of these edges lead to.                        *)
Heads(edges) == {e.to : e \in edges}
After(g, n) == Heads({e \in g.edges : e.from = n})
AtPort(g, n, p) == Heads({e \in g.edges : e.from = n /\ e.port = p})

(* The steps reachable from roots without entering a Merge.                *)
Descendants(g, roots) ==
    LET merges == DOMAIN g.pair
    IN  Grown(g.nodes, roots \ merges,
              [near \in SUBSET g.nodes |->
                  near \union ((UNION {After(g, n) : n \in near}) \ merges)])

(* A failed step's handler: actions of its own, in one line from the step's *)
(* error output, which nothing else enters and nothing leaves; and what    *)
(* follows the step when it does not fail, before any other handler.       *)
RouteShape(g, r) ==
    LET merges == DOMAIN g.pair
        normal == After(g, r.source) \ {r.entry}
    IN  /\ r.source \in g.nodes \ (merges \union g.choices \union g.parallels)
        /\ r.handlers \subseteq g.nodes \ (merges \union g.choices \union g.disabled)
        /\ {r.entry, r.sink} \subseteq r.handlers
        /\ r.entry \in After(g, r.source)
        /\ r.handlers \subseteq Descendants(g, {r.entry})
        /\ \A e \in g.edges :
              /\ e.from \in r.handlers => e.to \in r.handlers
              /\ e.to \in r.handlers =>
                    e.from \in r.handlers \/ (e.from = r.source /\ e.to = r.entry)
        /\ r.suffix \subseteq Descendants(g, normal)
        /\ \A n \in r.suffix : \A k \in After(g, n) \ merges :
              k \in r.suffix \/ \E x \in g.routes : x.source = n /\ x.entry = k
        /\ \A x \in g.routes :
              /\ x.source = r.source => x = r
              /\ r.handlers \intersect ({x.source} \union x.suffix) = {}

(* What a published workflow is like, as far as the engine relies on it    *)
(* (validateGraphStructure, parallelConfigSchema, mergeConfigSchema,       *)
(* assertBranchesDoNotReconverge and inspectWorkflowFailureRoutes): links  *)
(* are between steps, a Merge is of a Parallel and is no action, a         *)
(* Parallel lets at least one step run, the ports of a Condition or Switch *)
(* lead to different steps, and handlers and Parallels do not meet in one  *)
(* workflow.  Workers do not interrupt a step by themselves.               *)
GraphShape(g) ==
    LET merges == DOMAIN g.pair
    IN  /\ IsFiniteSet(g.nodes)
        /\ \A e \in g.edges : e.from \in g.nodes /\ e.to \in g.nodes
        /\ \A n \in DOMAIN g.ports : g.ports[n] \subseteq Nat
        /\ g.choices \union g.parallels \subseteq g.nodes \intersect DOMAIN g.ports
        /\ merges \subseteq g.nodes \ (g.choices \union g.parallels)
        /\ \A m \in merges : g.pair[m] \in g.parallels /\ g.need[m] \in Nat
        /\ \A p \in g.parallels : g.limit[p] \in Nat \ {0}
        /\ \A c \in g.choices : \A p, q \in g.ports[c] : p # q =>
              Descendants(g, AtPort(g, c, p)) \intersect Descendants(g, AtPort(g, c, q)) = {}
        /\ \A r \in g.routes : RouteShape(g, r)
        /\ g.routes # {} => g.parallels = {}
        /\ g.disabled \subseteq g.nodes
        /\ \A n \in g.nodes :
              g.yields[n] \subseteq {"succeeded", "wait", "retry", "fatal",
                                    "unclassified", "unknown"}
        /\ g.cancelable \in BOOLEAN /\ g.deadline \in BOOLEAN

ASSUME GraphsAssumption == \A g \in Graphs : GraphShape(g)

VARIABLES
    graph,      \* the workflow of this run
    run,        \* its workflow_runs row and the control part of its checkpoint
    inv,        \* checkpoint: the invocation of each step
    join,       \* checkpoint: the ledger of each Merge
    choice,     \* checkpoint: the port each Condition or Switch selected
    row,        \* node_runs.status
    fact,       \* what a worker reported of a step and no advance has consumed
    due,        \* the step's wait is over
    wakes       \* advance-workflow-run jobs to be delivered

vars == <<graph, run, inv, join, choice, row, fact, due, wakes>>
checkpoint == <<inv, join, choice>>

Nodes == graph.nodes
Edges == graph.edges
Choices == graph.choices
Parallels == graph.parallels
Merges == DOMAIN graph.pair
Pair(m) == graph.pair[m]
NoPort == 0     \* ports are numbers, in the canonical order of their ids

Settled == {"succeeded", "failed", "skipped", "canceled", "timed_out",
            "outcome_unknown"}
Open == {"pending", "ready", "running", "waiting"}
EndStatuses == {"succeeded", "failed", "canceled", "timed_out", "outcome_unknown"}
Failures == {"retry", "fatal", "unclassified", "unknown", "canceled"}
Dispositions == {"pending", "arrived", "skipped", "missing", "failed", "canceled"}

Absent == [status |-> "absent", attempt |-> 0, handling |-> "none", path |-> {}]
Undeclared == [state |-> "undeclared", ledger |-> <<>>, selected |-> {}]

(* A job more than the bound adds no behaviour: any two pending deliveries *)
(* of one run do the same thing.                                           *)
Wake == wakes' = IF wakes < MaxWakes THEN wakes + 1 ELSE wakes

-----------------------------------------------------------------------------
(* The graph's shape.                                                      *)

Ports(n) == graph.ports[n]
Preds(n) == {e.from : e \in {d \in Edges : d.to = n}}
Succs(n) == After(graph, n)
Roots(n, p) == AtPort(graph, n, p)
Descend(roots) == Descendants(graph, roots)

(* The step that feeds branch b of Merge m.                                *)
Arrival(m, b) == (CHOOSE e \in Edges : e.to = m /\ e.into = b).from

Routed(n) == \E r \in graph.routes : r.source = n
RouteOf(n) == CHOOSE r \in graph.routes : r.source = n

-----------------------------------------------------------------------------
(* The facts of an advance.                                                *)

Cancel == run.cancel \/ run.asked
Expired == run.expired \/ run.deadline \in {"past", "woken"}
StoppingAsRecorded == run.cancel \/ run.expired


Stopping == Cancel \/ Expired

Loaded == [st |-> run.status, inv |-> inv, join |-> join, choice |-> choice]

OutcomeRetryingAlways(n) ==
    CASE fact[n] \in {"wait", "retry"} -> "waiting"
      [] fact[n] = "succeeded" -> "succeeded"
      [] fact[n] = "unknown" -> "outcome_unknown"
      [] OTHER -> "failed"


(* The status a reported step takes: resolveAttemptFailures decides those  *)
(* of a failure, with the retry policy when nothing stops the run.         *)
Outcome(n) ==
    CASE fact[n] = "succeeded" -> "succeeded"
      [] fact[n] = "wait" -> "waiting"
      [] fact[n] = "unknown" -> "outcome_unknown"
      [] fact[n] \in Failures \ {"unknown"} /\ Cancel -> "canceled"
      [] fact[n] \in Failures \ {"unknown"} /\ ~Cancel /\ Expired -> "timed_out"
      [] fact[n] = "canceled" /\ ~Stopping -> "canceled"
      [] fact[n] = "retry" /\ ~Stopping /\ inv[n].attempt < MaxAttempts -> "waiting"
      [] OTHER -> "failed"

(* Due waits become ready, and a queued run starts.                        *)
Start(s) ==
    LET over == IF Stopping THEN {}
                ELSE {n \in Nodes : s.inv[n].status = "waiting" /\ due[n]}
    IN  [s EXCEPT
           !.inv = [n \in Nodes |->
               IF n \in over THEN [s.inv[n] EXCEPT !.status = "ready"] ELSE s.inv[n]],
           !.st = IF ~Stopping /\ (@ = "queued" \/ (@ = "waiting" /\ over # {}))
                    THEN "running" ELSE @]

(* The outcomes; sel is what the Conditions that succeeded have selected.  *)
(* A failure of which a handler could be told nothing is not routed.       *)
Consume(s, sel) ==
    [s EXCEPT
       !.inv = [n \in Nodes |->
           IF fact[n] = "none" THEN s.inv[n]
           ELSE [s.inv[n] EXCEPT
                   !.status = Outcome(n),
                   !.handling = IF /\ Outcome(n) = "failed"
                                   /\ fact[n] # "unclassified" /\ Routed(n)
                                  THEN "pending" ELSE @]],
       !.choice = IF Cancel THEN @
                  ELSE [n \in Choices |-> IF n \in DOMAIN sel THEN sel[n] ELSE @[n]]]

-----------------------------------------------------------------------------
(* Merges, as mergeCoordinatorObservations reads them: the stored          *)
(* invocations with the settled outcomes of this advance laid over them.   *)

Projected(n) ==
    IF fact[n] = "none" \/ Outcome(n) = "waiting" THEN inv[n].status ELSE Outcome(n)

Declared == {m \in Merges : Projected(Pair(m)) = "succeeded"}

InBranch(m, b) ==
    {n \in Nodes : /\ inv[n].status # "absent"
                   /\ inv[Pair(m)].path \union {<<Pair(m), b>>} \subseteq inv[n].path}

SettledAs(statuses) ==
    IF statuses \intersect {"failed", "timed_out", "outcome_unknown"} # {} THEN "failed"
    ELSE IF "canceled" \in statuses THEN "canceled"
    ELSE IF statuses = {"skipped"} THEN "skipped"
    ELSE "arrived"

DispositionOfWhatRan(m, b) ==
    LET statuses == {Projected(n) : n \in InBranch(m, b)}
    IN  IF statuses = {} THEN IF Arrival(m, b) = Pair(m) THEN "missing" ELSE "pending"
        ELSE IF statuses \intersect Open # {} THEN "pending"
        ELSE SettledAs(statuses)

DispositionDespiteWaits(m, b) ==
    LET scope == InBranch(m, b)
        statuses == {Projected(n) : n \in scope}
    IN  IF scope = {} THEN IF Arrival(m, b) = Pair(m) THEN "missing" ELSE "pending"
        ELSE IF \/ statuses \intersect (Open \ {"waiting"}) # {}
                \/ Arrival(m, b) \notin scope \union {Pair(m)}
          THEN "pending"
        ELSE SettledAs(statuses)


Disposition(m, b) ==
    LET scope == InBranch(m, b)
        direct == Arrival(m, b) = Pair(m)
        statuses == {Projected(n) : n \in scope}
    IN  IF scope = {} THEN IF direct THEN "missing" ELSE "pending"
        ELSE IF statuses \intersect Open # {} \/ (~direct /\ Arrival(m, b) \notin scope)
          THEN "pending"
        ELSE SettledAs(statuses)

NewLedger(m) == [b \in Ports(Pair(m)) |-> "pending"]


Declare(s) ==
    LET fresh == IF Cancel THEN {}
                 ELSE {m \in Declared : s.join[m].state = "undeclared"}
    IN  [s EXCEPT
           !.join = [m \in Merges |->
               IF m \in fresh THEN [state |-> "open", ledger |-> NewLedger(m),
                                    selected |-> {}]
               ELSE @[m]],
           !.inv = [n \in Nodes |->
               IF n \in fresh /\ @[n].status = "absent"
                 THEN [Absent EXCEPT !.status = "pending", !.path = s.inv[Pair(n)].path]
                 ELSE @[n]]]

(* The engine throws on a disposition of a join that is not declared and   *)
(* on one that contradicts the ledger.                                     *)
Contradicts(s) ==
    \E m \in Declared : \E b \in Ports(Pair(m)) :
        /\ Disposition(m, b) # "pending"
        /\ \/ s.join[m].state = "undeclared"
           \/ s.join[m].ledger[b] \notin {"pending", Disposition(m, b)}

Record(s) ==
    [s EXCEPT !.join = [m \in Merges |->
        LET j == s.join[m]
        IN  IF m \notin Declared \/ j.state = "undeclared" THEN j
            ELSE [j EXCEPT !.ledger = [b \in Ports(Pair(m)) |->
                     IF j.ledger[b] = "pending" THEN Disposition(m, b) ELSE j.ledger[b]]]]]

-----------------------------------------------------------------------------
(* Failure handlers, readiness, joins and stops, each over the record s.   *)

Status(s, n) == s.inv[n].status

(* A routed failure is handled once the last step of its handler succeeded. *)
SettleHandlers(s) ==
    [s EXCEPT !.inv = [n \in Nodes |->
        IF /\ ~Stopping
           /\ @[n].handling = "pending"
           /\ Status(s, RouteOf(n).sink) = "succeeded"
        THEN [@[n] EXCEPT !.handling = "handled"] ELSE @[n]]]

Decided(s) == {c \in Choices : Status(s, c) = "succeeded" /\ s.choice[c] # NoPort}
Entered(s) == {p \in Parallels : Status(s, p) \in {"succeeded", "skipped"}}

(* What a Condition's selection leaves behind, on every port but its own.  *)
Unselected(s) ==
    UNION {(UNION {Descend(Roots(c, p)) : p \in Ports(c) \ {s.choice[c]}})
             \ Descend(Roots(c, s.choice[c])) : c \in Decided(s)}

Taken(s) == {r \in graph.routes : s.inv[r.source].handling # "none"}
Unneeded(s) == {r \in graph.routes \ Taken(s) : Status(s, r.source) \in Settled}
HandlersOf(routes) == UNION {r.handlers : r \in routes}

(* A skipped Parallel skips its branches, its Merge and what follows it.   *)
UnderSkipped(s) ==
    UNION {{m} \union Descend(Succs(m))
             \union Descend(UNION {Roots(Pair(m), b) : b \in Ports(Pair(m))}) :
           m \in {k \in Merges : Status(s, Pair(k)) = "skipped"}}

SkippedByRoutesOnly(s) ==
    HandlersOf(Unneeded(s))
      \union ((Unselected(s) \union UNION {r.suffix : r \in Taken(s)})
                \ HandlersOf(Taken(s)))


Skipped(s) ==
    UnderSkipped(s) \union HandlersOf(Unneeded(s))
      \union ((Unselected(s) \union UNION {r.suffix : r \in Taken(s)})
                \ HandlersOf(Taken(s)))

Blocked(s) ==
    (UNION {Descend(UNION {Roots(c, p) : p \in Ports(c)}) :
              c \in {d \in Choices \ Decided(s) : Status(s, d) = "succeeded"}})
      \union HandlersOf(graph.routes \ (Taken(s) \union Unneeded(s)))

PassedIfSettled(s, from, to) == Status(s, from) \in Settled


Passed(s, from, to) ==
    \/ Status(s, from) \in {"succeeded", "skipped"}
    \/ \E r \in Taken(s) : r.source = from /\ r.entry = to

Ready(s) ==
    LET skipped == Skipped(s)
        blocked == Blocked(s)
    IN  {n \in Nodes :
            /\ Status(s, n) = "absent"
            /\ \/ n \in skipped
               \/ /\ n \notin blocked
                  /\ n \in Merges => Status(s, Pair(n)) = "skipped"
                  /\ \A p \in Preds(n) : Passed(s, p, n)}

(* The paths are nested, so that the longest one is their union.           *)
PathOf(s, n) ==
    UNION ({s.inv[x[1]].path \union {x} :
              x \in {y \in (Decided(s) \union Entered(s))
                             \X UNION {Ports(c) : c \in DOMAIN graph.ports} :
                  /\ y[2] \in Ports(y[1])
                  /\ n \in Descend(Roots(y[1], y[2]))
                  /\ y[1] \in Choices /\ y[2] # s.choice[y[1]]
                       => n \notin Descend(Roots(y[1], s.choice[y[1]]))}}
           \union {s.inv[r.source].path : r \in
                     {r \in Taken(s) : n \in r.suffix \union r.handlers}
                       \union {r \in Unneeded(s) : n \in r.handlers}}
           \union {s.inv[Pair(m)].path : m \in
                     {m \in Merges : /\ Status(s, Pair(m)) = "skipped"
                                     /\ n \in UnderSkipped(s)}})

Derive(s) ==
    LET skipped == Skipped(s)
        fresh == IF Stopping \/ s.st \notin {"running", "waiting"} THEN {}
                 ELSE Ready(s) \ ({m \in Merges : join[m].state # "undeclared"}
                                    \union Declared)
    IN  [s EXCEPT !.inv = [n \in Nodes |->
            IF n \in fresh
              THEN [Absent EXCEPT
                      !.status = IF n \in skipped \union graph.disabled
                                   THEN "skipped" ELSE "ready",
                      !.path = PathOf(s, n)]
              ELSE @[n]]]

(* settleJoin: nothing is decided before every branch has a disposition.   *)
Branches(j, disposition) == {b \in DOMAIN j.ledger : j.ledger[b] = disposition}
DecidableSoon(j) == j.state # "undeclared"
Decidable(j) == j.state = "open" /\ Branches(j, "pending") = {}
Selected(m, j) ==
    {b \in Branches(j, "arrived") :
        graph.need[m] = 0
          \/ Cardinality({c \in Branches(j, "arrived") : c < b}) < graph.need[m]}
Satisfied(m, j) ==
    IF graph.need[m] = 0
      THEN Branches(j, "failed") \union Branches(j, "canceled") = {}
      ELSE Cardinality(Branches(j, "arrived")) >= graph.need[m]

SettleJoins(s) ==
    LET now == {m \in Merges : Decidable(s.join[m])}
    IN  [s EXCEPT
           !.join = [m \in Merges |->
               IF m \notin now THEN @[m]
               ELSE IF Satisfied(m, @[m])
                 THEN [@[m] EXCEPT !.state = "satisfied",
                                   !.selected = Selected(m, s.join[m])]
                 ELSE [@[m] EXCEPT !.state = "unsatisfied"]],
           !.inv = [n \in Nodes |->
               IF n \in now /\ @[n].status = "pending"
                 THEN [@[n] EXCEPT !.status =
                         IF Satisfied(n, s.join[n]) THEN "ready" ELSE "failed"]
                 ELSE @[n]]]

(* A stop ends what no worker holds; a wait that the deadline ends timed out. *)
Stop(s) ==
    IF ~Stopping THEN s
    ELSE [s EXCEPT !.inv = [n \in Nodes |->
            IF Status(s, n) \in {"pending", "ready", "waiting"}
              THEN [s.inv[n] EXCEPT
                      !.status = IF ~Cancel /\ Status(s, n) = "waiting" THEN "timed_out"
                                 ELSE "canceled"]
              ELSE s.inv[n]]]

-----------------------------------------------------------------------------
(* What the plan admits, how the run stands after it, and how it is saved. *)

Within(s, p) == {n \in Nodes : \E x \in s.inv[n].path : x[1] = p}
Running(s) == {n \in Nodes : Status(s, n) = "running"}

FitsAlone(s, admitted) ==
    /\ Cardinality(admitted) <= MaxAdmissions
    /\ \A p \in Parallels :
          Cardinality(admitted \intersect Within(s, p)) <= graph.limit[p]


Fits(s, admitted) ==
    /\ Cardinality(admitted) <= MaxAdmissions
    /\ \A p \in Parallels :
          admitted \intersect Within(s, p) = {}
            \/ Cardinality((Running(s) \union admitted) \intersect Within(s, p))
                 <= graph.limit[p]

(* The order of the invocation keys is a hash: any order is allowed for.   *)
Admissions(s) ==
    LET ready == {n \in Nodes : Status(s, n) = "ready"}
    IN  IF Stopping THEN {{}}
        ELSE {a \in SUBSET ready :
                Fits(s, a) /\ \A n \in ready \ a : ~Fits(s, a \union {n})}

Admit(s, admitted) ==
    [s EXCEPT
       !.inv = [n \in Nodes |->
           IF n \in admitted
             THEN [s.inv[n] EXCEPT !.status = "running", !.attempt = s.inv[n].attempt + 1]
             ELSE s.inv[n]],
       !.st = IF @ = "waiting" /\ admitted # {} THEN "running" ELSE @]

EndStatusStopFirst(s) ==
    LET statuses == {Status(s, n) : n \in Nodes} \ {"absent"}
    IN  IF Cancel THEN "canceled"
        ELSE IF Expired \/ "timed_out" \in statuses THEN "timed_out"
        ELSE IF "outcome_unknown" \in statuses THEN "outcome_unknown"
        ELSE IF \E n \in Nodes : Status(s, n) = "failed" /\ s.inv[n].handling # "handled"
          THEN "failed"
        ELSE IF "canceled" \in statuses THEN "canceled"
        ELSE IF \A n \in Nodes : Status(s, n) # "absent" THEN "succeeded"
        ELSE "open"


(* deriveTerminalRunStatus; "open" where the run cannot end.               *)
EndStatus(s) ==
    LET statuses == {Status(s, n) : n \in Nodes} \ {"absent"}
        unhandled == \E n \in Nodes : /\ Status(s, n) = "failed"
                                      /\ s.inv[n].handling # "handled"
    IN  IF "outcome_unknown" \in statuses THEN "outcome_unknown"
        ELSE IF Cancel THEN "canceled"
        ELSE IF Expired \/ "timed_out" \in statuses THEN "timed_out"
        ELSE IF unhandled THEN "failed"
        ELSE IF "canceled" \in statuses THEN "canceled"
        ELSE IF \A n \in Nodes : Status(s, n) # "absent" THEN "succeeded"
        ELSE "open"

SettleRun(s) ==
    LET open == {n \in Nodes : Status(s, n) \in Open}
        idle == \A n \in open : \/ Status(s, n) = "waiting"
                                \/ (Status(s, n) = "pending" /\ n \in Merges)
    IN  [s EXCEPT !.st =
           IF open = {} THEN IF EndStatus(s) = "open" THEN @ ELSE EndStatus(s)
           ELSE IF @ = "running" /\ idle THEN "waiting"
           ELSE @]

(* What the engine is told, and what it derives from it.                   *)
Told(sel) == Declare(Consume(Start(Loaded), sel))
Planned(told) == SettleJoins(Derive(SettleHandlers(Record(told))))

(* A failure is routed only from within the ports that were selected.      *)
OutOfScope(told, n) ==
    \E x \in told.inv[n].path :
        Status(told, x[1]) # "succeeded" \/ told.choice[x[1]] # x[2]

(* The engine's own refusals.                                              *)
Inconsistent(told) ==
    \/ Contradicts(told)
    \/ \E r \in graph.routes :
          /\ inv[r.source].handling = "none"
          /\ told.inv[r.source].handling = "pending"
          /\ OutOfScope(told, r.source)
    \/ \E r \in graph.routes :
          /\ ~Stopping
          /\ told.inv[r.source].handling = "pending"
          /\ Status(told, r.sink) = "succeeded"
          /\ \E h \in r.handlers : Status(told, h) # "succeeded"

(* The row updates that must find their row in the status they expect.     *)
Unsavable(s) ==
    \E n \in Nodes :
        \/ fact[n] \in Failures /\ row[n] # "running"
        \/ /\ inv[n].status = "waiting"
           /\ Status(s, n) = "ready"
           /\ row[n] # "waiting"
        \/ /\ fact[n] \notin Failures \union {"succeeded"}
           /\ inv[n].status \notin Settled \union {"absent"}
           /\ Status(s, n) \in Settled
           /\ row[n] \notin {"pending", "ready", "waiting"}

SavedRowUnlessRunning(s, admitted, n) ==
    IF \/ Status(s, n) = "running"
       \/ (Status(s, n) = "ready" /\ inv[n].status \in {"pending", "ready"})
      THEN row[n]
    ELSE Status(s, n)


(* A Merge made ready but not admitted keeps its pending row.              *)
SavedRow(s, admitted, n) ==
    IF n \in admitted THEN "ready"
    ELSE IF \/ Status(s, n) = "running"
            \/ (Status(s, n) = "ready" /\ inv[n].status \in {"pending", "ready"})
      THEN row[n]
    ELSE Status(s, n)

SaveAndForget(s, admitted) ==
    /\ run' = [run EXCEPT !.status = s.st, !.cancel = Cancel, !.expired = Expired,
                          !.ended = IF s.st \in EndStatuses THEN "engine" ELSE @]
    /\ inv' = s.inv
    /\ join' = s.join
    /\ choice' = s.choice
    /\ row' = [n \in Nodes |-> SavedRow(s, admitted, n)]
    /\ fact' = [n \in Nodes |-> "none"]
    /\ due' = [n \in Nodes |-> due[n] /\ Status(s, n) = "waiting"]
    /\ wakes' = wakes - 1


(* A plan that changes nothing is not saved, and neither is one for a run  *)
(* that has ended.                                                         *)
Save(s, admitted) ==
    /\ run' = [run EXCEPT !.status = s.st, !.cancel = Cancel, !.expired = Expired,
                          !.ended = IF s.st \in EndStatuses THEN "engine" ELSE @]
    /\ inv' = s.inv
    /\ join' = s.join
    /\ choice' = s.choice
    /\ row' = [n \in Nodes |-> SavedRow(s, admitted, n)]
    /\ fact' = [n \in Nodes |-> "none"]
    /\ due' = [n \in Nodes |-> due[n] /\ Status(s, n) = "waiting"]
    /\ wakes' = IF /\ admitted = {}
                   /\ s.st \in {"running", "waiting"}
                   /\ ~Stopping
                   /\ Ready(s) # {}
                  THEN wakes ELSE wakes - 1

(* failUnadvanceableRun: closes the rows from what the attempts say and    *)
(* replaces the checkpoint.                                                *)
EmergencyRow(n) ==
    IF row[n] \notin Open THEN row[n]
    ELSE IF fact[n] = "unknown" THEN "outcome_unknown"
    ELSE IF fact[n] \in Failures /\ fact[n] # "canceled" THEN "failed"
    ELSE "canceled"

FailUnadvanceable ==
    LET closed == [n \in Nodes |-> EmergencyRow(n)]
    IN  /\ run' = [run EXCEPT
                     !.status = IF \E n \in Nodes : closed[n] = "outcome_unknown"
                                  THEN "outcome_unknown" ELSE "failed",
                     !.ended = "emergency"]
        /\ row' = closed
        /\ inv' = [n \in Nodes |-> Absent]
        /\ join' = [m \in Merges |-> Undeclared]
        /\ choice' = [c \in Choices |-> NoPort]
        /\ fact' = [n \in Nodes |-> "none"]
        /\ due' = [n \in Nodes |-> FALSE]
        /\ wakes' = wakes - 1

Selections ==
    [{c \in Choices : fact[c] = "succeeded"} -> UNION {Ports(c) : c \in Choices}]

Advance ==
    /\ wakes > 0
    /\ run.status \notin EndStatuses
    /\ UNCHANGED graph
    /\ \E sel \in Selections : \E told \in {Told(sel)} :
          /\ \A c \in DOMAIN sel : sel[c] \in Ports(c)
          /\ \E planned \in {Stop(Planned(told))} :
             \E admitted \in Admissions(planned) :
             \E s \in {SettleRun(Admit(planned, admitted))} :
                IF Inconsistent(told) \/ Unsavable(s) THEN FailUnadvanceable
                ELSE Save(s, admitted)

(* A delivery for a run that has ended.                                    *)
Idle ==
    /\ wakes > 0
    /\ run.status \in EndStatuses
    /\ wakes' = wakes - 1
    /\ UNCHANGED <<graph, run, checkpoint, row, fact, due>>

-----------------------------------------------------------------------------
(* The other writers of the run.                                           *)

(* A worker claims the admitted attempt and reports it, in NodeAttempt's   *)
(* way.  A step is interrupted only when the run is to stop; only a first  *)
(* attempt suspends its step, since a resumed one ends it.                 *)
Reports(n) ==
    graph.yields[n]
      \union (IF run.asked \/ run.deadline \in {"past", "woken"} THEN {"canceled"} ELSE {})

Complete(n) ==
    /\ inv[n].status = "running"
    /\ fact[n] = "none"
    /\ \E kind \in Reports(n) :
          /\ kind = "wait" => inv[n].attempt = 1
          /\ fact' = [fact EXCEPT ![n] = kind]
          /\ row' = [row EXCEPT ![n] = CASE kind = "succeeded" -> "succeeded"
                                         [] kind = "wait" -> "waiting"
                                         [] OTHER -> "running"]
    /\ Wake
    /\ UNCHANGED <<graph, run, checkpoint, due>>

(* The timer passes and the scanner inserts its job, once for one due time. *)
Due(n) ==
    /\ row[n] = "waiting"
    /\ ~due[n]
    /\ due' = [due EXCEPT ![n] = TRUE]
    /\ Wake
    /\ UNCHANGED <<graph, run, checkpoint, row, fact>>

RequestCancel ==
    /\ graph.cancelable
    /\ run.status \notin EndStatuses
    /\ ~run.asked
    /\ run' = [run EXCEPT !.asked = TRUE]
    /\ Wake
    /\ UNCHANGED <<graph, checkpoint, row, fact, due>>

(* An advance sees the deadline by the clock, before the scanner wakes it. *)
DeadlinePasses ==
    /\ run.deadline = "ahead"
    /\ run.status \notin EndStatuses
    /\ run' = [run EXCEPT !.deadline = "past"]
    /\ UNCHANGED <<graph, checkpoint, row, fact, due, wakes>>

WakeForDeadline ==
    /\ run.deadline = "past"
    /\ run.status \notin EndStatuses
    /\ run' = [run EXCEPT !.deadline = "woken"]
    /\ Wake
    /\ UNCHANGED <<graph, checkpoint, row, fact, due>>

Init ==
    /\ graph \in Graphs
    /\ run \in [status : {"queued"}, asked : {FALSE}, cancel : {FALSE},
                deadline : IF graph.deadline THEN {"none", "ahead"} ELSE {"none"},
                expired : {FALSE}, ended : {"no"}]
    /\ inv = [n \in Nodes |-> Absent]
    /\ join = [m \in Merges |-> Undeclared]
    /\ choice = [c \in Choices |-> NoPort]
    /\ row = [n \in Nodes |-> "absent"]
    /\ fact = [n \in Nodes |-> "none"]
    /\ due = [n \in Nodes |-> FALSE]
    /\ wakes = 1

Next ==
    \/ Advance
    \/ Idle
    \/ \E n \in Nodes : Complete(n) \/ Due(n)
    \/ RequestCancel
    \/ DeadlinePasses
    \/ WakeForDeadline

Spec == Init /\ [][Next]_vars

(* Delivered jobs, reported attempts and timers; not members or deadlines. *)
FairSpec ==
    /\ Spec
    /\ WF_vars(Advance)
    /\ WF_vars(\E n \in Nodes : Complete(n))
    /\ WF_vars(\E n \in Nodes : Due(n))

-----------------------------------------------------------------------------
(* Properties.                                                             *)

(* Every variable has its type; ledgers exist for declared joins only.     *)
TypeOK ==
    /\ graph \in Graphs
    /\ run \in [status : EndStatuses \union {"queued", "running", "waiting"},
                asked : BOOLEAN, cancel : BOOLEAN, expired : BOOLEAN,
                deadline : {"none", "ahead", "past", "woken"},
                ended : {"no", "engine", "emergency"}]
    /\ inv \in [Nodes -> [status : Settled \union Open \union {"absent"},
                          attempt : 0 .. MaxAttempts + 1,
                          handling : {"none", "pending", "handled"},
                          path : SUBSET (Nodes \X UNION {Ports(n) : n \in DOMAIN graph.ports})]]
    /\ DOMAIN join = Merges
    /\ \A m \in Merges :
          /\ join[m].state \in {"undeclared", "open", "satisfied", "unsatisfied"}
          /\ join[m].state # "undeclared"
               => join[m].ledger \in [Ports(Pair(m)) -> Dispositions]
          /\ join[m].selected \subseteq DOMAIN join[m].ledger
    /\ choice \in [Choices -> {NoPort} \union UNION {Ports(c) : c \in Choices}]
    /\ row \in [Nodes -> Settled \union Open \union {"absent"}]
    /\ fact \in [Nodes -> Failures \union {"none", "succeeded", "wait"}]
    /\ due \in [Nodes -> BOOLEAN]
    /\ wakes \in 0 .. MaxWakes

(* No order of outcomes, timers, cancellation and deadline leads to facts  *)
(* that the engine or the rows refuse: no run ends as unadvanceable.       *)
NeverUnadvanceable == run.ended # "emergency"

(* The rows that operators read and workers claim from never drift from    *)
(* the checkpoint: they differ by the facts not consumed yet and by a      *)
(* Merge that is ready but was not admitted.                               *)
RowsFollow ==
    run.ended # "emergency" =>
        \A n \in Nodes :
            CASE inv[n].status = "running" ->
                   row[n] = CASE fact[n] = "none" -> "ready"
                              [] fact[n] = "succeeded" -> "succeeded"
                              [] fact[n] = "wait" -> "waiting"
                              [] OTHER -> "running"
              [] inv[n].status = "ready" ->
                   row[n] = "ready" \/ (n \in Merges /\ row[n] = "pending")
              [] OTHER -> row[n] = inv[n].status

(* An ended run left nothing open and says the truth: it succeeded only if *)
(* every step ran or was skipped and each failure was handled to the end,  *)
(* it was canceled or timed out only because it was told so, and an unknown *)
(* outcome is never hidden.                                                *)
EndsSettled ==
    run.status \in EndStatuses =>
        /\ \A n \in Nodes : row[n] \notin Open
        /\ run.status = "succeeded" =>
              \A n \in Nodes :
                  \/ row[n] \in {"succeeded", "skipped"}
                  \/ /\ row[n] = "failed"
                     /\ \A h \in RouteOf(n).handlers : row[h] = "succeeded"
        /\ run.status = "canceled" => run.asked
        /\ run.status = "timed_out" => run.deadline \in {"past", "woken"}
        /\ (run.status = "outcome_unknown")
              <=> \E n \in Nodes : row[n] = "outcome_unknown"

(* Everything after the given steps, past the Merges of the Parallels in   *)
(* it: a Merge belongs to its Parallel, not to a Condition that leads to it. *)
Beyond(roots) ==
    Grown(Nodes, roots \ Merges,
          [near \in SUBSET Nodes |->
              near \union {n \in Nodes :
                             /\ Preds(n) \intersect near # {}
                             /\ n \in Merges => Pair(n) \in near}])

(* No attempt is ever admitted for a step of a port that was not selected, *)
(* a disabled step, a handler whose source did not fail, or a step that    *)
(* comes after a source that did: not even across a skipped Parallel, or   *)
(* when the selection, the skip and the failure are consumed in different  *)
(* advances.  A Merge is admitted when its policy is met, disabled or not, *)
(* and after a source that was itself skipped the run goes on.             *)
OnlyChosenPathRuns ==
    /\ \A c \in Choices : choice[c] # NoPort =>
          \A p \in Ports(c) \ {choice[c]} :
              \A n \in Beyond(Roots(c, p)) \ Beyond(Roots(c, choice[c])) :
                  inv[n].attempt = 0
    /\ \A n \in graph.disabled \ Merges : inv[n].attempt = 0
    /\ \A r \in graph.routes :
          /\ \A h \in r.handlers : inv[h].attempt > 0 => row[r.source] = "failed"
          /\ \A n \in r.suffix :
                inv[n].attempt > 0 => row[r.source] \in {"succeeded", "skipped"}

(* A step runs only after what it depends on: all its predecessors ended   *)
(* well or were skipped, or it is the entry of a failed step's handler; a  *)
(* Merge runs only when its policy is met.                                 *)
InOrder ==
    \A n \in Nodes : inv[n].attempt > 0 =>
        IF n \in Merges THEN join[n].state = "satisfied"
        ELSE \A p \in Preds(n) :
                \/ row[p] \in {"succeeded", "skipped"}
                \/ \E r \in graph.routes : r.source = p /\ r.entry = n /\ row[p] = "failed"

(* The ledger of a join is what the rows of its branches say: a branch is  *)
(* closed once, when nothing in it can change any more, with the worst     *)
(* that happened in it, an ended or admitted step never contradicts it     *)
(* afterwards, and the join is decided when every branch is closed.        *)
LedgerTruth ==
    \A m \in Merges : join[m].state # "undeclared" =>
        \A b \in Ports(Pair(m)) :
            IF join[m].ledger[b] = "pending" THEN join[m].state = "open"
            ELSE LET steps == {row[n] : n \in {x \in Nodes : <<Pair(m), b>> \in inv[x].path}}
                 IN  /\ steps \subseteq Settled
                     /\ join[m].ledger[b] =
                           IF steps = {} THEN "missing" ELSE SettledAs(steps)

(* What a join recorded is never revised: a closed branch keeps its        *)
(* disposition, and a decided join its decision and its selected branches. *)
LedgerFixed ==
    [][run'.ended # "emergency" =>
         \A m \in Merges : join[m].state # "undeclared" =>
            /\ \A b \in Ports(Pair(m)) : join[m].ledger[b] # "pending"
                  => join'[m].ledger[b] = join[m].ledger[b]
            /\ join[m].state # "open" => join'[m] = join[m]]_vars

(* A Parallel's maxConcurrency holds over everything its branches contain, *)
(* counted over what the checkpoint holds as running: also when a retry or *)
(* a wait frees a place, another branch takes it and the first comes back. *)
BranchLimit ==
    \A p \in Parallels :
        Cardinality({n \in Nodes : /\ inv[n].status = "running"
                                   /\ \E x \in inv[n].path : x[1] = p})
            <= graph.limit[p]

(* Once a cancellation is recorded or the deadline has passed no attempt   *)
(* is admitted any more, whatever is due, ready or retried by then.        *)
NothingStartsAfterStop ==
    [][run.asked \/ run.deadline \in {"past", "woken"} =>
         \A n \in Nodes : inv'[n].attempt <= inv[n].attempt]_vars

(* Every run ends: no order of outcomes leaves it without an attempt, a    *)
(* timer or an advance job to go on from.                                  *)
RunEnds == <>(run.status \in EndStatuses)
=============================================================================
