--------------------------- MODULE RunGraphProofs ---------------------------
(***************************************************************************)
(* Proofs about RunGraph for every workflow of the shape the publisher     *)
(* accepts, every retry policy and every order of reports, timers, stops   *)
(* and advances.  Each stage of an advance has a lemma: the record it is   *)
(* given is sound (SoundPlan below), and so is the one it returns.         *)
(***************************************************************************)
EXTENDS RunGraph, FiniteSetTheorems, WellFoundedInduction, TLAPS

-----------------------------------------------------------------------------
(* Types of a checkpoint's parts, which the stages of an advance keep.     *)

Statuses == Settled \union Open \union {"absent"}
Paths == SUBSET (Nodes \X UNION {Ports(n) : n \in DOMAIN graph.ports})
Invocation == [status : Statuses, attempt : 0 .. MaxAttempts + 1,
               handling : {"none", "pending", "handled"}, path : Paths]
DeclaredJoin(m) ==
    [state : {"open", "satisfied", "unsatisfied"},
     ledger : [Ports(Pair(m)) -> Dispositions], selected : SUBSET Ports(Pair(m))]
JoinOf(m) == {Undeclared} \union DeclaredJoin(m)
Selectable == {NoPort} \union UNION {Ports(c) : c \in Choices}

(* A plan in the making, as Loaded begins it.                              *)
Plan(s) ==
    /\ s = [st |-> s.st, inv |-> s.inv, join |-> s.join, choice |-> s.choice]
    /\ s.st \in EndStatuses \union {"queued", "running", "waiting"}
    /\ s.inv \in [Nodes -> Invocation]
    /\ s.join = [m \in Merges |-> s.join[m]]
    /\ \A m \in Merges : s.join[m] \in JoinOf(m)
    /\ s.choice \in [Choices -> Selectable]

(* The graph as the stages use it.                                         *)
LEMMA Shape ==
    ASSUME graph \in Graphs
    PROVE  /\ IsFiniteSet(Nodes)
           /\ Choices \subseteq Nodes \intersect DOMAIN graph.ports
           /\ Parallels \subseteq Nodes \intersect DOMAIN graph.ports
           /\ Merges \subseteq Nodes
           /\ \A n : Preds(n) \subseteq Nodes
           /\ Merges \intersect (Choices \union Parallels) = {}
           /\ \A m \in Merges : Pair(m) \in Parallels /\ graph.need[m] \in Nat
           /\ \A p \in Parallels : graph.limit[p] \in Nat
           /\ \A n \in DOMAIN graph.ports : Ports(n) \subseteq Nat
           /\ \A r \in graph.routes : r.source \in Nodes \ Merges
           /\ \A r \in graph.routes : r.handlers \subseteq Nodes
           /\ \A r \in graph.routes : r.entry \in r.handlers /\ r.sink \in r.handlers
           /\ \A n \in Nodes :
                 graph.yields[n] \subseteq {"succeeded", "wait", "retry", "fatal",
                                           "unclassified", "unknown"}
<1>1. GraphShape(graph)
  BY GraphsAssumption
<1>2. \A r \in graph.routes :
         r.source \in Nodes \ Merges /\ r.handlers \subseteq Nodes
           /\ r.entry \in r.handlers /\ r.sink \in r.handlers
  <2>1. \A r \in graph.routes : RouteShape(graph, r)
    BY <1>1 DEF GraphShape
  <2> QED
    BY <2>1 DEF RouteShape, Nodes, Merges
<1>3. \A n : Preds(n) \subseteq Nodes
  BY <1>1 DEF GraphShape, Preds, Edges, Nodes
<1> QED
  BY <1>1, <1>2, <1>3 DEF GraphShape, Nodes, Choices, Parallels, Merges, Pair, Ports

LEMMA AbsentTyped == Absent \in Invocation /\ \A m : Undeclared \in JoinOf(m)
<1>1. 0 \in 0 .. MaxAttempts + 1
  BY BoundsAssumption
<1>2. {} \in Paths
  BY DEF Paths
<1> QED
  BY <1>1, <1>2 DEF Absent, Invocation, Statuses, JoinOf

(* A path derived for a step is one of the graph.                          *)
LEMMA PathTyped ==
    ASSUME graph \in Graphs, NEW s, Plan(s), NEW n \in Nodes
    PROVE  PathOf(s, n) \in Paths
<1>1. \A m \in Nodes : s.inv[m].path \in Paths
  BY DEF Plan, Invocation
<1>2. Decided(s) \union Entered(s) \subseteq Nodes
  BY Shape DEF Decided, Entered
<1>3. \A r \in Taken(s) \union Unneeded(s) : r.source \in Nodes
  BY Shape DEF Taken, Unneeded
<1>4. \A m \in Merges : Pair(m) \in Nodes
  BY Shape
<1> QED
  BY <1>1, <1>2, <1>3, <1>4 DEF PathOf, Paths

-----------------------------------------------------------------------------
(* The inductive invariant, in named parts.                                *)

TimeUp == run.deadline \in {"past", "woken"}
Unsent == {"absent", "pending", "ready", "waiting"}

Types ==
    /\ graph \in Graphs
    /\ run \in [status : EndStatuses \union {"queued", "running", "waiting"},
                asked : BOOLEAN, cancel : BOOLEAN, expired : BOOLEAN,
                deadline : {"none", "ahead", "past", "woken"},
                ended : {"no", "engine", "emergency"}]
    /\ Plan(Loaded)
    /\ row \in [Nodes -> Statuses]
    /\ fact \in [Nodes -> Failures \union {"none", "succeeded", "wait"}]
    /\ due \in [Nodes -> BOOLEAN]
    /\ wakes \in 0 .. MaxWakes

(* A fact is of a step that runs, and only a first attempt waits.          *)
FactsOfRunning ==
    \A n \in Nodes :
        /\ fact[n] # "none" => inv[n].status = "running"
        /\ fact[n] = "wait" => inv[n].attempt = 1
        /\ fact[n] = "canceled" => run.asked \/ TimeUp

(* A stop that a plan or a step has seen was asked for or is due.          *)
ToldToStop ==
    /\ run.cancel => run.asked
    /\ run.expired => TimeUp

(* An ended run has no open invocation, one that was given up has none.    *)
EndedClosed ==
    /\ run.ended # "no" => run.status \in EndStatuses
    /\ run.ended = "emergency" => \A n \in Nodes : inv[n] = Absent
    /\ run.status \in EndStatuses => \A n \in Nodes : inv[n].status \notin Open

(* One invocation v of step n, however it came about: a step that may be   *)
(* admitted has an attempt left, a handled failure is a routed one, and a  *)
(* stop it ended by was asked for or is due.                               *)
SoundStep(n, v) ==
    /\ v.status \in Unsent => v.attempt <= MaxAttempts
    /\ v.status = "pending" => n \in Merges
    /\ v.handling # "none" => v.status = "failed" /\ Routed(n)
    /\ v.status = "canceled" => run.asked \/ TimeUp
    /\ v.status = "timed_out" => TimeUp

(* A handled failure's handler has run to its end.                         *)
HandledWell(s) ==
    \A n \in Nodes : s.inv[n].handling = "handled" =>
        \A h \in RouteOf(n).handlers : Status(s, h) = "succeeded"

(* A decided join has a disposition for every branch.                      *)
DecidedClosed(s) ==
    \A m \in Merges : s.join[m].state \in {"satisfied", "unsatisfied"} =>
        \A b \in Ports(Pair(m)) : s.join[m].ledger[b] # "pending"

(* What is admitted, or was, came after all it depends on.                 *)
UnderWay(v) == v.status \in {"ready", "running", "waiting"} \/ v.attempt > 0
InTurn(s, n) ==
    IF n \in Merges THEN s.join[n].state = "satisfied"
    ELSE \A p \in Preds(n) : Passed(s, p, n)
Ordered(s) == \A n \in Nodes : UnderWay(s.inv[n]) => InTurn(s, n)

SoundPlan(s) ==
    /\ Plan(s)
    /\ \A n \in Nodes : SoundStep(n, s.inv[n])
    /\ HandledWell(s)
    /\ DecidedClosed(s)
    /\ Ordered(s)

RunInv ==
    /\ Types
    /\ FactsOfRunning
    /\ ToldToStop
    /\ EndedClosed
    /\ SoundPlan(Loaded)
    /\ RowsFollow
    /\ BranchLimit

-----------------------------------------------------------------------------
(* What a plan may change of the checkpoint, before it admits attempts.    *)

(* No attempt is counted, what runs is untouched and has nothing reported, *)
(* and what is settled keeps its status.                                   *)
KeepsStep(n, v) ==
    /\ v.attempt <= inv[n].attempt
    /\ v.status = "running" => v = inv[n] /\ fact[n] = "none"
    /\ inv[n].status \in Settled => v.status = inv[n].status

(* A closed branch keeps its disposition and a decided join everything.    *)
KeepsJoin(m, j) ==
    join[m].state # "undeclared" =>
        /\ j.state # "undeclared"
        /\ \A b \in Ports(Pair(m)) : join[m].ledger[b] # "pending"
              => j.ledger[b] = join[m].ledger[b]
        /\ join[m].state # "open" => j = join[m]

Keeps(s) ==
    /\ SoundPlan(s)
    /\ s.st \in {run.status, "running"}
    /\ \A n \in Nodes : KeepsStep(n, s.inv[n])
    /\ \A m \in Merges : KeepsJoin(m, s.join[m])

(* From one stage to the next, what is settled or satisfied stays so.      *)
SettledStay(s, t) ==
    \A n \in Nodes : Status(s, n) \in Settled =>
        /\ Status(t, n) = Status(s, n)
        /\ s.inv[n].handling # "none" => t.inv[n].handling # "none"
SatisfiedStay(s, t) ==
    \A m \in Merges : s.join[m].state = "satisfied" => t.join[m].state = "satisfied"

LEMMA StartKeeps ==
    ASSUME RunInv, NEW t, t = Start(Loaded)
    PROVE  /\ Plan(t) /\ t.join = join /\ t.choice = choice /\ t.st \in {run.status, "running"}
           /\ \A n \in Nodes :
                 \/ t.inv[n] = inv[n]
                 \/ /\ inv[n].status = "waiting" /\ due[n] /\ ~Stopping
                    /\ t.inv[n] = [inv[n] EXCEPT !.status = "ready"]
<1> DEFINE over == IF Stopping THEN {}
                   ELSE {n \in Nodes : inv[n].status = "waiting" /\ due[n]}
           st == IF ~Stopping /\ (run.status = "queued" \/ (run.status = "waiting" /\ over # {}))
                   THEN "running" ELSE run.status
           new == [n \in Nodes |-> IF n \in over THEN [inv[n] EXCEPT !.status = "ready"]
                                   ELSE inv[n]]
<1>1. /\ run.status \in EndStatuses \union {"queued", "running", "waiting"}
      /\ \A n \in Nodes : inv[n] \in Invocation
      /\ join = [m \in Merges |-> join[m]] /\ \A m \in Merges : join[m] \in JoinOf(m)
      /\ choice \in [Choices -> Selectable]
  BY DEF RunInv, Types, Plan, Loaded
<1>2. t = [st |-> st, inv |-> new, join |-> join, choice |-> choice]
  BY DEF Start, Loaded
<1>3. \A n \in Nodes :
         \/ new[n] = inv[n]
         \/ /\ inv[n].status = "waiting" /\ due[n] /\ ~Stopping
            /\ new[n] = [inv[n] EXCEPT !.status = "ready"]
  OBVIOUS
<1>4. \A v \in Invocation : [v EXCEPT !.status = "ready"] \in Invocation
  BY DEF Invocation, Statuses, Open
<1>5. new \in [Nodes -> Invocation]
  BY <1>1, <1>4
<1>6. /\ st \in EndStatuses \union {"queued", "running", "waiting"}
      /\ st \in {run.status, "running"}
  BY <1>1
<1> HIDE DEF st, new, over
<1>7. Plan(t)
  BY <1>1, <1>2, <1>5, <1>6 DEF Plan
<1> QED
  BY <1>2, <1>3, <1>6, <1>7

(* Outcomes: whatever stops the run, retries or is routed.                 *)
LEMMA OutcomeFacts ==
    ASSUME RunInv, NEW n \in Nodes, fact[n] # "none"
    PROVE  /\ Outcome(n) \in Settled \union {"waiting"}
           /\ Outcome(n) = "waiting" => inv[n].attempt <= MaxAttempts
           /\ Outcome(n) = "canceled" => run.asked \/ TimeUp
           /\ Outcome(n) = "timed_out" => TimeUp
<1>1. /\ inv[n].status = "running" /\ inv[n].attempt \in 0 .. MaxAttempts + 1
      /\ fact[n] \in Failures \union {"succeeded", "wait"}
      /\ fact[n] = "wait" => inv[n].attempt = 1
      /\ fact[n] = "canceled" => run.asked \/ TimeUp
  <2>1. inv[n] \in Invocation
    BY DEF RunInv, Types, Plan, Loaded
  <2> QED
    BY <2>1 DEF RunInv, Types, FactsOfRunning, Invocation
<1>2. /\ Cancel => run.asked
      /\ Expired => TimeUp
      /\ run.asked \/ TimeUp => Stopping
  BY DEF RunInv, ToldToStop, Cancel, Expired, Stopping, TimeUp
<1>3. 1 <= MaxAttempts
  BY BoundsAssumption
<1>4. Outcome(n) = "waiting" => fact[n] = "wait" \/ inv[n].attempt < MaxAttempts
  BY <1>1 DEF Outcome, Failures
<1>5. Outcome(n) \in Settled \union {"waiting"}
  BY <1>1 DEF Outcome, Failures, Settled
<1>6. Outcome(n) = "canceled" => Cancel \/ (fact[n] = "canceled" /\ ~Stopping)
  BY <1>1 DEF Outcome, Failures
<1>7. Outcome(n) = "timed_out" => Expired
  BY <1>1 DEF Outcome, Failures
<1>8. Outcome(n) = "waiting" => inv[n].attempt <= MaxAttempts
  BY <1>1, <1>3, <1>4, BoundsAssumption
<1> QED
  BY <1>1, <1>2, <1>5, <1>6, <1>7, <1>8

(* The handler a routed step is given is one of the graph's.               *)
LEMMA RouteFacts ==
    ASSUME graph \in Graphs, NEW n \in Nodes, Routed(n)
    PROVE  /\ RouteOf(n) \in graph.routes /\ RouteOf(n).source = n
           /\ RouteOf(n).handlers \subseteq Nodes /\ RouteOf(n).sink \in RouteOf(n).handlers
<1>1. RouteOf(n) \in graph.routes /\ RouteOf(n).source = n
  BY DEF Routed, RouteOf
<1> QED
  BY <1>1, Shape

(* What was handled stays so while what succeeded does.                    *)
LEMMA HandledStays ==
    ASSUME graph \in Graphs, NEW s, NEW t,
           \A n \in Nodes : SoundStep(n, s.inv[n]), HandledWell(s), SettledStay(s, t),
           \A n \in Nodes : t.inv[n].handling = "handled" => s.inv[n].handling = "handled"
    PROVE  HandledWell(t)
<1> SUFFICES ASSUME NEW n \in Nodes, t.inv[n].handling = "handled",
                    NEW h \in RouteOf(n).handlers
             PROVE  Status(t, h) = "succeeded"
  BY DEF HandledWell
<1>1. s.inv[n].handling = "handled"
  OBVIOUS
<1>2. Routed(n)
  BY <1>1 DEF SoundStep
<1>3. h \in Nodes
  BY <1>2, RouteFacts
<1> QED
  BY <1>1, <1>3 DEF HandledWell, SettledStay, Settled

(* What came in turn once did.                                             *)
LEMMA TurnStays ==
    ASSUME graph \in Graphs, NEW s, NEW t, \A n \in Nodes : SoundStep(n, s.inv[n]),
           SettledStay(s, t), SatisfiedStay(s, t), NEW n \in Nodes, InTurn(s, n)
    PROVE  InTurn(t, n)
<1>1. CASE n \in Merges
  BY <1>1 DEF InTurn, SatisfiedStay
<1>2. CASE n \notin Merges
  <2> SUFFICES ASSUME NEW p \in Preds(n) PROVE Passed(t, p, n)
    BY <1>2 DEF InTurn
  <2>1. p \in Nodes /\ Passed(s, p, n)
    BY <1>2, Shape DEF InTurn
  <2>2. Taken(s) \subseteq Taken(t)
    <3> SUFFICES ASSUME NEW r \in graph.routes, s.inv[r.source].handling # "none"
                 PROVE  t.inv[r.source].handling # "none"
      BY DEF Taken
    <3>1. r.source \in Nodes
      BY Shape
    <3>2. Status(s, r.source) = "failed"
      BY <3>1 DEF SoundStep, Status
    <3> QED
      BY <3>1, <3>2 DEF SettledStay, Settled
  <2>3. Status(s, p) \in {"succeeded", "skipped"} => Status(t, p) \in {"succeeded", "skipped"}
    BY <2>1 DEF SettledStay, Settled
  <2> QED
    BY <2>1, <2>2, <2>3 DEF Passed
<1> QED
  BY <1>1, <1>2

LEMMA ConsumeKeeps ==
    ASSUME RunInv, NEW sel \in Selections, NEW t, t = Start(Loaded),
           NEW u, u = Consume(t, sel)
    PROVE  /\ Keeps(u) /\ u.join = join /\ u.st = t.st
           /\ \A n \in Nodes : u.inv[n].path = inv[n].path
<1> DEFINE new == [n \in Nodes |->
                     IF fact[n] = "none" THEN t.inv[n]
                     ELSE [t.inv[n] EXCEPT
                             !.status = Outcome(n),
                             !.handling = IF /\ Outcome(n) = "failed"
                                             /\ fact[n] # "unclassified" /\ Routed(n)
                                            THEN "pending" ELSE @]]
           chosen == IF Cancel THEN choice
                     ELSE [n \in Choices |-> IF n \in DOMAIN sel THEN sel[n] ELSE choice[n]]
<1>1. /\ Plan(t) /\ t.join = join /\ t.choice = choice /\ t.st \in {run.status, "running"}
      /\ \A n \in Nodes :
            \/ t.inv[n] = inv[n]
            \/ /\ inv[n].status = "waiting"
               /\ t.inv[n] = [inv[n] EXCEPT !.status = "ready"]
  BY StartKeeps
<1>2. /\ graph \in Graphs /\ \A n \in Nodes : inv[n] \in Invocation /\ t.inv[n] \in Invocation
      /\ \A n \in Nodes : SoundStep(n, inv[n])
      /\ \A n \in Nodes : fact[n] # "none" => inv[n].status = "running"
      /\ HandledWell(Loaded) /\ DecidedClosed(Loaded)
  BY <1>1 DEF RunInv, Types, Plan, Loaded, FactsOfRunning, SoundPlan
<1>3. u = [st |-> t.st, inv |-> new, join |-> join, choice |-> chosen]
  BY <1>1 DEF Consume, Plan
<1>4. \A n \in Nodes : fact[n] # "none" =>
         /\ t.inv[n] = inv[n] /\ new[n].status = Outcome(n)
         /\ new[n].attempt = inv[n].attempt /\ new[n].path = inv[n].path
         /\ new[n].handling = IF Outcome(n) = "failed" /\ fact[n] # "unclassified" /\ Routed(n)
                                THEN "pending" ELSE inv[n].handling
         /\ new[n] \in Invocation
  <2> SUFFICES ASSUME NEW n \in Nodes, fact[n] # "none"
               PROVE  /\ t.inv[n] = inv[n] /\ new[n].status = Outcome(n)
                      /\ new[n].attempt = inv[n].attempt /\ new[n].path = inv[n].path
                      /\ new[n].handling = IF /\ Outcome(n) = "failed"
                                             /\ fact[n] # "unclassified" /\ Routed(n)
                                            THEN "pending" ELSE inv[n].handling
                      /\ new[n] \in Invocation
    OBVIOUS
  <2>1. t.inv[n] = inv[n] /\ inv[n] \in Invocation
    BY <1>1, <1>2
  <2>2. Outcome(n) \in Statuses
    BY OutcomeFacts DEF Statuses, Open
  <2>3. PICK h \in {"none", "pending", "handled"} :
           h = IF Outcome(n) = "failed" /\ fact[n] # "unclassified" /\ Routed(n)
                 THEN "pending" ELSE inv[n].handling
    BY <2>1 DEF Invocation
  <2>4. new[n] = [inv[n] EXCEPT !.status = Outcome(n), !.handling = h]
    BY <2>1, <2>3
  <2> HIDE DEF new
  <2>5. new[n] \in Invocation /\ new[n].status = Outcome(n) /\ new[n].handling = h
        /\ new[n].attempt = inv[n].attempt /\ new[n].path = inv[n].path
    BY <2>1, <2>2, <2>4 DEF Invocation
  <2> QED
    BY <2>1, <2>3, <2>5
<1>5. \A n \in Nodes : fact[n] = "none" => new[n] = t.inv[n]
  OBVIOUS
<1>6. \A n \in Nodes : fact[n] = "none" =>
         /\ new[n].attempt = inv[n].attempt /\ new[n].path = inv[n].path
         /\ new[n].handling = inv[n].handling
         /\ new[n] = inv[n] \/ (inv[n].status = "waiting" /\ new[n].status = "ready")
  <2> SUFFICES ASSUME NEW n \in Nodes, fact[n] = "none"
               PROVE  /\ new[n].attempt = inv[n].attempt /\ new[n].path = inv[n].path
                      /\ new[n].handling = inv[n].handling
                      /\ \/ new[n] = inv[n]
                         \/ inv[n].status = "waiting" /\ new[n].status = "ready"
    OBVIOUS
  <2> HIDE DEF new
  <2>1. new[n] = t.inv[n] /\ inv[n] \in Invocation
    BY <1>2, <1>5
  <2>2. CASE t.inv[n] = inv[n]
    BY <2>1, <2>2
  <2>3. CASE inv[n].status = "waiting" /\ t.inv[n] = [inv[n] EXCEPT !.status = "ready"]
    BY <2>1, <2>3 DEF Invocation
  <2> QED
    BY <1>1, <2>2, <2>3
<1>7. new \in [Nodes -> Invocation]
  BY <1>2, <1>4
<1>8. chosen \in [Choices -> Selectable]
  <2>1. choice \in [Choices -> Selectable]
    BY <1>1 DEF Plan
  <2>2. \A n \in DOMAIN sel : sel[n] \in Selectable
    BY DEF Selections, Selectable
  <2> QED
    BY <2>1, <2>2
<1> HIDE DEF new, chosen
<1>9. Plan(u)
  BY <1>1, <1>3, <1>7, <1>8 DEF Plan
<1>10. \A n \in Nodes : SoundStep(n, u.inv[n]) /\ KeepsStep(n, u.inv[n])
  <2> SUFFICES ASSUME NEW n \in Nodes
               PROVE  SoundStep(n, new[n]) /\ KeepsStep(n, new[n])
    BY <1>3
  <2>1. CASE fact[n] = "none"
    <3>1. inv[n].attempt \in Nat
      BY <1>2 DEF Invocation
    <3> QED
      BY <1>2, <1>6, <2>1, <3>1 DEF SoundStep, KeepsStep, Settled, Unsent
  <2>2. CASE fact[n] # "none"
    <3>1. /\ Outcome(n) \in Settled \union {"waiting"}
          /\ Outcome(n) = "waiting" => inv[n].attempt <= MaxAttempts
          /\ Outcome(n) = "canceled" => run.asked \/ TimeUp
          /\ Outcome(n) = "timed_out" => TimeUp
      BY <2>2, OutcomeFacts
    <3>2. inv[n].status = "running" /\ inv[n].handling = "none" /\ inv[n].attempt \in Nat
      BY <1>2, <2>2 DEF SoundStep, Invocation
    <3> QED
      BY <1>4, <2>2, <3>1, <3>2 DEF SoundStep, KeepsStep, Settled, Unsent
  <2> QED
    BY <2>1, <2>2
<1>11. HandledWell(u)
  <2>1. SettledStay(Loaded, u)
    BY <1>2, <1>3, <1>6 DEF SettledStay, Status, Loaded, Settled
  <2>2. \A n \in Nodes : u.inv[n].handling = "handled" => Loaded.inv[n].handling = "handled"
    BY <1>3, <1>4, <1>6 DEF Loaded
  <2>3. \A n \in Nodes : SoundStep(n, Loaded.inv[n])
    BY <1>2 DEF Loaded
  <2> QED
    BY <1>2, <2>1, <2>2, <2>3, HandledStays
<1>12. u.join = join /\ u.st = t.st /\ \A n \in Nodes : u.inv[n].path = inv[n].path
  BY <1>3, <1>4, <1>6
<1>13. DecidedClosed(u) /\ \A m \in Merges : KeepsJoin(m, u.join[m])
  BY <1>2, <1>12 DEF DecidedClosed, KeepsJoin, Loaded
<1>14. Ordered(u)
  <2> SUFFICES ASSUME NEW n \in Nodes, UnderWay(u.inv[n]) PROVE InTurn(u, n)
    BY DEF Ordered
  <2>1. UnderWay(inv[n])
    BY <1>2, <1>3, <1>4, <1>6 DEF UnderWay
  <2>2. InTurn(Loaded, n)
    BY <2>1 DEF RunInv, SoundPlan, Ordered, Loaded
  <2>3. /\ SettledStay(Loaded, u) /\ SatisfiedStay(Loaded, u)
        /\ \A k \in Nodes : SoundStep(k, Loaded.inv[k])
    BY <1>2, <1>3, <1>6, <1>12 DEF SettledStay, SatisfiedStay, Status, Loaded, Settled
  <2> QED
    BY <1>2, <2>2, <2>3, TurnStays
<1> QED
  BY <1>1, <1>9, <1>10, <1>11, <1>12, <1>13, <1>14 DEF Keeps, SoundPlan

(* A stage that leaves a step alone, or changes it soundly while it has    *)
(* not succeeded, keeps the plan sound.                                    *)
LEMMA StepsChange ==
    ASSUME graph \in Graphs, NEW s, Keeps(s), NEW t, Plan(t),
           \A n \in Nodes :
              \/ t.inv[n] = s.inv[n]
              \/ /\ SoundStep(n, t.inv[n]) /\ KeepsStep(n, t.inv[n])
                 /\ s.inv[n].status \notin Settled /\ t.inv[n].handling # "handled"
                 /\ UnderWay(t.inv[n]) => UnderWay(s.inv[n]) \/ InTurn(t, n),
           \A m \in Merges : KeepsJoin(m, t.join[m]), DecidedClosed(t), t.st = s.st,
           SatisfiedStay(s, t)
    PROVE  Keeps(t) /\ SettledStay(s, t)
<1>1. \A n \in Nodes : SoundStep(n, s.inv[n]) /\ KeepsStep(n, s.inv[n])
  BY DEF Keeps, SoundPlan
<1>2. \A n \in Nodes : SoundStep(n, t.inv[n]) /\ KeepsStep(n, t.inv[n])
  BY <1>1
<1>3. SettledStay(s, t)
  BY DEF SettledStay, Status
<1>4. HandledWell(t)
  BY <1>1, <1>3, HandledStays DEF Keeps, SoundPlan
<1>5. Ordered(t)
  <2> SUFFICES ASSUME NEW n \in Nodes, UnderWay(t.inv[n]) PROVE InTurn(t, n)
    BY DEF Ordered
  <2>1. UnderWay(s.inv[n]) \/ InTurn(t, n)
    OBVIOUS
  <2>2. UnderWay(s.inv[n]) => InTurn(s, n)
    BY DEF Keeps, SoundPlan, Ordered
  <2> QED
    BY <1>1, <1>3, <2>1, <2>2, TurnStays
<1> QED
  BY <1>2, <1>3, <1>4, <1>5 DEF Keeps, SoundPlan

(* A step that a plan makes known.                                         *)
LEMMA FreshStep ==
    ASSUME RunInv, NEW n \in Nodes, NEW v \in Invocation, KeepsStep(n, v),
           v.status = "absent",
           NEW w, w = [Absent EXCEPT !.status = w.status, !.path = w.path], w.path \in Paths,
           w.status \in {"pending", "ready", "skipped"}, w.status = "pending" => n \in Merges
    PROVE  /\ w \in Invocation /\ SoundStep(n, w) /\ KeepsStep(n, w)
           /\ w.handling = "none" /\ w.attempt = 0
<1>1. inv[n].attempt \in 0 .. MaxAttempts + 1 /\ 0 \in 0 .. MaxAttempts + 1 /\ 0 <= MaxAttempts
  <2>1. inv[n] \in Invocation
    BY DEF RunInv, Types, Plan, Loaded
  <2> QED
    BY <2>1, BoundsAssumption DEF Invocation
<1>2. w \in Invocation
  BY <1>1, AbsentTyped DEF Invocation, Statuses, Settled, Open
<1>3. w.handling = "none" /\ w.attempt = 0
  BY DEF Absent
<1>4. inv[n].status \notin Settled
  BY DEF KeepsStep, Settled
<1>5. SoundStep(n, w)
  BY <1>1, <1>3 DEF SoundStep, Unsent
<1>6. KeepsStep(n, w)
  BY <1>1, <1>3, <1>4 DEF KeepsStep
<1> QED
  BY <1>2, <1>3, <1>5, <1>6

(* A step that a decision or a stop moves on.                              *)
LEMMA MovedStep ==
    ASSUME NEW n \in Nodes, NEW v \in Invocation, SoundStep(n, v), KeepsStep(n, v),
           v.status \in {"pending", "ready", "waiting"},
           NEW w, w = [v EXCEPT !.status = w.status],
           w.status \in {"ready", "failed", "canceled", "timed_out"},
           w.status = "canceled" => run.asked \/ TimeUp, w.status = "timed_out" => TimeUp
    PROVE  /\ w \in Invocation /\ SoundStep(n, w) /\ KeepsStep(n, w)
           /\ w.path = v.path /\ w.handling = "none" /\ w.attempt = v.attempt
<1>1. /\ w \in Invocation /\ w.path = v.path
      /\ w.handling = v.handling /\ w.attempt = v.attempt
  BY DEF Invocation, Statuses, Settled, Open
<1>2. v.handling = "none" /\ v.attempt <= MaxAttempts
  BY DEF SoundStep, Unsent
<1>3. inv[n].status \notin Settled /\ v.attempt <= inv[n].attempt
  BY DEF KeepsStep, Settled
<1>4. SoundStep(n, w)
  BY <1>1, <1>2 DEF SoundStep
<1>5. KeepsStep(n, w)
  BY <1>1, <1>3 DEF KeepsStep
<1> QED
  BY <1>1, <1>2, <1>4, <1>5

LEMMA DeclareKeeps ==
    ASSUME RunInv, NEW s, Keeps(s), s.join = join, NEW t, t = Declare(s)
    PROVE  Keeps(t) /\ SettledStay(s, t)
<1> DEFINE fresh == IF Cancel THEN {} ELSE {m \in Declared : s.join[m].state = "undeclared"}
           opened(m) == [state |-> "open", ledger |-> NewLedger(m), selected |-> {}]
           joins == [m \in Merges |-> IF m \in fresh THEN opened(m) ELSE s.join[m]]
           made(n) == [Absent EXCEPT !.status = "pending", !.path = s.inv[Pair(n)].path]
           new == [n \in Nodes |-> IF n \in fresh /\ s.inv[n].status = "absent"
                                     THEN made(n) ELSE s.inv[n]]
<1>1. /\ graph \in Graphs /\ Plan(s) /\ \A n \in Nodes : s.inv[n] \in Invocation
      /\ \A n \in Nodes : SoundStep(n, s.inv[n]) /\ KeepsStep(n, s.inv[n])
      /\ \A m \in Merges : KeepsJoin(m, s.join[m]) /\ s.join[m] \in JoinOf(m)
      /\ DecidedClosed(s)
  BY DEF RunInv, Types, Keeps, SoundPlan, Plan
<1>2. t = [st |-> s.st, inv |-> new, join |-> joins, choice |-> s.choice]
  BY <1>1 DEF Declare, Plan
<1>3. fresh \subseteq Merges
  BY DEF Declared
<1>4. \A m \in Merges : opened(m) \in JoinOf(m)
  BY DEF NewLedger, JoinOf, DeclaredJoin, Dispositions
<1>5. ASSUME NEW n \in Nodes, n \in fresh, s.inv[n].status = "absent"
      PROVE  /\ made(n) \in Invocation /\ SoundStep(n, made(n)) /\ KeepsStep(n, made(n))
             /\ made(n).handling = "none" /\ ~UnderWay(made(n))
  <2>1. n \in Merges /\ Pair(n) \in Nodes
    BY <1>1, <1>3, <1>5, Shape
  <2>2. s.inv[Pair(n)].path \in Paths
    BY <1>1, <2>1 DEF Invocation
  <2>3. s.inv[n] \in Invocation /\ KeepsStep(n, s.inv[n])
    BY <1>1
  <2>4. /\ made(n).status = "pending" /\ made(n).path = s.inv[Pair(n)].path
        /\ made(n) = [Absent EXCEPT !.status = made(n).status, !.path = made(n).path]
    BY DEF Absent
  <2> HIDE DEF made
  <2>5. /\ made(n) \in Invocation /\ SoundStep(n, made(n)) /\ KeepsStep(n, made(n))
        /\ made(n).handling = "none" /\ made(n).attempt = 0
    BY <1>5, <2>1, <2>2, <2>3, <2>4, FreshStep
  <2> QED
    BY <2>4, <2>5 DEF UnderWay
<1> HIDE DEF made, opened
<1>6. new \in [Nodes -> Invocation]
  BY <1>1, <1>5
<1>7. joins = [m \in Merges |-> joins[m]] /\ \A m \in Merges : joins[m] \in JoinOf(m)
  BY <1>1, <1>4
<1>8. \A m \in Merges : joins[m] = s.join[m] \/ (join[m].state = "undeclared" /\ joins[m].state = "open")
  BY DEF opened
<1>9. \A n \in Nodes : \/ new[n] = s.inv[n]
                       \/ /\ SoundStep(n, new[n]) /\ KeepsStep(n, new[n])
                          /\ s.inv[n].status \notin Settled /\ new[n].handling # "handled"
                          /\ ~UnderWay(new[n])
  BY <1>5 DEF Settled
<1> HIDE DEF new, joins
<1>10. Plan(t)
  BY <1>1, <1>2, <1>6, <1>7 DEF Plan
<1>11. /\ DecidedClosed(t) /\ \A m \in Merges : KeepsJoin(m, t.join[m])
       /\ SatisfiedStay(s, t)
  BY <1>1, <1>2, <1>8 DEF DecidedClosed, KeepsJoin, SatisfiedStay
<1> QED
  BY <1>1, <1>2, <1>9, <1>10, <1>11, StepsChange

LEMMA RecordKeeps ==
    ASSUME RunInv, NEW s, Keeps(s), NEW t, t = Record(s)
    PROVE  Keeps(t) /\ t.inv = s.inv
<1> DEFINE entered(m) == [b \in Ports(Pair(m)) |->
                            IF s.join[m].ledger[b] = "pending" THEN Disposition(m, b)
                            ELSE s.join[m].ledger[b]]
           joins == [m \in Merges |->
                       IF m \notin Declared \/ s.join[m].state = "undeclared" THEN s.join[m]
                       ELSE [s.join[m] EXCEPT !.ledger = entered(m)]]
<1>1. /\ graph \in Graphs /\ Plan(s)
      /\ \A m \in Merges : KeepsJoin(m, s.join[m]) /\ s.join[m] \in JoinOf(m)
      /\ DecidedClosed(s)
  BY DEF RunInv, Types, Keeps, SoundPlan, Plan
<1>2. t = [st |-> s.st, inv |-> s.inv, join |-> joins, choice |-> s.choice]
  BY <1>1 DEF Record, Plan
<1>3. \A m \in Merges : \A b \in Ports(Pair(m)) : Disposition(m, b) \in Dispositions
  BY DEF Disposition, SettledAs, Dispositions
<1>4. ASSUME NEW m \in Merges
      PROVE  /\ joins[m] \in JoinOf(m)
             /\ joins[m].state = s.join[m].state
             /\ joins[m].state \in {"undeclared", "open", "satisfied", "unsatisfied"}
             /\ s.join[m].state # "undeclared" =>
                  \A b \in Ports(Pair(m)) : s.join[m].ledger[b] # "pending"
                     => joins[m].ledger[b] = s.join[m].ledger[b]
             /\ s.join[m].state \in {"satisfied", "unsatisfied"} => joins[m] = s.join[m]
  <2>1. CASE m \notin Declared \/ s.join[m].state = "undeclared"
    BY <1>1, <2>1 DEF JoinOf, DeclaredJoin, Undeclared
  <2>2. CASE ~(m \notin Declared \/ s.join[m].state = "undeclared")
    <3>1. s.join[m] \in DeclaredJoin(m)
      BY <1>1, <2>2 DEF JoinOf, Undeclared
    <3>2. entered(m) \in [Ports(Pair(m)) -> Dispositions]
      BY <1>3, <3>1 DEF DeclaredJoin
    <3>3. joins[m] = [s.join[m] EXCEPT !.ledger = entered(m)]
      BY <2>2
    <3>4. \A b \in Ports(Pair(m)) : s.join[m].ledger[b] # "pending"
             => entered(m)[b] = s.join[m].ledger[b]
      OBVIOUS
    <3>5. (\A b \in Ports(Pair(m)) : s.join[m].ledger[b] # "pending")
             => entered(m) = s.join[m].ledger
      BY <3>1 DEF DeclaredJoin
    <3> HIDE DEF entered, joins
    <3>6. /\ joins[m] \in DeclaredJoin(m) /\ joins[m].state = s.join[m].state
          /\ joins[m].ledger = entered(m)
          /\ entered(m) = s.join[m].ledger => joins[m] = s.join[m]
      BY <3>1, <3>2, <3>3 DEF DeclaredJoin
    <3>7. s.join[m].state \in {"satisfied", "unsatisfied"} => joins[m] = s.join[m]
      BY <1>1, <3>5, <3>6 DEF DecidedClosed
    <3>8. joins[m].state \in {"open", "satisfied", "unsatisfied"}
      BY <3>6 DEF DeclaredJoin
    <3> QED
      BY <3>4, <3>6, <3>7, <3>8 DEF JoinOf
  <2> QED
    BY <2>1, <2>2
<1>5. joins = [m \in Merges |-> joins[m]]
  OBVIOUS
<1> HIDE DEF joins
<1>6. Plan(t)
  BY <1>1, <1>2, <1>4, <1>5 DEF Plan
<1>7. \A m \in Merges : KeepsJoin(m, t.join[m])
  BY <1>1, <1>2, <1>4 DEF KeepsJoin
<1>8. DecidedClosed(t) /\ SatisfiedStay(s, t)
  BY <1>1, <1>2, <1>4 DEF DecidedClosed, SatisfiedStay
<1> QED
  BY <1>1, <1>2, <1>6, <1>7, <1>8, StepsChange

LEMMA SettleHandlersKeeps ==
    ASSUME RunInv, NEW s, Keeps(s), NEW t, t = SettleHandlers(s),
           \A r \in graph.routes :
              /\ ~Stopping
              /\ s.inv[r.source].handling = "pending" /\ Status(s, r.sink) = "succeeded"
              => \A h \in r.handlers : Status(s, h) = "succeeded"
    PROVE  Keeps(t) /\ t.join = s.join /\ \A n \in Nodes : Status(t, n) = Status(s, n)
<1> DEFINE settles(n) == /\ ~Stopping
                         /\ s.inv[n].handling = "pending"
                         /\ Status(s, RouteOf(n).sink) = "succeeded"
           new == [n \in Nodes |-> IF settles(n) THEN [s.inv[n] EXCEPT !.handling = "handled"]
                                   ELSE s.inv[n]]
<1>1. /\ graph \in Graphs /\ Plan(s) /\ \A n \in Nodes : s.inv[n] \in Invocation
      /\ \A n \in Nodes : SoundStep(n, s.inv[n]) /\ KeepsStep(n, s.inv[n])
      /\ \A m \in Merges : KeepsJoin(m, s.join[m])
      /\ DecidedClosed(s) /\ HandledWell(s) /\ Ordered(s)
  BY DEF RunInv, Types, Keeps, SoundPlan, Plan
<1>2. t = [st |-> s.st, inv |-> new, join |-> s.join, choice |-> s.choice]
  BY <1>1 DEF SettleHandlers, Plan
<1>3. \A n \in Nodes : ~settles(n) => new[n] = s.inv[n]
  OBVIOUS
<1>4. ASSUME NEW n \in Nodes, settles(n)
      PROVE  /\ new[n] \in Invocation /\ new[n].status = s.inv[n].status
             /\ new[n].attempt = s.inv[n].attempt /\ new[n].handling # "none"
             /\ SoundStep(n, new[n]) /\ KeepsStep(n, new[n])
             /\ \A h \in RouteOf(n).handlers : Status(s, h) = "succeeded"
  <2>1. new[n] = [s.inv[n] EXCEPT !.handling = "handled"]
    BY <1>4
  <2>2. s.inv[n] \in Invocation /\ SoundStep(n, s.inv[n]) /\ KeepsStep(n, s.inv[n])
    BY <1>1
  <2>3. s.inv[n].handling = "pending" /\ s.inv[n].status = "failed" /\ Routed(n)
    BY <1>4, <2>2 DEF SoundStep
  <2> HIDE DEF new
  <2>4. /\ new[n] \in Invocation /\ new[n].status = "failed"
        /\ new[n].attempt = s.inv[n].attempt /\ new[n].handling # "none"
    BY <2>1, <2>2, <2>3 DEF Invocation
  <2>5. SoundStep(n, new[n])
    BY <2>3, <2>4 DEF SoundStep, Unsent
  <2>6. KeepsStep(n, new[n])
    BY <2>2, <2>3, <2>4 DEF KeepsStep
  <2>7. RouteOf(n) \in graph.routes /\ RouteOf(n).source = n
    BY <1>1, <2>3, RouteFacts
  <2>8. \A h \in RouteOf(n).handlers : Status(s, h) = "succeeded"
    BY <1>4, <2>7
  <2> QED
    BY <2>3, <2>4, <2>5, <2>6, <2>8
<1>5. new \in [Nodes -> Invocation]
  BY <1>1, <1>3, <1>4
<1> HIDE DEF new
<1>6. \A n \in Nodes : /\ SoundStep(n, new[n]) /\ KeepsStep(n, new[n])
                       /\ new[n].status = s.inv[n].status
                       /\ new[n].attempt = s.inv[n].attempt
                       /\ s.inv[n].handling # "none" => new[n].handling # "none"
  BY <1>1, <1>3, <1>4
<1>7. HandledWell(t)
  <2> SUFFICES ASSUME NEW n \in Nodes, new[n].handling = "handled",
                      NEW h \in RouteOf(n).handlers
               PROVE  Status(t, h) = "succeeded"
    BY <1>2 DEF HandledWell
  <2>1. Routed(n)
    BY <1>6 DEF SoundStep
  <2>2. h \in Nodes
    BY <1>1, <2>1, RouteFacts
  <2>3. Status(s, h) = "succeeded"
    BY <1>1, <1>3, <1>4 DEF HandledWell
  <2> QED
    BY <1>2, <1>6, <2>2, <2>3 DEF Status
<1>8. Plan(t)
  BY <1>1, <1>2, <1>5 DEF Plan
<1>9. DecidedClosed(t)
  BY <1>1, <1>2 DEF DecidedClosed
<1>10. SettledStay(s, t) /\ SatisfiedStay(s, t)
  BY <1>2, <1>6 DEF SettledStay, SatisfiedStay, Status
<1>11. Ordered(t)
  <2> SUFFICES ASSUME NEW n \in Nodes, UnderWay(new[n]) PROVE InTurn(t, n)
    BY <1>2 DEF Ordered
  <2>1. UnderWay(s.inv[n])
    BY <1>6 DEF UnderWay
  <2> QED
    BY <1>1, <1>10, <2>1, TurnStays DEF Ordered
<1> QED
  BY <1>1, <1>2, <1>6, <1>7, <1>8, <1>9, <1>11 DEF Keeps, SoundPlan, Status

LEMMA DeriveKeeps ==
    ASSUME RunInv, NEW s, Keeps(s), NEW t, t = Derive(s)
    PROVE  Keeps(t) /\ t.join = s.join /\ SettledStay(s, t)
<1> DEFINE fresh == IF Stopping \/ s.st \notin {"running", "waiting"} THEN {}
                    ELSE Ready(s) \ ({m \in Merges : join[m].state # "undeclared"}
                                       \union Declared)
           made(n) == [Absent EXCEPT
                         !.status = IF n \in Skipped(s) \union graph.disabled
                                      THEN "skipped" ELSE "ready",
                         !.path = PathOf(s, n)]
           new == [n \in Nodes |-> IF n \in fresh THEN made(n) ELSE s.inv[n]]
<1>1. /\ graph \in Graphs /\ Plan(s) /\ \A n \in Nodes : s.inv[n] \in Invocation
      /\ \A n \in Nodes : SoundStep(n, s.inv[n]) /\ KeepsStep(n, s.inv[n])
      /\ \A m \in Merges : KeepsJoin(m, s.join[m])
      /\ DecidedClosed(s)
  BY DEF RunInv, Types, Keeps, SoundPlan, Plan
<1>2. t = [st |-> s.st, inv |-> new, join |-> s.join, choice |-> s.choice]
  BY <1>1 DEF Derive, Plan
<1>3. \A n \in fresh : n \in Nodes /\ s.inv[n].status = "absent"
  BY DEF Ready, Status
<1>4. ASSUME NEW n \in Nodes, n \in fresh
      PROVE  /\ made(n) \in Invocation /\ SoundStep(n, made(n)) /\ KeepsStep(n, made(n))
             /\ made(n).handling = "none"
             /\ UnderWay(made(n)) => InTurn(s, n)
  <2>1. PathOf(s, n) \in Paths
    BY <1>1, PathTyped
  <2>2. s.inv[n] \in Invocation /\ KeepsStep(n, s.inv[n]) /\ s.inv[n].status = "absent"
    BY <1>1, <1>3, <1>4
  <2>3. made(n).status \in {"skipped", "ready"} /\ made(n).path = PathOf(s, n)
    BY DEF Absent
  <2>4. made(n) = [Absent EXCEPT !.status = made(n).status, !.path = made(n).path]
    BY DEF Absent
  <2>5. made(n).status = "ready" => n \notin Skipped(s)
    BY DEF Absent
  <2>6. n \in Ready(s)
    BY <1>4
  <2> HIDE DEF made
  <2>7. /\ made(n) \in Invocation /\ SoundStep(n, made(n)) /\ KeepsStep(n, made(n))
        /\ made(n).handling = "none" /\ made(n).attempt = 0
    BY <2>1, <2>2, <2>3, <2>4, FreshStep
  <2>8. ASSUME UnderWay(made(n)) PROVE InTurn(s, n)
    <3>1. n \notin Skipped(s)
      BY <2>3, <2>5, <2>7, <2>8 DEF UnderWay
    <3>2. /\ n \in Merges => Status(s, Pair(n)) = "skipped"
          /\ \A p \in Preds(n) : Passed(s, p, n)
      BY <2>6, <3>1 DEF Ready
    <3>3. n \in Merges => n \in UnderSkipped(s)
      BY <3>2 DEF UnderSkipped
    <3> QED
      BY <3>1, <3>2, <3>3 DEF InTurn, Skipped
  <2> QED
    BY <2>7, <2>8
<1> HIDE DEF made, fresh
<1>5. new \in [Nodes -> Invocation]
  BY <1>1, <1>4
<1>6. \A n \in Nodes : \/ new[n] = s.inv[n]
                       \/ /\ SoundStep(n, new[n]) /\ KeepsStep(n, new[n])
                          /\ s.inv[n].status \notin Settled /\ new[n].handling # "handled"
                          /\ UnderWay(new[n]) => InTurn(s, n)
  BY <1>3, <1>4 DEF Settled
<1> HIDE DEF new
<1>7. Plan(t)
  BY <1>1, <1>2, <1>5 DEF Plan
<1>8. DecidedClosed(t) /\ SatisfiedStay(s, t) /\ SettledStay(s, t)
  BY <1>1, <1>2, <1>6 DEF DecidedClosed, SatisfiedStay, SettledStay, Status
<1>9. \A n \in Nodes : InTurn(s, n) => InTurn(t, n)
  BY <1>1, <1>8, TurnStays
<1> QED
  BY <1>1, <1>2, <1>6, <1>7, <1>8, <1>9, StepsChange

LEMMA SettleJoinsKeeps ==
    ASSUME RunInv, NEW s, Keeps(s), NEW t, t = SettleJoins(s)
    PROVE  Keeps(t) /\ SettledStay(s, t)
<1> DEFINE now == {m \in Merges : Decidable(s.join[m])}
           decision(m) ==
              IF Satisfied(m, s.join[m])
                THEN [s.join[m] EXCEPT !.state = "satisfied",
                                       !.selected = Selected(m, s.join[m])]
                ELSE [s.join[m] EXCEPT !.state = "unsatisfied"]
           joins == [m \in Merges |-> IF m \notin now THEN s.join[m] ELSE decision(m)]
           moved(n) == [s.inv[n] EXCEPT !.status =
                          IF Satisfied(n, s.join[n]) THEN "ready" ELSE "failed"]
           new == [n \in Nodes |-> IF n \in now /\ s.inv[n].status = "pending"
                                     THEN moved(n) ELSE s.inv[n]]
<1>1. /\ graph \in Graphs /\ Plan(s) /\ \A n \in Nodes : s.inv[n] \in Invocation
      /\ \A n \in Nodes : SoundStep(n, s.inv[n]) /\ KeepsStep(n, s.inv[n])
      /\ \A m \in Merges : KeepsJoin(m, s.join[m]) /\ s.join[m] \in JoinOf(m)
      /\ DecidedClosed(s)
  BY DEF RunInv, Types, Keeps, SoundPlan, Plan
<1>2. t = [st |-> s.st, inv |-> new, join |-> joins, choice |-> s.choice]
  BY <1>1 DEF SettleJoins, Plan
<1>3. ASSUME NEW m \in Merges, m \in now
      PROVE  /\ joins[m] \in DeclaredJoin(m) /\ joins[m].ledger = s.join[m].ledger
             /\ s.join[m].state = "open" /\ joins[m].state # "undeclared"
             /\ Satisfied(m, s.join[m]) => joins[m].state = "satisfied"
             /\ \A b \in Ports(Pair(m)) : s.join[m].ledger[b] # "pending"
  <2>1. s.join[m].state = "open" /\ Branches(s.join[m], "pending") = {}
    BY <1>3 DEF Decidable
  <2>2. s.join[m] \in DeclaredJoin(m)
    BY <1>1, <2>1 DEF JoinOf, Undeclared
  <2>3. DOMAIN s.join[m].ledger = Ports(Pair(m))
    BY <2>2 DEF DeclaredJoin
  <2>4. Selected(m, s.join[m]) \subseteq Ports(Pair(m))
    BY <2>3 DEF Selected, Branches
  <2>5. \A b \in Ports(Pair(m)) : s.join[m].ledger[b] # "pending"
    BY <2>1, <2>3 DEF Branches
  <2>6. joins[m] = decision(m)
    BY <1>3
  <2>7. /\ decision(m) \in DeclaredJoin(m) /\ decision(m).ledger = s.join[m].ledger
        /\ Satisfied(m, s.join[m]) => decision(m).state = "satisfied"
    BY <2>2, <2>4 DEF DeclaredJoin
  <2> HIDE DEF joins, decision
  <2>8. joins[m].state # "undeclared"
    BY <2>6, <2>7 DEF DeclaredJoin
  <2> QED
    BY <2>1, <2>5, <2>6, <2>7, <2>8
<1>4. \A m \in Merges : m \notin now => joins[m] = s.join[m]
  OBVIOUS
<1>5. ASSUME NEW n \in Nodes, n \in now, s.inv[n].status = "pending"
      PROVE  /\ moved(n) \in Invocation /\ SoundStep(n, moved(n)) /\ KeepsStep(n, moved(n))
             /\ moved(n).handling = "none"
             /\ UnderWay(moved(n)) => UnderWay(s.inv[n]) \/ InTurn(t, n)
  <2>1. s.inv[n] \in Invocation /\ SoundStep(n, s.inv[n]) /\ KeepsStep(n, s.inv[n])
    BY <1>1
  <2>2. /\ moved(n).status \in {"ready", "failed"}
        /\ moved(n).status = "ready" => Satisfied(n, s.join[n])
    BY <2>1 DEF Invocation
  <2>3. moved(n) = [s.inv[n] EXCEPT !.status = moved(n).status]
    BY <2>1 DEF Invocation
  <2>4. n \in Merges /\ (Satisfied(n, s.join[n]) => t.join[n].state = "satisfied")
    <3>1. n \in Merges
      BY <1>5
    <3>2. Satisfied(n, s.join[n]) => joins[n].state = "satisfied"
      <4> HIDE DEF now, joins, moved
      <4> QED
        BY <1>3, <1>5, <3>1
    <3>3. t.join = joins
      <4> HIDE DEF new, joins
      <4> QED
        BY <1>2
    <3> HIDE DEF joins
    <3> QED
      BY <3>1, <3>2, <3>3
  <2> HIDE DEF moved
  <2>5. /\ moved(n) \in Invocation /\ SoundStep(n, moved(n)) /\ KeepsStep(n, moved(n))
        /\ moved(n).handling = "none" /\ moved(n).attempt = s.inv[n].attempt
    BY <1>5, <2>1, <2>2, <2>3, MovedStep
  <2> QED
    BY <2>2, <2>4, <2>5 DEF UnderWay, InTurn
<1>6. joins = [m \in Merges |-> joins[m]]
  OBVIOUS
<1> HIDE DEF moved, decision, now
<1>7. new \in [Nodes -> Invocation]
  BY <1>1, <1>5
<1>8. \A n \in Nodes : \/ new[n] = s.inv[n]
                       \/ /\ SoundStep(n, new[n]) /\ KeepsStep(n, new[n])
                          /\ s.inv[n].status \notin Settled /\ new[n].handling # "handled"
                          /\ UnderWay(new[n]) => UnderWay(s.inv[n]) \/ InTurn(t, n)
  BY <1>5 DEF Settled
<1> HIDE DEF new, joins
<1>9. \A m \in Merges : joins[m] \in JoinOf(m)
  BY <1>1, <1>3, <1>4 DEF JoinOf
<1>10. Plan(t)
  BY <1>1, <1>2, <1>6, <1>7, <1>9 DEF Plan
<1>11. DecidedClosed(t)
  BY <1>1, <1>2, <1>3, <1>4 DEF DecidedClosed
<1>12. SatisfiedStay(s, t) /\ \A m \in Merges : KeepsJoin(m, t.join[m])
  BY <1>1, <1>2, <1>3, <1>4 DEF KeepsJoin, SatisfiedStay
<1> QED
  BY <1>1, <1>2, <1>8, <1>10, <1>11, <1>12, StepsChange

LEMMA StopKeeps ==
    ASSUME RunInv, NEW s, Keeps(s), NEW t, t = Stop(s)
    PROVE  Keeps(t) /\ t.join = s.join /\ SettledStay(s, t)
<1>1. CASE ~Stopping
  BY <1>1 DEF Stop, SettledStay
<1>2. CASE Stopping
  <2> DEFINE stopped(n) == s.inv[n].status \in {"pending", "ready", "waiting"}
             moved(n) == [s.inv[n] EXCEPT !.status =
                            IF ~Cancel /\ s.inv[n].status = "waiting" THEN "timed_out"
                            ELSE "canceled"]
             new == [n \in Nodes |-> IF stopped(n) THEN moved(n) ELSE s.inv[n]]
  <2>1. /\ graph \in Graphs /\ Plan(s) /\ \A n \in Nodes : s.inv[n] \in Invocation
        /\ \A n \in Nodes : SoundStep(n, s.inv[n]) /\ KeepsStep(n, s.inv[n])
        /\ \A m \in Merges : KeepsJoin(m, s.join[m])
        /\ DecidedClosed(s)
    BY DEF RunInv, Types, Keeps, SoundPlan, Plan
  <2>2. t = [st |-> s.st, inv |-> new, join |-> s.join, choice |-> s.choice]
    BY <1>2, <2>1 DEF Stop, Plan, Status
  <2>3. (run.asked \/ TimeUp) /\ (~Cancel => TimeUp)
    BY <1>2 DEF RunInv, ToldToStop, Stopping, Cancel, Expired, TimeUp
  <2>4. ASSUME NEW n \in Nodes, stopped(n)
        PROVE  /\ moved(n) \in Invocation /\ SoundStep(n, moved(n)) /\ KeepsStep(n, moved(n))
               /\ moved(n).handling = "none"
               /\ UnderWay(moved(n)) => UnderWay(s.inv[n])
    <3>1. s.inv[n] \in Invocation /\ SoundStep(n, s.inv[n]) /\ KeepsStep(n, s.inv[n])
      BY <2>1
    <3>2. /\ moved(n).status \in {"canceled", "timed_out"}
          /\ moved(n).status = "timed_out" => TimeUp
      BY <2>3, <3>1 DEF Invocation
    <3>3. moved(n) = [s.inv[n] EXCEPT !.status = moved(n).status]
      BY <3>1 DEF Invocation
    <3> HIDE DEF moved
    <3>4. /\ moved(n) \in Invocation /\ SoundStep(n, moved(n)) /\ KeepsStep(n, moved(n))
          /\ moved(n).handling = "none" /\ moved(n).attempt = s.inv[n].attempt
      BY <2>3, <2>4, <3>1, <3>2, <3>3, MovedStep
    <3> QED
      BY <3>2, <3>4 DEF UnderWay
  <2> HIDE DEF moved
  <2>5. new \in [Nodes -> Invocation]
    BY <2>1, <2>4
  <2>6. \A n \in Nodes : \/ new[n] = s.inv[n]
                         \/ /\ SoundStep(n, new[n]) /\ KeepsStep(n, new[n])
                            /\ s.inv[n].status \notin Settled /\ new[n].handling # "handled"
                            /\ UnderWay(new[n]) => UnderWay(s.inv[n])
    BY <2>4 DEF Settled
  <2> HIDE DEF new
  <2>7. Plan(t)
    BY <2>1, <2>2, <2>5 DEF Plan
  <2>8. DecidedClosed(t) /\ SatisfiedStay(s, t)
    BY <2>1, <2>2 DEF DecidedClosed, SatisfiedStay
  <2> QED
    BY <2>1, <2>2, <2>6, <2>7, <2>8, StepsChange
<1> QED
  BY <1>1, <1>2

(* The plan an advance admits from, and what the engine did not refuse.    *)
LEMMA PlanKeeps ==
    ASSUME RunInv, NEW sel \in Selections, NEW told, told = Told(sel),
           ~Inconsistent(told), NEW s, s = Stop(Planned(told))
    PROVE  Keeps(s)
<1> DEFINE t == Start(Loaded)
           u == Consume(t, sel)
           recorded == Record(told)
           handled == SettleHandlers(recorded)
           derived == Derive(handled)
           settled == SettleJoins(derived)
<1>1. Keeps(u) /\ u.join = join
  BY ConsumeKeeps
<1>2. told = Declare(u) /\ s = Stop(settled)
  BY DEF Told, Planned
<1> HIDE DEF t, u
<1>3. Keeps(told)
  BY <1>1, <1>2, DeclareKeeps
<1>4. Keeps(recorded) /\ recorded.inv = told.inv
  BY <1>3, RecordKeeps
<1>5. \A r \in graph.routes :
         /\ ~Stopping
         /\ recorded.inv[r.source].handling = "pending"
         /\ Status(recorded, r.sink) = "succeeded"
         => \A h \in r.handlers : Status(recorded, h) = "succeeded"
  BY <1>4 DEF Inconsistent, Status
<1> HIDE DEF recorded
<1>6. Keeps(handled)
  BY <1>4, <1>5, SettleHandlersKeeps
<1> HIDE DEF handled
<1>7. Keeps(derived)
  BY <1>6, DeriveKeeps
<1> HIDE DEF derived
<1>8. Keeps(settled)
  BY <1>7, SettleJoinsKeeps
<1> HIDE DEF settled
<1> QED
  BY <1>2, <1>8, StopKeeps

-----------------------------------------------------------------------------
(* Admission, the run's status and the rows.                               *)

(* An admitted step was ready and has one attempt more; a stop admits none. *)
LEMMA AdmitFacts ==
    ASSUME RunInv, NEW s, Keeps(s), NEW admitted \in Admissions(s),
           NEW t, t = SettleRun(Admit(s, admitted))
    PROVE  /\ Plan(t) /\ t.join = s.join /\ t.choice = s.choice
           /\ admitted \subseteq Nodes /\ (Stopping => admitted = {})
           /\ ~Stopping => Fits(s, admitted)
           /\ \A n \in Nodes : n \notin admitted => t.inv[n] = s.inv[n]
           /\ \A n \in admitted : /\ s.inv[n].status = "ready" /\ t.inv[n].status = "running"
                                  /\ t.inv[n].attempt = s.inv[n].attempt + 1
                                  /\ t.inv[n].handling = s.inv[n].handling
                                  /\ t.inv[n].path = s.inv[n].path
<1> DEFINE moved(n) == [s.inv[n] EXCEPT !.status = "running",
                                        !.attempt = s.inv[n].attempt + 1]
           new == [n \in Nodes |-> IF n \in admitted THEN moved(n) ELSE s.inv[n]]
           a == Admit(s, admitted)
<1>1. /\ graph \in Graphs /\ Plan(s)
      /\ \A n \in Nodes : s.inv[n] \in Invocation /\ SoundStep(n, s.inv[n])
  BY DEF RunInv, Types, Keeps, SoundPlan, Plan
<1>2. /\ admitted \subseteq Nodes /\ (Stopping => admitted = {})
      /\ ~Stopping => Fits(s, admitted)
      /\ \A n \in admitted : s.inv[n].status = "ready"
  BY DEF Admissions, Status
<1>3. /\ a = [st |-> a.st, inv |-> new, join |-> s.join, choice |-> s.choice]
      /\ a.st \in {s.st, "running"}
  <2>1. s = [st |-> s.st, inv |-> s.inv, join |-> s.join, choice |-> s.choice]
    BY <1>1 DEF Plan
  <2>2. a = [s EXCEPT !.inv = new,
                      !.st = IF s.st = "waiting" /\ admitted # {} THEN "running" ELSE s.st]
    BY DEF Admit
  <2> HIDE DEF a, new
  <2> QED
    BY <2>1, <2>2
<1>4. ASSUME NEW n \in Nodes, n \in admitted
      PROVE  /\ moved(n) \in Invocation /\ moved(n).status = "running"
             /\ moved(n).attempt = s.inv[n].attempt + 1
             /\ moved(n).handling = s.inv[n].handling
             /\ moved(n).path = s.inv[n].path
  <2>1. s.inv[n].attempt <= MaxAttempts
    BY <1>1, <1>2, <1>4 DEF SoundStep, Unsent
  <2>2. s.inv[n].attempt + 1 \in 0 .. MaxAttempts + 1
    BY <1>1, <2>1, BoundsAssumption DEF Invocation
  <2> QED
    BY <1>1, <2>2 DEF Invocation, Statuses, Open
<1>5. new \in [Nodes -> Invocation]
  <2> HIDE DEF moved
  <2> QED
    BY <1>1, <1>4
<1>6. /\ \A n \in Nodes : n \notin admitted => new[n] = s.inv[n]
      /\ \A n \in admitted : new[n] = moved(n)
  BY <1>2
<1> HIDE DEF new, a, moved
<1>7. Plan(a)
  BY <1>1, <1>3, <1>5 DEF Plan, EndStatuses
<1>8. /\ t = [st |-> t.st, inv |-> new, join |-> s.join, choice |-> s.choice]
      /\ t.st \in {a.st, "waiting", EndStatus(a)} \ {"open"} \/ t.st = a.st
  <2> DEFINE end == EndStatus(a)
             open == {n \in Nodes : Status(a, n) \in Open}
  <2>1. t = [a EXCEPT !.st = IF open = {} THEN IF end = "open" THEN a.st ELSE end
                    ELSE IF a.st = "running" /\ \A n \in open : \/ Status(a, n) = "waiting"
                                                               \/ (Status(a, n) = "pending" /\ n \in Merges)
                      THEN "waiting" ELSE a.st]
    BY DEF SettleRun, a
  <2> HIDE DEF end, open
  <2>2. PICK st : /\ t = [a EXCEPT !.st = st]
                  /\ st \in {a.st, "waiting", end} \ {"open"} \/ st = a.st
    BY <2>1
  <2>3. t = [st |-> st, inv |-> new, join |-> s.join, choice |-> s.choice]
    BY <1>3, <2>2
  <2> QED
    BY <2>2, <2>3 DEF end
<1>9. EndStatus(a) \in EndStatuses \union {"open"}
  BY DEF EndStatus, EndStatuses
<1>10. t.st \in EndStatuses \union {"queued", "running", "waiting"}
  BY <1>7, <1>8, <1>9 DEF Plan
<1>11. Plan(t)
  BY <1>7, <1>8, <1>10, <1>5, <1>1 DEF Plan
<1> QED
  BY <1>2, <1>4, <1>6, <1>8, <1>11

LEMMA AdmitSound ==
    ASSUME RunInv, NEW s, Keeps(s), NEW admitted \in Admissions(s),
           NEW t, t = SettleRun(Admit(s, admitted))
    PROVE  SoundPlan(t) /\ \A m \in Merges : KeepsJoin(m, t.join[m])
<1>1. /\ Plan(t) /\ t.join = s.join /\ admitted \subseteq Nodes
      /\ \A n \in Nodes : n \notin admitted => t.inv[n] = s.inv[n]
      /\ \A n \in admitted : /\ s.inv[n].status = "ready" /\ t.inv[n].status = "running"
                             /\ t.inv[n].handling = s.inv[n].handling
  BY AdmitFacts
<1>2. /\ graph \in Graphs
      /\ \A n \in Nodes : SoundStep(n, s.inv[n])
      /\ \A m \in Merges : KeepsJoin(m, s.join[m])
      /\ DecidedClosed(s) /\ HandledWell(s) /\ Ordered(s)
  BY DEF RunInv, Types, Keeps, SoundPlan
<1>3. \A n \in Nodes : SoundStep(n, t.inv[n])
  BY <1>1, <1>2 DEF SoundStep, Unsent
<1>4. SettledStay(s, t) /\ SatisfiedStay(s, t)
  BY <1>1 DEF SettledStay, SatisfiedStay, Status, Settled
<1>5. HandledWell(t)
  BY <1>1, <1>2, <1>4, HandledStays
<1>6. DecidedClosed(t)
  BY <1>1, <1>2 DEF DecidedClosed
<1>7. Ordered(t)
  <2> SUFFICES ASSUME NEW n \in Nodes, UnderWay(t.inv[n]) PROVE InTurn(t, n)
    BY DEF Ordered
  <2>1. UnderWay(s.inv[n])
    BY <1>1 DEF UnderWay
  <2> QED
    BY <1>2, <1>4, <2>1, TurnStays DEF Ordered
<1> QED
  BY <1>1, <1>2, <1>3, <1>5, <1>6, <1>7 DEF SoundPlan

(* An advance ends the run only when nothing is open, and says why.        *)
LEMMA EndFacts ==
    ASSUME RunInv, run.status \notin EndStatuses, NEW s, Keeps(s),
           NEW admitted \in Admissions(s), NEW t, t = SettleRun(Admit(s, admitted)),
           t.st \in EndStatuses
    PROVE  /\ \A n \in Nodes : Status(t, n) \notin Open
           /\ t.st = "outcome_unknown" <=> \E n \in Nodes : Status(t, n) = "outcome_unknown"
           /\ t.st = "canceled" => run.asked
           /\ t.st = "timed_out" => TimeUp
           /\ t.st = "succeeded" =>
                 \A n \in Nodes :
                    \/ Status(t, n) \in {"succeeded", "skipped"}
                    \/ Status(t, n) = "failed" /\ t.inv[n].handling = "handled"
<1> DEFINE a == Admit(s, admitted)
           open == {n \in Nodes : Status(a, n) \in Open}
           end == EndStatus(a)
<1>1. /\ Plan(t) /\ \A n \in Nodes : t.inv[n] \in Invocation
      /\ SoundPlan(t)
  BY AdmitFacts, AdmitSound DEF Plan
<1>2. a.st \notin EndStatuses
  <2>1. s.st \in {run.status, "running"} /\ Plan(s)
    BY DEF Keeps, SoundPlan
  <2>2. a.st \in {s.st, "running"}
    BY <2>1 DEF Admit, Plan
  <2> QED
    BY <2>1, <2>2 DEF EndStatuses
<1>3. t.inv = a.inv /\ a.st \in {s.st, "running"} /\ t.st =
         IF open = {} THEN IF end = "open" THEN a.st ELSE end
         ELSE IF a.st = "running" /\ \A n \in open : \/ Status(a, n) = "waiting"
                                                    \/ (Status(a, n) = "pending" /\ n \in Merges)
           THEN "waiting" ELSE a.st
  <2> DEFINE new == [n \in Nodes |->
                       IF n \in admitted
                         THEN [s.inv[n] EXCEPT !.status = "running", !.attempt = s.inv[n].attempt + 1]
                         ELSE s.inv[n]]
             st == IF s.st = "waiting" /\ admitted # {} THEN "running" ELSE s.st
  <2>1. s = [st |-> s.st, inv |-> s.inv, join |-> s.join, choice |-> s.choice]
    BY DEF Keeps, SoundPlan, Plan
  <2>2. a = [st |-> a.st, inv |-> a.inv, join |-> a.join, choice |-> a.choice]
        /\ a.st \in {s.st, "running"}
    <3>1. a = [s EXCEPT !.inv = new, !.st = st] /\ st \in {s.st, "running"}
      BY DEF Admit
    <3> HIDE DEF a, new, st
    <3> QED
      BY <2>1, <3>1
  <2>3. t = SettleRun(a)
    OBVIOUS
  <2> HIDE DEF a
  <2> QED
    BY <2>2, <2>3 DEF SettleRun
<1> HIDE DEF a, end
<1>4. open = {} /\ t.st = end /\ end # "open"
  BY <1>2, <1>3 DEF EndStatuses
<1>5. \A n \in Nodes : Status(a, n) = Status(t, n) /\ Status(t, n) = t.inv[n].status
  BY <1>3 DEF Status
<1>6. \A n \in Nodes : Status(t, n) \notin Open
  BY <1>4, <1>5
<1>7. end =
        IF \E n \in Nodes : Status(t, n) = "outcome_unknown" THEN "outcome_unknown"
        ELSE IF Cancel THEN "canceled"
        ELSE IF Expired \/ \E n \in Nodes : Status(t, n) = "timed_out" THEN "timed_out"
        ELSE IF \E n \in Nodes : Status(t, n) = "failed" /\ t.inv[n].handling # "handled"
          THEN "failed"
        ELSE IF \E n \in Nodes : Status(t, n) = "canceled" THEN "canceled"
        ELSE IF \A n \in Nodes : Status(t, n) # "absent" THEN "succeeded"
        ELSE "open"
  <2> DEFINE statuses == {Status(a, n) : n \in Nodes} \ {"absent"}
  <2>1. \A st : st # "absent" => (st \in statuses <=> \E n \in Nodes : Status(t, n) = st)
    BY <1>5
  <2>2. (\E n \in Nodes : Status(a, n) = "failed" /\ a.inv[n].handling # "handled")
          <=> \E n \in Nodes : Status(t, n) = "failed" /\ t.inv[n].handling # "handled"
    BY <1>3, <1>5
  <2>3. (\A n \in Nodes : Status(a, n) # "absent") <=> \A n \in Nodes : Status(t, n) # "absent"
    BY <1>5
  <2>4. end = IF "outcome_unknown" \in statuses THEN "outcome_unknown"
              ELSE IF Cancel THEN "canceled"
              ELSE IF Expired \/ "timed_out" \in statuses THEN "timed_out"
              ELSE IF \E n \in Nodes : Status(a, n) = "failed" /\ a.inv[n].handling # "handled"
                THEN "failed"
              ELSE IF "canceled" \in statuses THEN "canceled"
              ELSE IF \A n \in Nodes : Status(a, n) # "absent" THEN "succeeded"
              ELSE "open"
    BY DEF EndStatus, end
  <2>5. /\ "outcome_unknown" \in statuses <=> \E n \in Nodes : Status(t, n) = "outcome_unknown"
        /\ "timed_out" \in statuses <=> \E n \in Nodes : Status(t, n) = "timed_out"
        /\ "canceled" \in statuses <=> \E n \in Nodes : Status(t, n) = "canceled"
    BY <2>1
  <2> HIDE DEF statuses
  <2> QED
    BY <2>2, <2>3, <2>4, <2>5, Zenon
<1>8. /\ Cancel => run.asked
      /\ Expired => TimeUp
      /\ run.asked \/ TimeUp => Cancel \/ Expired
  BY DEF RunInv, ToldToStop, Cancel, Expired, TimeUp
<1>9. /\ \A n \in Nodes : Status(t, n) = "canceled" => run.asked \/ TimeUp
      /\ \A n \in Nodes : Status(t, n) = "timed_out" => TimeUp
  BY <1>1, <1>5 DEF SoundPlan, SoundStep
<1>10. t.st = "outcome_unknown" <=> \E n \in Nodes : Status(t, n) = "outcome_unknown"
  BY <1>4, <1>7
<1>11. t.st = "canceled" => run.asked
  BY <1>4, <1>7, <1>8, <1>9
<1>12. t.st = "timed_out" => TimeUp
  BY <1>4, <1>7, <1>8, <1>9
<1>13. t.st = "succeeded" =>
          \A n \in Nodes :
             \/ Status(t, n) \in {"succeeded", "skipped"}
             \/ Status(t, n) = "failed" /\ t.inv[n].handling = "handled"
  <2> SUFFICES ASSUME t.st = "succeeded", NEW n \in Nodes
               PROVE  \/ Status(t, n) \in {"succeeded", "skipped"}
                      \/ Status(t, n) = "failed" /\ t.inv[n].handling = "handled"
    OBVIOUS
  <2>1. /\ Status(t, n) \notin {"absent", "canceled", "timed_out", "outcome_unknown"}
        /\ Status(t, n) = "failed" => t.inv[n].handling = "handled"
    BY <1>4, <1>7
  <2>2. Status(t, n) \in Statuses \ Open
    BY <1>1, <1>5, <1>6 DEF Invocation
  <2> QED
    BY <2>1, <2>2 DEF Statuses, Settled
<1> QED
  BY <1>6, <1>10, <1>11, <1>12, <1>13

-----------------------------------------------------------------------------
(* Every step keeps the invariant.                                         *)

(* A run that is told to stop stays so, and its workflow does not change.  *)
StopsStay ==
    /\ graph' = graph
    /\ run.asked => run'.asked
    /\ TimeUp => run'.deadline \in {"past", "woken"}

LEMMA LoadedNext ==
    ASSUME StopsStay, NEW x, x = Loaded', SoundPlan(x)
    PROVE  SoundPlan(Loaded)'
<1>1. /\ Nodes' = Nodes /\ Merges' = Merges /\ Choices' = Choices
      /\ Invocation' = Invocation /\ Selectable' = Selectable
      /\ \A m : JoinOf(m)' = JoinOf(m) /\ Ports(Pair(m))' = Ports(Pair(m))
      /\ \A n : (Routed(n)' <=> Routed(n)) /\ Preds(n)' = Preds(n)
      /\ \A n : RouteOf(n)' = RouteOf(n)
  BY DEF StopsStay, Nodes, Merges, Choices, Pair, Ports, Invocation, Paths, JoinOf,
         DeclaredJoin, Selectable, Routed, RouteOf, Preds, Edges
<1>2. Plan(x) /\ (\A n \in Nodes : SoundStep(n, x.inv[n])) /\ HandledWell(x) /\ DecidedClosed(x)
      /\ Ordered(x)
  BY DEF SoundPlan
<1>3. Plan(Loaded)'
  BY <1>1, <1>2 DEF Plan
<1>4. (\A n \in Nodes : SoundStep(n, Loaded.inv[n]))'
  BY <1>1, <1>2 DEF StopsStay, SoundStep, TimeUp
<1>5. HandledWell(Loaded)'
  BY <1>1, <1>2 DEF HandledWell, Status
<1>6. DecidedClosed(Loaded)'
  BY <1>1, <1>2 DEF DecidedClosed
<1>7. Ordered(Loaded)'
  <2>1. Taken(Loaded)' = Taken(x)
    BY DEF StopsStay, Taken
  <2>2. \A p, n : Passed(Loaded, p, n)' <=> Passed(x, p, n)
    BY <2>1 DEF Passed, Status
  <2> QED
    BY <1>1, <1>2, <2>2 DEF Ordered, InTurn, UnderWay
<1> QED
  BY <1>3, <1>4, <1>5, <1>6, <1>7 DEF SoundPlan

LEMMA SameRows ==
    ASSUME StopsStay, UNCHANGED <<inv, row, fact>>,
           RowsFollow, run'.ended # "emergency" => run.ended # "emergency"
    PROVE  RowsFollow'
BY DEF StopsStay, RowsFollow, Nodes, Merges

LEMMA SameBranches ==
    ASSUME StopsStay, UNCHANGED inv, BranchLimit
    PROVE  BranchLimit'
BY DEF StopsStay, BranchLimit, Nodes, Parallels

LEMMA WakeTyped ==
    ASSUME wakes \in 0 .. MaxWakes, Wake
    PROVE  wakes' \in 0 .. MaxWakes
BY BoundsAssumption DEF Wake

LEMMA SettledRunKeeps ==
    ASSUME RunInv, RequestCancel \/ DeadlinePasses \/ WakeForDeadline \/ Idle
    PROVE  RunInv'
<1>1. /\ StopsStay /\ UNCHANGED <<inv, join, choice, row, fact, due>>
      /\ run' = run \/ run.status \notin EndStatuses
      /\ run'.status = run.status /\ run'.ended = run.ended
      /\ run'.cancel = run.cancel /\ run'.expired = run.expired
      /\ run' \in [status : EndStatuses \union {"queued", "running", "waiting"},
                   asked : BOOLEAN, cancel : BOOLEAN, expired : BOOLEAN,
                   deadline : {"none", "ahead", "past", "woken"},
                   ended : {"no", "engine", "emergency"}]
  BY DEF RunInv, Types, RequestCancel, DeadlinePasses, WakeForDeadline, Idle, StopsStay,
         TimeUp, checkpoint
<1>2. wakes' \in 0 .. MaxWakes
  BY WakeTyped, BoundsAssumption
     DEF RunInv, Types, RequestCancel, DeadlinePasses, WakeForDeadline, Idle
<1>3. SoundPlan(Loaded)'
  <2>1. SoundPlan(Loaded) /\ Loaded' = Loaded
    BY <1>1 DEF RunInv, Loaded
  <2> QED
    BY <1>1, <2>1, LoadedNext
<1>4. Types'
  BY <1>1, <1>2, <1>3 DEF RunInv, Types, SoundPlan, StopsStay, Nodes
<1>5. FactsOfRunning'
  BY <1>1 DEF RunInv, FactsOfRunning, StopsStay, Nodes, TimeUp
<1>6. ToldToStop' /\ EndedClosed'
  BY <1>1 DEF RunInv, ToldToStop, EndedClosed, StopsStay, Nodes, TimeUp
<1>7. RowsFollow' /\ BranchLimit'
  BY <1>1, SameRows, SameBranches DEF RunInv
<1> QED
  BY <1>3, <1>4, <1>5, <1>6, <1>7 DEF RunInv

LEMMA DueKeeps ==
    ASSUME RunInv, NEW n \in Nodes, Due(n)
    PROVE  RunInv'
<1>1. /\ StopsStay /\ UNCHANGED <<run, inv, join, choice, row, fact>>
      /\ due' \in [Nodes -> BOOLEAN] /\ wakes' \in 0 .. MaxWakes
  BY WakeTyped DEF RunInv, Types, Due, StopsStay, TimeUp, checkpoint
<1>2. SoundPlan(Loaded)'
  <2>1. SoundPlan(Loaded) /\ Loaded' = Loaded
    BY <1>1 DEF RunInv, Loaded
  <2> QED
    BY <1>1, <2>1, LoadedNext
<1>3. Types'
  BY <1>1, <1>2 DEF RunInv, Types, SoundPlan, StopsStay, Nodes
<1>4. FactsOfRunning' /\ ToldToStop' /\ EndedClosed'
  BY <1>1 DEF RunInv, FactsOfRunning, ToldToStop, EndedClosed, StopsStay, Nodes, TimeUp
<1>5. RowsFollow' /\ BranchLimit'
  BY <1>1, SameRows, SameBranches DEF RunInv
<1> QED
  BY <1>2, <1>3, <1>4, <1>5 DEF RunInv

LEMMA CompleteKeeps ==
    ASSUME RunInv, NEW n \in Nodes, Complete(n)
    PROVE  RunInv'
<1>1. PICK kind \in Reports(n) :
         /\ kind = "wait" => inv[n].attempt = 1
         /\ fact' = [fact EXCEPT ![n] = kind]
         /\ row' = [row EXCEPT ![n] = CASE kind = "succeeded" -> "succeeded"
                                        [] kind = "wait" -> "waiting"
                                        [] OTHER -> "running"]
  BY DEF Complete
<1>2. /\ StopsStay /\ UNCHANGED <<run, inv, join, choice, due>>
      /\ wakes' \in 0 .. MaxWakes
      /\ inv[n].status = "running" /\ fact[n] = "none"
  BY WakeTyped DEF RunInv, Types, Complete, StopsStay, TimeUp, checkpoint
<1>3. /\ kind \in (Failures \union {"succeeded", "wait"})
      /\ kind = "canceled" => run.asked \/ TimeUp
  <2>1. graph.yields[n] \subseteq {"succeeded", "wait", "retry", "fatal",
                                   "unclassified", "unknown"}
    BY Shape DEF RunInv, Types
  <2> QED
    BY <2>1 DEF Reports, Failures, TimeUp
<1>4. /\ row \in [Nodes -> Statuses]
      /\ fact \in [Nodes -> Failures \union {"none", "succeeded", "wait"}]
  BY DEF RunInv, Types
<1>5. /\ fact'[n] = kind
      /\ row'[n] = CASE kind = "succeeded" -> "succeeded"
                     [] kind = "wait" -> "waiting"
                     [] OTHER -> "running"
      /\ \A m \in Nodes : m # n => fact'[m] = fact[m] /\ row'[m] = row[m]
  BY <1>1, <1>4
<1>6. SoundPlan(Loaded)'
  <2>1. SoundPlan(Loaded) /\ Loaded' = Loaded
    BY <1>2 DEF RunInv, Loaded
  <2> QED
    BY <1>2, <2>1, LoadedNext
<1>7. Types'
  <2>1. fact' \in [Nodes -> Failures \union {"none", "succeeded", "wait"}]
    BY <1>1, <1>3, <1>4
  <2>2. row' \in [Nodes -> Statuses]
    BY <1>1, <1>3, <1>4 DEF Statuses, Settled, Open
  <2> QED
    BY <1>2, <1>6, <2>1, <2>2 DEF RunInv, Types, SoundPlan, StopsStay, Nodes
<1>8. FactsOfRunning'
  BY <1>1, <1>2, <1>3, <1>5 DEF RunInv, FactsOfRunning, StopsStay, Nodes, TimeUp
<1>9. ToldToStop' /\ EndedClosed'
  BY <1>2 DEF RunInv, ToldToStop, EndedClosed, StopsStay, Nodes, TimeUp
<1>10. RowsFollow'
  <2> SUFFICES ASSUME run.ended # "emergency", NEW m \in Nodes
               PROVE  CASE inv[m].status = "running" ->
                             row'[m] = CASE fact'[m] = "none" -> "ready"
                                        [] fact'[m] = "succeeded" -> "succeeded"
                                        [] fact'[m] = "wait" -> "waiting"
                                        [] OTHER -> "running"
                        [] inv[m].status = "ready" ->
                             row'[m] = "ready" \/ (m \in Merges /\ row'[m] = "pending")
                        [] OTHER -> row'[m] = inv[m].status
    BY <1>2 DEF RowsFollow, StopsStay, Nodes, Merges
  <2>1. CASE m = n
    BY <1>2, <1>3, <1>5, <2>1 DEF Failures
  <2>2. CASE m # n
    BY <1>5, <2>2 DEF RunInv, RowsFollow
  <2> QED
    BY <2>1, <2>2
<1>11. BranchLimit'
  BY <1>2, SameBranches DEF RunInv
<1> QED
  BY <1>6, <1>7, <1>8, <1>9, <1>10, <1>11 DEF RunInv

(* A run that cannot be advanced is closed from its rows.                  *)
LEMMA EmergencyKeeps ==
    ASSUME RunInv, wakes > 0, run.status \notin EndStatuses, graph' = graph, FailUnadvanceable
    PROVE  RunInv'
<1> DEFINE closed == [n \in Nodes |-> EmergencyRow(n)]
           end == IF \E n \in Nodes : closed[n] = "outcome_unknown"
                    THEN "outcome_unknown" ELSE "failed"
<1>1. /\ run' = [run EXCEPT !.status = end, !.ended = "emergency"]
      /\ row' = closed /\ inv' = [n \in Nodes |-> Absent]
      /\ join' = [m \in Merges |-> Undeclared] /\ choice' = [c \in Choices |-> NoPort]
      /\ fact' = [n \in Nodes |-> "none"] /\ due' = [n \in Nodes |-> FALSE]
      /\ wakes' = wakes - 1
  BY DEF FailUnadvanceable
<1>2. \A n \in Nodes : EmergencyRow(n) \in Statuses
  BY DEF RunInv, Types, EmergencyRow, Statuses, Settled
<1>3. end \in {"outcome_unknown", "failed"}
  OBVIOUS
<1> HIDE DEF end
<1>4. /\ run' \in [status : EndStatuses \union {"queued", "running", "waiting"},
                   asked : BOOLEAN, cancel : BOOLEAN, expired : BOOLEAN,
                   deadline : {"none", "ahead", "past", "woken"},
                   ended : {"no", "engine", "emergency"}]
      /\ run'.asked = run.asked /\ run'.deadline = run.deadline
      /\ run'.cancel = run.cancel /\ run'.expired = run.expired
      /\ run'.ended = "emergency" /\ run'.status \in EndStatuses
  BY <1>1, <1>3 DEF RunInv, Types, EndStatuses
<1>5. StopsStay
  BY <1>4 DEF StopsStay, TimeUp
<1>6. wakes' \in 0 .. MaxWakes
  BY <1>1, BoundsAssumption DEF RunInv, Types
<1>7. SoundPlan(Loaded)'
  <2> DEFINE x == [st |-> run'.status, inv |-> inv', join |-> join', choice |-> choice']
  <2>1. Absent \in Invocation /\ \A m \in Merges : Undeclared \in JoinOf(m)
    BY AbsentTyped
  <2>2. /\ \A n \in Nodes : x.inv[n] = Absent
        /\ \A m \in Merges : x.join[m] = Undeclared
    BY <1>1
  <2>3. Plan(x)
    BY <1>1, <1>4, <2>1 DEF Plan, Selectable
  <2>4. \A n \in Nodes : SoundStep(n, x.inv[n])
    BY <2>2, BoundsAssumption DEF SoundStep, Absent
  <2>5. HandledWell(x) /\ DecidedClosed(x) /\ Ordered(x)
    BY <2>2 DEF HandledWell, DecidedClosed, Ordered, UnderWay, Absent, Undeclared
  <2>6. x = Loaded'
    BY DEF Loaded
  <2> HIDE DEF x
  <2>7. SoundPlan(x)
    BY <2>3, <2>4, <2>5 DEF SoundPlan
  <2> QED
    BY <1>5, <2>6, <2>7, LoadedNext
<1>8. Types'
  <2>1. /\ row' \in [Nodes -> Statuses] /\ due' \in [Nodes -> BOOLEAN]
        /\ fact' \in [Nodes -> Failures \union {"none", "succeeded", "wait"}]
    BY <1>1, <1>2
  <2> QED
    BY <1>4, <1>6, <1>7, <2>1 DEF RunInv, Types, SoundPlan, Nodes
<1>9. FactsOfRunning' /\ ToldToStop' /\ EndedClosed'
  BY <1>1, <1>4, <1>5 DEF RunInv, FactsOfRunning, ToldToStop, EndedClosed, StopsStay, Nodes,
                          TimeUp, Absent, Open
<1>10. RowsFollow'
  BY <1>4 DEF RowsFollow
<1>11. BranchLimit'
  <2> SUFFICES ASSUME NEW p \in Parallels
               PROVE  Cardinality({n \in Nodes : /\ inv'[n].status = "running"
                                                 /\ \E x \in inv'[n].path : x[1] = p})
                         <= graph.limit[p]
    BY DEF BranchLimit, Nodes, Parallels
  <2> DEFINE running == {n \in Nodes : /\ inv'[n].status = "running"
                                       /\ \E x \in inv'[n].path : x[1] = p}
  <2>1. running = {}
    BY <1>1 DEF Absent
  <2>2. graph.limit[p] \in Nat
    BY Shape DEF RunInv, Types
  <2> HIDE DEF running
  <2>3. Cardinality(running) <= graph.limit[p]
    BY <2>1, <2>2, FS_EmptySet
  <2> QED
    BY <2>3 DEF running
<1> QED
  BY <1>7, <1>8, <1>9, <1>10, <1>11 DEF RunInv

(* The running steps of a Parallel after admission are within its limit.   *)
LEMMA LimitKept ==
    ASSUME RunInv, NEW s, Keeps(s), NEW admitted \in Admissions(s),
           NEW t, t = SettleRun(Admit(s, admitted)), NEW p \in Parallels
    PROVE  Cardinality({n \in Nodes : /\ t.inv[n].status = "running"
                                      /\ \E x \in t.inv[n].path : x[1] = p})
              <= graph.limit[p]
<1> DEFINE now == {n \in Nodes : /\ inv[n].status = "running"
                                 /\ \E x \in inv[n].path : x[1] = p}
           then == {n \in Nodes : /\ t.inv[n].status = "running"
                                  /\ \E x \in t.inv[n].path : x[1] = p}
<1>1. IsFiniteSet(Nodes) /\ graph.limit[p] \in Nat
  BY Shape DEF RunInv, Types
<1>2. IsFiniteSet(now) /\ Cardinality(now) \in Nat /\ Cardinality(now) <= graph.limit[p]
  BY <1>1, FS_Subset, FS_CardinalityType DEF RunInv, BranchLimit
<1>3. /\ admitted \subseteq Nodes /\ (Stopping => admitted = {}) /\ (~Stopping => Fits(s, admitted))
      /\ \A n \in Nodes : n \notin admitted => t.inv[n] = s.inv[n]
      /\ \A n \in admitted : t.inv[n].status = "running" /\ t.inv[n].path = s.inv[n].path
  BY AdmitFacts
<1>4. then = (Running(s) \union admitted) \intersect Within(s, p)
  BY <1>3 DEF Running, Within, Status
<1>5. \A n \in Nodes : s.inv[n].status = "running" => s.inv[n] = inv[n]
  BY DEF Keeps, KeepsStep
<1>6. CASE admitted \intersect Within(s, p) = {}
  <2>1. then \subseteq now
    BY <1>4, <1>5, <1>6 DEF Running, Within, Status
  <2>2. Cardinality(then) \in Nat /\ Cardinality(then) <= Cardinality(now)
    BY <1>2, <2>1, FS_Subset, FS_CardinalityType
  <2> HIDE DEF then, now
  <2>3. Cardinality(then) <= graph.limit[p]
    BY <1>1, <1>2, <2>2
  <2> QED
    BY <2>3 DEF then
<1>7. CASE admitted \intersect Within(s, p) # {}
  <2>1. Fits(s, admitted)
    BY <1>3, <1>7
  <2> QED
    BY <1>4, <1>7, <2>1 DEF Fits
<1> QED
  BY <1>6, <1>7

(* The rows a plan saves, and that they are never refused: what the        *)
(* checkpoint expects of a row is what RowsFollow says of it.              *)
LEMMA RowsNeverRefuse ==
    ASSUME RunInv, run.status \notin EndStatuses, NEW s, Keeps(s),
           NEW admitted \in Admissions(s), NEW t, t = SettleRun(Admit(s, admitted))
    PROVE  ~Unsavable(t)
<1>1. run.ended # "emergency"
  BY DEF RunInv, EndedClosed
<1> SUFFICES ASSUME NEW n \in Nodes
             PROVE  /\ fact[n] \in Failures => row[n] = "running"
                    /\ inv[n].status = "waiting" => row[n] = "waiting"
                    /\ /\ fact[n] \notin Failures \union {"succeeded"}
                       /\ inv[n].status \notin Settled \union {"absent"}
                       => row[n] \in {"pending", "ready", "waiting"}
  BY DEF Unsavable
<1>2. /\ fact[n] \in Failures \union {"none", "succeeded", "wait"}
      /\ inv[n].status \in Statuses
      /\ fact[n] # "none" => inv[n].status = "running"
  BY DEF RunInv, Types, FactsOfRunning, Plan, Loaded, Invocation
<1>3. /\ inv[n].status = "running" =>
            row[n] = CASE fact[n] = "none" -> "ready"
                       [] fact[n] = "succeeded" -> "succeeded"
                       [] fact[n] = "wait" -> "waiting"
                       [] OTHER -> "running"
      /\ inv[n].status = "ready" => row[n] \in {"ready", "pending"}
      /\ inv[n].status \notin {"running", "ready"} => row[n] = inv[n].status
  BY <1>1 DEF RunInv, RowsFollow
<1> QED
  BY <1>2, <1>3 DEF Failures, Statuses, Settled, Open

LEMMA SaveKeeps ==
    ASSUME RunInv, wakes > 0, run.status \notin EndStatuses, graph' = graph,
           NEW s, Keeps(s), NEW admitted \in Admissions(s),
           NEW t, t = SettleRun(Admit(s, admitted)), Save(t, admitted)
    PROVE  RunInv'
<1>1. /\ run' = [run EXCEPT !.status = t.st, !.cancel = Cancel, !.expired = Expired,
                            !.ended = IF t.st \in EndStatuses THEN "engine" ELSE run.ended]
      /\ inv' = t.inv /\ join' = t.join /\ choice' = t.choice
      /\ row' = [n \in Nodes |-> SavedRow(t, admitted, n)]
      /\ fact' = [n \in Nodes |-> "none"]
      /\ due' = [n \in Nodes |-> due[n] /\ Status(t, n) = "waiting"]
      /\ wakes' \in {wakes, wakes - 1}
  BY DEF Save
<1>2. /\ SoundPlan(t) /\ Plan(t) /\ \A n \in Nodes : t.inv[n] \in Invocation
      /\ \A n \in Nodes : KeepsStep(n, s.inv[n])
      /\ admitted \subseteq Nodes
      /\ \A n \in Nodes : n \notin admitted => t.inv[n] = s.inv[n]
      /\ \A n \in admitted : t.inv[n].status = "running"
  BY AdmitSound, AdmitFacts DEF SoundPlan, Plan, Keeps
<1>3. /\ run.ended = "no" /\ run.ended # "emergency"
      /\ Cancel \in BOOLEAN /\ Expired \in BOOLEAN
      /\ (Cancel => run.asked) /\ (Expired => TimeUp)
  BY DEF RunInv, Types, EndedClosed, ToldToStop, Cancel, Expired, TimeUp
<1>4. /\ run' \in [status : EndStatuses \union {"queued", "running", "waiting"},
                   asked : BOOLEAN, cancel : BOOLEAN, expired : BOOLEAN,
                   deadline : {"none", "ahead", "past", "woken"},
                   ended : {"no", "engine", "emergency"}]
      /\ run'.asked = run.asked /\ run'.deadline = run.deadline
      /\ run'.cancel = Cancel /\ run'.expired = Expired /\ run'.status = t.st
      /\ run'.ended = IF t.st \in EndStatuses THEN "engine" ELSE "no"
  <2>1. t.st \in EndStatuses \union {"queued", "running", "waiting"}
    BY <1>2 DEF Plan
  <2>2. run \in [status : EndStatuses \union {"queued", "running", "waiting"},
                 asked : BOOLEAN, cancel : BOOLEAN, expired : BOOLEAN,
                 deadline : {"none", "ahead", "past", "woken"},
                 ended : {"no", "engine", "emergency"}]
    BY DEF RunInv, Types
  <2>3. PICK c \in BOOLEAN, x \in BOOLEAN : c = Cancel /\ x = Expired
    BY <1>3
  <2>4. run' = [run EXCEPT !.status = t.st, !.cancel = c, !.expired = x,
                           !.ended = IF t.st \in EndStatuses THEN "engine" ELSE "no"]
    BY <1>1, <1>3, <2>3
  <2> QED
    BY <2>1, <2>2, <2>3, <2>4
<1>5. StopsStay
  BY <1>4 DEF StopsStay, TimeUp
<1>6. SoundPlan(Loaded)'
  <2>1. t = Loaded'
    BY <1>1, <1>2, <1>4 DEF Plan, Loaded
  <2> QED
    BY <1>2, <1>5, <2>1, LoadedNext
<1>7. Types'
  <2>1. \A n \in Nodes : SavedRow(t, admitted, n) \in Statuses
    BY <1>2 DEF RunInv, Types, SavedRow, Status, Invocation, Statuses, Open
  <2>2. row' \in [Nodes -> Statuses]
    BY <1>1, <2>1
  <2>3. due' \in [Nodes -> BOOLEAN]
    BY <1>1 DEF RunInv, Types
  <2>4. fact' \in [Nodes -> Failures \union {"none", "succeeded", "wait"}]
    BY <1>1
  <2>5. wakes' \in 0 .. MaxWakes
    BY <1>1, BoundsAssumption DEF RunInv, Types
  <2> QED
    BY <1>4, <1>6, <2>2, <2>3, <2>4, <2>5 DEF RunInv, Types, SoundPlan, Nodes
<1>8. FactsOfRunning' /\ ToldToStop'
  BY <1>1, <1>3, <1>4, <1>5 DEF FactsOfRunning, ToldToStop, StopsStay, Nodes, TimeUp
<1>9. EndedClosed'
  BY <1>1, <1>4, <1>5, EndFacts DEF EndedClosed, Status, StopsStay, Nodes
<1>10. RowsFollow'
  <2> SUFFICES ASSUME NEW n \in Nodes
               PROVE  CASE t.inv[n].status = "running" -> row'[n] = "ready"
                        [] t.inv[n].status = "ready" ->
                             row'[n] = "ready" \/ (n \in Merges /\ row'[n] = "pending")
                        [] OTHER -> row'[n] = t.inv[n].status
    BY <1>1, <1>5 DEF RowsFollow, StopsStay, Nodes, Merges
  <2>1. row'[n] = SavedRow(t, admitted, n)
    BY <1>1
  <2>2. CASE n \in admitted
    BY <1>2, <2>1, <2>2 DEF SavedRow
  <2>3. CASE n \notin admitted
    <3>1. t.inv[n] = s.inv[n] /\ KeepsStep(n, t.inv[n])
      BY <1>2, <2>3
    <3>2. CASE t.inv[n].status = "running"
      <4>1. inv[n].status = "running" /\ fact[n] = "none"
        BY <3>1, <3>2 DEF KeepsStep
      <4>2. row[n] = "ready"
        BY <1>3, <4>1 DEF RunInv, RowsFollow
      <4>3. row'[n] = row[n]
        BY <2>1, <2>3, <3>2 DEF SavedRow, Status
      <4> QED
        BY <3>2, <4>2, <4>3
    <3>3. CASE t.inv[n].status = "ready" /\ inv[n].status \in {"pending", "ready"}
      <4>1. row'[n] = row[n]
        BY <2>1, <2>3, <3>3 DEF SavedRow, Status
      <4>2. inv[n].status = "pending" => n \in Merges
        BY DEF RunInv, SoundPlan, SoundStep, Loaded
      <4>3. row[n] = "ready" \/ (n \in Merges /\ row[n] = "pending")
        BY <1>3, <3>3, <4>2 DEF RunInv, RowsFollow
      <4> QED
        BY <3>3, <4>1, <4>3
    <3>4. CASE /\ t.inv[n].status # "running"
               /\ ~(t.inv[n].status = "ready" /\ inv[n].status \in {"pending", "ready"})
      BY <2>1, <2>3, <3>4 DEF SavedRow, Status
    <3> QED
      BY <3>2, <3>3, <3>4
  <2> QED
    BY <2>2, <2>3
<1>11. BranchLimit'
  <2>1. \A p \in Parallels :
           Cardinality({n \in Nodes : /\ t.inv[n].status = "running"
                                      /\ \E x \in t.inv[n].path : x[1] = p})
              <= graph.limit[p]
    BY LimitKept
  <2> QED
    BY <1>1, <1>5, <2>1 DEF BranchLimit, StopsStay, Nodes, Parallels
<1> QED
  BY <1>6, <1>7, <1>8, <1>9, <1>10, <1>11 DEF RunInv

(* What one advance does, apart from ending a run it cannot advance.       *)
Planning(s, admitted, t) ==
    /\ Keeps(s)
    /\ admitted \in Admissions(s)
    /\ t = SettleRun(Admit(s, admitted))
    /\ Save(t, admitted)

(* What the plan comes from: facts that the engine does not refuse.        *)
Foreseen(s) ==
    \E sel \in Selections :
        /\ \A c \in DOMAIN sel : sel[c] \in Ports(c)
        /\ ~Inconsistent(Told(sel))
        /\ s = Stop(Planned(Told(sel)))

LEMMA AdvanceFacts ==
    ASSUME RunInv, Advance
    PROVE  /\ wakes > 0 /\ run.status \notin EndStatuses /\ graph' = graph
           /\ \/ FailUnadvanceable
              \/ \E s, admitted, t : Planning(s, admitted, t) /\ Foreseen(s)
<1>1. PICK sel \in Selections : \E told \in {Told(sel)} :
          /\ \A c \in DOMAIN sel : sel[c] \in Ports(c)
          /\ \E planned \in {Stop(Planned(told))} :
             \E admitted \in Admissions(planned) :
             \E s \in {SettleRun(Admit(planned, admitted))} :
                IF Inconsistent(told) \/ Unsavable(s) THEN FailUnadvanceable
                ELSE Save(s, admitted)
  BY DEF Advance
<1>2. PICK told : /\ told = Told(sel) /\ \A c \in DOMAIN sel : sel[c] \in Ports(c)
                  /\ \E planned \in {Stop(Planned(told))} :
                     \E admitted \in Admissions(planned) :
                     \E s \in {SettleRun(Admit(planned, admitted))} :
                        IF Inconsistent(told) \/ Unsavable(s) THEN FailUnadvanceable
                        ELSE Save(s, admitted)
  BY <1>1
<1>3. PICK planned, admitted, s :
         /\ planned = Stop(Planned(told)) /\ admitted \in Admissions(planned)
         /\ s = SettleRun(Admit(planned, admitted))
         /\ IF Inconsistent(told) \/ Unsavable(s) THEN FailUnadvanceable
            ELSE Save(s, admitted)
  BY <1>2
<1>4. CASE ~FailUnadvanceable
  <2>1. ~Inconsistent(told) /\ Save(s, admitted)
    BY <1>3, <1>4
  <2>2. Keeps(planned)
    BY <1>2, <1>3, <2>1, PlanKeeps
  <2>3. Planning(planned, admitted, s)
    BY <1>3, <2>1, <2>2 DEF Planning
  <2>4. Foreseen(planned)
    BY <1>2, <1>3, <2>1 DEF Foreseen
  <2> QED
    BY <2>3, <2>4 DEF Advance
<1> QED
  BY <1>4 DEF Advance

LEMMA InitSound ==
    ASSUME Init
    PROVE  RunInv /\ EndsSettled
<1>1. /\ graph \in Graphs /\ inv = [n \in Nodes |-> Absent]
      /\ join = [m \in Merges |-> Undeclared] /\ choice = [c \in Choices |-> NoPort]
      /\ row = [n \in Nodes |-> "absent"] /\ fact = [n \in Nodes |-> "none"]
      /\ due = [n \in Nodes |-> FALSE] /\ wakes = 1
  BY DEF Init
<1>2. /\ run \in [status : EndStatuses \union {"queued", "running", "waiting"},
                  asked : BOOLEAN, cancel : BOOLEAN, expired : BOOLEAN,
                  deadline : {"none", "ahead", "past", "woken"},
                  ended : {"no", "engine", "emergency"}]
      /\ run.status = "queued" /\ ~run.cancel /\ ~run.expired /\ run.ended = "no"
  BY DEF Init
<1>3. Plan(Loaded)
  BY <1>1, <1>2, AbsentTyped DEF Plan, Loaded, Selectable
<1>4. Types
  BY <1>1, <1>2, <1>3, BoundsAssumption DEF Types, Statuses
<1>5. SoundPlan(Loaded)
  <2>1. \A n \in Nodes : SoundStep(n, Loaded.inv[n])
    BY <1>1, BoundsAssumption DEF SoundStep, Loaded, Absent
  <2>2. HandledWell(Loaded) /\ DecidedClosed(Loaded) /\ Ordered(Loaded)
    BY <1>1 DEF HandledWell, DecidedClosed, Ordered, UnderWay, Loaded, Absent, Undeclared
  <2> QED
    BY <1>3, <2>1, <2>2 DEF SoundPlan
<1>6. FactsOfRunning /\ ToldToStop /\ EndedClosed
  BY <1>1, <1>2 DEF FactsOfRunning, ToldToStop, EndedClosed, EndStatuses
<1>7. RowsFollow
  BY <1>1 DEF RowsFollow, Absent
<1>8. BranchLimit
  <2> SUFFICES ASSUME NEW p \in Parallels
               PROVE  Cardinality({n \in Nodes : /\ inv[n].status = "running"
                                                 /\ \E x \in inv[n].path : x[1] = p})
                         <= graph.limit[p]
    BY DEF BranchLimit
  <2> DEFINE running == {n \in Nodes : /\ inv[n].status = "running"
                                       /\ \E x \in inv[n].path : x[1] = p}
  <2>1. running = {}
    BY <1>1 DEF Absent
  <2>2. graph.limit[p] \in Nat
    BY <1>1, Shape
  <2> HIDE DEF running
  <2>3. Cardinality(running) <= graph.limit[p]
    BY <2>1, <2>2, FS_EmptySet
  <2> QED
    BY <2>3 DEF running
<1>9. EndsSettled
  BY <1>2 DEF EndsSettled, EndStatuses
<1> QED
  BY <1>4, <1>5, <1>6, <1>7, <1>8, <1>9 DEF RunInv

LEMMA NextKeeps ==
    ASSUME RunInv, [Next]_vars
    PROVE  RunInv'
<1>1. CASE Advance
  <2>1. /\ wakes > 0 /\ run.status \notin EndStatuses /\ graph' = graph
        /\ FailUnadvanceable \/ \E s, admitted, t : Planning(s, admitted, t)
    BY <1>1, AdvanceFacts
  <2>2. CASE FailUnadvanceable
    BY <2>1, <2>2, EmergencyKeeps
  <2>3. ASSUME NEW s, NEW admitted, NEW t, Planning(s, admitted, t) PROVE RunInv'
    BY <2>1, <2>3, SaveKeeps DEF Planning
  <2> QED
    BY <2>1, <2>2, <2>3
<1>2. CASE RequestCancel \/ DeadlinePasses \/ WakeForDeadline \/ Idle
  BY <1>2, SettledRunKeeps
<1>3. ASSUME NEW n \in Nodes, Complete(n) PROVE RunInv'
  BY <1>3, CompleteKeeps
<1>4. ASSUME NEW n \in Nodes, Due(n) PROVE RunInv'
  BY <1>4, DueKeeps
<1>5. CASE UNCHANGED vars
  <2>1. /\ StopsStay /\ UNCHANGED <<graph, run, inv, join, choice, row, fact, due, wakes>>
    BY <1>5 DEF vars, StopsStay, TimeUp
  <2>2. SoundPlan(Loaded)'
    <3>1. SoundPlan(Loaded) /\ Loaded' = Loaded
      BY <2>1 DEF RunInv, Loaded
    <3> QED
      BY <2>1, <3>1, LoadedNext
  <2>3. Types'
    BY <2>1, <2>2 DEF RunInv, Types, SoundPlan, Nodes
  <2>4. FactsOfRunning' /\ ToldToStop' /\ EndedClosed'
    BY <2>1 DEF RunInv, FactsOfRunning, ToldToStop, EndedClosed, Nodes, TimeUp
  <2>5. RowsFollow' /\ BranchLimit'
    BY <2>1, SameRows, SameBranches DEF RunInv
  <2> QED
    BY <2>2, <2>3, <2>4, <2>5 DEF RunInv
<1> QED
  BY <1>1, <1>2, <1>3, <1>4, <1>5 DEF Next

LEMMA EndsKeep ==
    ASSUME RunInv, EndsSettled, [Next]_vars
    PROVE  EndsSettled'
<1>1. CASE Advance
  <2>1. /\ wakes > 0 /\ run.status \notin EndStatuses /\ graph' = graph
        /\ FailUnadvanceable \/ \E s, admitted, t : Planning(s, admitted, t)
    BY <1>1, AdvanceFacts
  <2>2. CASE FailUnadvanceable
    <3>1. /\ row' = [n \in Nodes |-> EmergencyRow(n)]
          /\ run'.status = IF \E n \in Nodes : row'[n] = "outcome_unknown"
                             THEN "outcome_unknown" ELSE "failed"
      BY <2>2 DEF FailUnadvanceable, RunInv, Types
    <3>2. \A n \in Nodes : EmergencyRow(n) \notin Open
      BY DEF EmergencyRow, Open
    <3> QED
      BY <2>1, <3>1, <3>2 DEF EndsSettled, Nodes
  <2>3. ASSUME NEW s, NEW admitted, NEW t, Planning(s, admitted, t) PROVE EndsSettled'
    <3>1. /\ Keeps(s) /\ admitted \in Admissions(s) /\ t = SettleRun(Admit(s, admitted))
          /\ Save(t, admitted)
      BY <2>3 DEF Planning
    <3>2. /\ run'.status = t.st /\ run'.asked = run.asked /\ run'.deadline = run.deadline
          /\ row' = [n \in Nodes |-> SavedRow(t, admitted, n)]
      BY <3>1 DEF Save, RunInv, Types
    <3> SUFFICES ASSUME t.st \in EndStatuses PROVE EndsSettled'
      BY <3>2 DEF EndsSettled
    <3>3. /\ \A n \in Nodes : Status(t, n) \notin Open
          /\ t.st = "outcome_unknown" <=> \E n \in Nodes : Status(t, n) = "outcome_unknown"
          /\ t.st = "canceled" => run.asked
          /\ t.st = "timed_out" => TimeUp
          /\ t.st = "succeeded" =>
                \A n \in Nodes :
                   \/ Status(t, n) \in {"succeeded", "skipped"}
                   \/ Status(t, n) = "failed" /\ t.inv[n].handling = "handled"
      BY <2>1, <3>1, EndFacts
    <3>4. SoundPlan(t) /\ \A n \in admitted : t.inv[n].status = "running" /\ n \in Nodes
      BY <3>1, AdmitSound, AdmitFacts
    <3>5. \A n \in Nodes : row'[n] = Status(t, n)
      <4>1. \A n \in Nodes : SavedRow(t, admitted, n) = Status(t, n)
        BY <3>3, <3>4 DEF SavedRow, Status, Open
      <4> QED
        BY <3>2, <4>1
    <3>6. ASSUME NEW n \in Nodes, Status(t, n) = "failed", t.inv[n].handling = "handled",
                 NEW h \in RouteOf(n).handlers
          PROVE  row'[h] = "succeeded"
      <4>1. Routed(n) /\ Status(t, h) = "succeeded"
        BY <3>4, <3>6 DEF SoundPlan, SoundStep, HandledWell
      <4>2. h \in Nodes
        BY <4>1, RouteFacts DEF RunInv, Types
      <4> QED
        BY <3>5, <4>1, <4>2
    <3>7. (\A n \in Nodes : row[n] \notin Open)'
      BY <2>1, <3>3, <3>5 DEF Nodes
    <3>8. (run.status = "succeeded" =>
              \A n \in Nodes :
                  \/ row[n] \in {"succeeded", "skipped"}
                  \/ /\ row[n] = "failed"
                     /\ \A h \in RouteOf(n).handlers : row[h] = "succeeded")'
      BY <2>1, <3>2, <3>3, <3>5, <3>6 DEF Nodes, RouteOf
    <3>9. /\ (run.status = "canceled" => run.asked)'
          /\ (run.status = "timed_out" => run.deadline \in {"past", "woken"})'
      BY <3>2, <3>3 DEF TimeUp
    <3>10. (run.status = "outcome_unknown" <=> \E n \in Nodes : row[n] = "outcome_unknown")'
      BY <2>1, <3>2, <3>3, <3>5 DEF Nodes
    <3> QED
      BY <3>7, <3>8, <3>9, <3>10 DEF EndsSettled
  <2> QED
    BY <2>1, <2>2, <2>3
<1>2. ASSUME StopsStay, run'.status = run.status,
             run.status \in EndStatuses => row' = row
      PROVE  EndsSettled'
  BY <1>2 DEF EndsSettled, StopsStay, Nodes, RouteOf, TimeUp
<1>3. CASE RequestCancel \/ DeadlinePasses \/ WakeForDeadline \/ Idle
  <2>1. StopsStay /\ run'.status = run.status /\ row' = row
    BY <1>3 DEF RunInv, Types, RequestCancel, DeadlinePasses, WakeForDeadline, Idle,
                StopsStay, TimeUp
  <2> QED
    BY <1>2, <2>1
<1>4. ASSUME NEW n \in Nodes, Complete(n) \/ Due(n) PROVE EndsSettled'
  <2>1. graph' = graph /\ run' = run /\ (inv[n].status = "running" \/ row' = row)
    BY <1>4 DEF Complete, Due
  <2>2. StopsStay /\ run'.status = run.status
    BY <2>1 DEF StopsStay, TimeUp
  <2>3. run.status \in EndStatuses => inv[n].status # "running"
    BY DEF RunInv, EndedClosed, Open
  <2> QED
    BY <1>2, <2>1, <2>2, <2>3
<1>5. CASE UNCHANGED vars
  <2>1. StopsStay /\ run'.status = run.status /\ row' = row
    BY <1>5 DEF vars, StopsStay, TimeUp
  <2> QED
    BY <1>2, <2>1
<1> QED
  BY <1>1, <1>3, <1>4, <1>5 DEF Next

-----------------------------------------------------------------------------
(* Theorems.                                                               *)

LEMMA RunSafe == Spec => [](RunInv /\ EndsSettled)
<1>1. Init => RunInv /\ EndsSettled
  BY InitSound
<1>2. (RunInv /\ EndsSettled) /\ [Next]_vars => (RunInv /\ EndsSettled)'
  BY NextKeeps, EndsKeep
<1> QED
  BY <1>1, <1>2, PTL DEF Spec

\* The run's row, the checkpoint, the step rows, the reported facts, the timers
\* and the jobs keep their types, and a ledger exists for declared joins only,
\* through every advance (coordinator-service advanceRun and its stages).
THEOREM GraphTypeCorrect == Spec => []TypeOK
<1>1. RunInv => TypeOK
  <2> SUFFICES ASSUME RunInv PROVE TypeOK
    OBVIOUS
  <2>1. /\ Plan(Loaded) /\ graph \in Graphs
        /\ row \in [Nodes -> Statuses]
        /\ fact \in [Nodes -> Failures \union {"none", "succeeded", "wait"}]
        /\ due \in [Nodes -> BOOLEAN] /\ wakes \in 0 .. MaxWakes
        /\ run \in [status : EndStatuses \union {"queued", "running", "waiting"},
                    asked : BOOLEAN, cancel : BOOLEAN, expired : BOOLEAN,
                    deadline : {"none", "ahead", "past", "woken"},
                    ended : {"no", "engine", "emergency"}]
    BY DEF RunInv, Types
  <2>2. inv \in [Nodes -> Invocation] /\ choice \in [Choices -> Selectable]
    BY <2>1 DEF Plan, Loaded
  <2>3. join = [m \in Merges |-> join[m]] /\ \A m \in Merges : join[m] \in JoinOf(m)
    BY <2>1 DEF Plan, Loaded
  <2>4. DOMAIN join = Merges
    BY <2>3
  <2>5. \A m \in Merges :
           /\ join[m].state \in {"undeclared", "open", "satisfied", "unsatisfied"}
           /\ join[m].state # "undeclared"
                => join[m].ledger \in [Ports(Pair(m)) -> Dispositions]
           /\ join[m].selected \subseteq DOMAIN join[m].ledger
    BY <2>3 DEF JoinOf, DeclaredJoin, Undeclared
  <2> QED
    BY <2>1, <2>2, <2>4, <2>5 DEF TypeOK, Statuses, Invocation, Paths, Selectable
<1> QED
  BY <1>1, RunSafe, PTL

\* For every workflow and order of events: the rows that operators read and
\* workers claim from differ from the checkpoint only by the facts that no
\* advance has consumed and by a Merge that is ready but was not admitted
\* (saveAdvancedRun, projectInvocations).
THEOREM RowsNeverDrift == Spec => []RowsFollow
<1>1. RunInv => RowsFollow
  BY DEF RunInv
<1> QED
  BY <1>1, RunSafe, PTL

\* For every workflow and order of events: an ended run left nothing open and
\* says the truth about it, whether it succeeded with handled failures, was
\* canceled, timed out, hides no unknown outcome, or could not be advanced
\* (deriveTerminalRunStatus, failUnadvanceableRun).
THEOREM EndedRunsTellTheTruth == Spec => []EndsSettled
<1> QED
  BY RunSafe, PTL

\* For every workflow and order of events: a Parallel never has more steps
\* running than its maxConcurrency, also when a retry or a wait frees a place
\* and the step that left it comes back (admitReadyNodes).
THEOREM ParallelLimitHolds == Spec => []BranchLimit
<1>1. RunInv => BranchLimit
  BY DEF RunInv
<1> QED
  BY <1>1, RunSafe, PTL

(* What an advance that is saved does to attempts and joins.               *)
LEMMA PlanningFacts ==
    ASSUME RunInv, NEW s, NEW admitted, NEW t, Planning(s, admitted, t)
    PROVE  /\ \A n \in Nodes : n \notin admitted => inv'[n].attempt <= inv[n].attempt
           /\ Stopping => admitted = {}
           /\ \A m \in Merges : KeepsJoin(m, join'[m])
<1>1. /\ Keeps(s) /\ admitted \in Admissions(s) /\ t = SettleRun(Admit(s, admitted))
      /\ inv' = t.inv /\ join' = t.join
  BY DEF Planning, Save
<1>2. /\ \A n \in Nodes : n \notin admitted => t.inv[n] = s.inv[n]
      /\ Stopping => admitted = {}
  BY <1>1, AdmitFacts
<1>3. \A m \in Merges : KeepsJoin(m, t.join[m])
  BY <1>1, AdmitSound
<1>4. \A n \in Nodes : s.inv[n].attempt <= inv[n].attempt
  BY <1>1 DEF Keeps, KeepsStep
<1> QED
  BY <1>1, <1>2, <1>3, <1>4

\* For every workflow and order of events: once a cancellation is recorded or
\* the deadline has passed no attempt is admitted any more, whatever is due,
\* ready or to be retried by then (advanceRun's order of stops and admission).
THEOREM StopsAdmitNothing == Spec => NothingStartsAfterStop
<1> DEFINE Kept == run.asked \/ run.deadline \in {"past", "woken"} =>
                     \A n \in Nodes : inv'[n].attempt <= inv[n].attempt
<1>1. RunInv /\ [Next]_vars => [Kept]_vars
  <2> SUFFICES ASSUME RunInv, Next, run.asked \/ TimeUp, NEW n \in Nodes
               PROVE  inv'[n].attempt <= inv[n].attempt
    BY DEF TimeUp
  <2>1. inv[n].attempt \in Nat /\ inv[n].attempt <= inv[n].attempt
    BY DEF RunInv, Types, Plan, Loaded, Invocation
  <2>2. Stopping
    BY DEF Stopping, Cancel, Expired, TimeUp
  <2>3. CASE Advance
    <3>1. CASE FailUnadvanceable
      BY <2>1, <3>1 DEF FailUnadvanceable, Absent
    <3>2. ASSUME NEW s, NEW admitted, NEW t, Planning(s, admitted, t)
          PROVE  inv'[n].attempt <= inv[n].attempt
      BY <2>2, <3>2, PlanningFacts
    <3> QED
      BY <2>3, <3>1, <3>2, AdvanceFacts
  <2>4. CASE ~Advance
    <3>1. inv' = inv
      BY <2>4 DEF Next, Idle, Complete, Due, RequestCancel, DeadlinePasses, WakeForDeadline,
                  checkpoint
    <3> QED
      BY <2>1, <3>1
  <2> QED
    BY <2>3, <2>4
<1> QED
  BY <1>1, RunSafe, PTL DEF Spec, NothingStartsAfterStop

\* For every workflow and order of events: what a join recorded is never
\* revised; a closed branch keeps its disposition and a decided join its
\* decision and its selected branches (recordBranchDisposition, settleJoin).
THEOREM LedgersNeverRevised == Spec => LedgerFixed
<1> DEFINE Kept == run'.ended # "emergency" =>
              \A m \in Merges : join[m].state # "undeclared" =>
                 /\ \A b \in Ports(Pair(m)) : join[m].ledger[b] # "pending"
                       => join'[m].ledger[b] = join[m].ledger[b]
                 /\ join[m].state # "open" => join'[m] = join[m]
<1>1. RunInv /\ [Next]_vars => [Kept]_vars
  <2> SUFFICES ASSUME RunInv, Next, run'.ended # "emergency",
                      NEW m \in Merges, join[m].state # "undeclared"
               PROVE  /\ \A b \in Ports(Pair(m)) : join[m].ledger[b] # "pending"
                            => join'[m].ledger[b] = join[m].ledger[b]
                      /\ join[m].state # "open" => join'[m] = join[m]
    OBVIOUS
  <2>1. CASE Advance
    <3>1. ~FailUnadvanceable
      BY DEF FailUnadvanceable, RunInv, Types
    <3>2. PICK s, admitted, t : Planning(s, admitted, t)
      BY <2>1, <3>1, AdvanceFacts
    <3>3. KeepsJoin(m, join'[m])
      BY <3>2, PlanningFacts
    <3> QED
      BY <3>3 DEF KeepsJoin
  <2>2. CASE ~Advance
    <3>1. join' = join
      BY <2>2 DEF Next, Idle, Complete, Due, RequestCancel, DeadlinePasses, WakeForDeadline,
                  checkpoint
    <3> QED
      BY <3>1
  <2> QED
    BY <2>1, <2>2
<1> QED
  BY <1>1, RunSafe, PTL DEF Spec, LedgerFixed

(* A row that says how a step ended, or that it was skipped, is its status. *)
LEMMA RowsSettled ==
    ASSUME RunInv, run.ended # "emergency", NEW p \in Nodes,
           inv[p].status \in {"succeeded", "skipped", "failed"}
    PROVE  row[p] = inv[p].status
<1>1. RowsFollow
  BY DEF RunInv
<1> QED
  BY <1>1 DEF RowsFollow

\* For every workflow and order of events: a step has been admitted only after
\* what it depends on, a handler's entry only after its source failed, and a
\* Merge only when its policy is met (isNodeReady, settleJoin).
THEOREM StepsRunInOrder == Spec => []InOrder
<1>1. RunInv => InOrder
  <2> SUFFICES ASSUME RunInv, NEW n \in Nodes, inv[n].attempt > 0
               PROVE  IF n \in Merges THEN join[n].state = "satisfied"
                      ELSE \A p \in Preds(n) :
                              \/ row[p] \in {"succeeded", "skipped"}
                              \/ \E r \in graph.routes : r.source = p /\ r.entry = n
                                                            /\ row[p] = "failed"
    BY DEF InOrder
  <2>1. graph \in Graphs /\ EndedClosed /\ Loaded.inv = inv /\ Loaded.join = join
    BY DEF RunInv, Types, Loaded
  <2>2. run.ended # "emergency"
    BY <2>1 DEF EndedClosed, Absent
  <2>3. InTurn(Loaded, n)
    BY <2>1 DEF RunInv, SoundPlan, Ordered, UnderWay
  <2>4. CASE n \in Merges
    BY <2>1, <2>3, <2>4 DEF InTurn
  <2>5. ASSUME n \notin Merges, NEW p \in Preds(n)
        PROVE  \/ row[p] \in {"succeeded", "skipped"}
               \/ \E r \in graph.routes : r.source = p /\ r.entry = n /\ row[p] = "failed"
    <3>1. Passed(Loaded, p, n) /\ p \in Nodes
      BY <2>1, <2>3, <2>5, Shape DEF InTurn
    <3>2. CASE inv[p].status \in {"succeeded", "skipped"}
      BY <2>2, <3>1, <3>2, RowsSettled
    <3>3. CASE \E r \in Taken(Loaded) : r.source = p /\ r.entry = n
      <4>1. PICK r \in graph.routes : inv[p].handling # "none" /\ r.source = p /\ r.entry = n
        BY <2>1, <3>3 DEF Taken
      <4>2. SoundStep(p, inv[p])
        BY <2>1, <3>1 DEF RunInv, SoundPlan
      <4>3. inv[p].status = "failed"
        BY <4>1, <4>2 DEF SoundStep
      <4>4. row[p] = "failed"
        BY <2>2, <3>1, <4>3, RowsSettled
      <4> QED
        BY <4>1, <4>4
    <3> QED
      BY <2>1, <3>1, <3>2, <3>3 DEF Passed, Status
  <2> QED
    BY <2>4, <2>5
<1> QED
  BY <1>1, RunSafe, PTL

(* The engine finds a contradiction in what an advance would tell it.      *)
EngineRefuses == \E sel \in Selections : Inconsistent(Told(sel))

\* For every workflow and order of events: a run is given up without the engine
\* only where the engine itself refuses what it is told.  The step rows, written
\* by other transactions, never refuse a plan it made (projectInvocations'
\* expected statuses, isRunUnadvanceable).
THEOREM RowsRefuseNoPlan ==
    Spec => [][run.ended # "emergency" /\ run'.ended = "emergency" => EngineRefuses]_vars
<1>1. ASSUME RunInv, Next, run.ended # "emergency", run'.ended = "emergency",
             ~EngineRefuses
      PROVE  FALSE
  <2>1. ASSUME RequestCancel \/ DeadlinePasses \/ WakeForDeadline \/ Idle
        PROVE  run'.ended = run.ended
    BY <1>1, <2>1 DEF RunInv, Types, RequestCancel, DeadlinePasses, WakeForDeadline, Idle
  <2>2. ASSUME NEW n \in Nodes, Complete(n) \/ Due(n) PROVE run'.ended = run.ended
    BY <2>2 DEF Complete, Due
  <2>3. Advance
    BY <1>1, <2>1, <2>2 DEF Next
  <2>4. PICK sel \in Selections : \E told \in {Told(sel)} :
            /\ \A c \in DOMAIN sel : sel[c] \in Ports(c)
            /\ \E planned \in {Stop(Planned(told))} :
               \E admitted \in Admissions(planned) :
               \E s \in {SettleRun(Admit(planned, admitted))} :
                  IF Inconsistent(told) \/ Unsavable(s) THEN FailUnadvanceable
                  ELSE Save(s, admitted)
    BY <2>3 DEF Advance
  <2>5. PICK told : /\ told = Told(sel)
                    /\ \E planned \in {Stop(Planned(told))} :
                       \E admitted \in Admissions(planned) :
                       \E s \in {SettleRun(Admit(planned, admitted))} :
                          IF Inconsistent(told) \/ Unsavable(s) THEN FailUnadvanceable
                          ELSE Save(s, admitted)
    BY <2>4
  <2>6. PICK planned, admitted, s :
           /\ planned = Stop(Planned(told)) /\ admitted \in Admissions(planned)
           /\ s = SettleRun(Admit(planned, admitted))
           /\ IF Inconsistent(told) \/ Unsavable(s) THEN FailUnadvanceable
              ELSE Save(s, admitted)
    BY <2>5
  <2>7. ~Inconsistent(told)
    BY <1>1, <2>5 DEF EngineRefuses
  <2>8. run.status \notin EndStatuses
    BY <2>3 DEF Advance
  <2>9. Keeps(planned)
    BY <1>1, <2>4, <2>5, <2>6, <2>7, <2>8, PlanKeeps
  <2>10. ~Unsavable(s)
    BY <1>1, <2>6, <2>8, <2>9, RowsNeverRefuse
  <2>11. Save(s, admitted)
    BY <2>6, <2>7, <2>10
  <2>12. run'.ended \in {"engine", run.ended}
    BY <1>1, <2>11 DEF Save, RunInv, Types
  <2> QED
    BY <1>1, <2>12
<1>2. RunInv /\ [Next]_vars =>
          [run.ended # "emergency" /\ run'.ended = "emergency" => EngineRefuses]_vars
  BY <1>1 DEF vars
<1> QED
  BY <1>2, RunSafe, PTL DEF Spec

-----------------------------------------------------------------------------
(* Sets that grow from the links of a workflow until nothing is added.     *)

(* Induction up to a number, over a set instead of an operator.            *)
LEMMA Reaches ==
    ASSUME NEW n \in Nat, NEW S, 0 \in S, \A k \in 0 .. n : k # n /\ k \in S => k + 1 \in S
    PROVE  n \in S
<1> DEFINE Less == {p \in Nat \X Nat : p[1] < p[2]}
           T == (0 .. n) \ S
<1> SUFFICES ASSUME n \notin S PROVE FALSE
  OBVIOUS
<1>1. IsWellFoundedOn(Less, Nat)
  BY NatLessThanWellFounded, Zenon DEF OpToRel
<1>2. T \subseteq Nat /\ n \in T
  OBVIOUS
<1>3. PICK k \in T : \A j \in T : ~(<<j, k>> \in Less)
  <2> HIDE DEF Less, T
  <2> QED
    BY <1>1, <1>2, WFMin, Zenon
<1>4. k \in 0 .. n /\ k \notin S /\ k # 0 /\ k - 1 \in Nat /\ k - 1 < k
  OBVIOUS
<1>5. k - 1 \notin T
  <2>1. <<k - 1, k>> \in Less
    BY <1>2, <1>4
  <2> HIDE DEF Less, T
  <2> QED
    BY <1>3, <2>1
<1>6. k - 1 \in S /\ k - 1 \in 0 .. n /\ k - 1 # n
  BY <1>4, <1>5
<1>7. (k - 1) + 1 \in S
  BY <1>6
<1> QED
  BY <1>4, <1>7

(* The rounds of an iteration of F from a.                                 *)
Iterates(f, a, F, n) == f = [k \in 0 .. n |-> IF k = 0 THEN a ELSE F[f[k - 1]]]
Rounds(f, N, a, F) ==
    /\ f \in [0 .. Cardinality(N) -> SUBSET N]
    /\ f[0] = a
    /\ \A k \in 1 .. Cardinality(N) : f[k] = F[f[k - 1]]
    /\ Grown(N, a, F) = f[Cardinality(N)]

(* The iteration of Grown exists, and so is what its definition says.      *)
LEMMA IterationExists ==
    ASSUME NEW S, NEW F \in [S -> S], NEW a \in S, NEW n \in Nat
    PROVE  \E f \in [0 .. n -> S] : Iterates(f, a, F, n)
<1> DEFINE Good(i, f) == f[0] = a /\ \A k \in 1 .. i : f[k] = F[f[k - 1]]
           D == {i \in Nat : \E f \in [0 .. i -> S] : Good(i, f)}
<1>1. 0 \in D
  <2>1. [k \in 0 .. 0 |-> a] \in [0 .. 0 -> S] /\ Good(0, [k \in 0 .. 0 |-> a])
    OBVIOUS
  <2> QED
    BY <2>1
<1>2. ASSUME NEW i \in 0 .. n, i \in D PROVE i + 1 \in D
  <2>1. PICK f \in [0 .. i -> S] : Good(i, f)
    BY <1>2
  <2> DEFINE g == [k \in 0 .. i + 1 |-> IF k = i + 1 THEN F[f[i]] ELSE f[k]]
  <2>2. g \in [0 .. i + 1 -> S]
    OBVIOUS
  <2>3. g[0] = a
    BY <2>1
  <2>4. \A k \in 1 .. i + 1 : g[k] = F[g[k - 1]]
    <3> SUFFICES ASSUME NEW k \in 1 .. i + 1 PROVE g[k] = F[g[k - 1]]
      OBVIOUS
    <3>1. k - 1 \in 0 .. i /\ g[k - 1] = f[k - 1]
      OBVIOUS
    <3>2. CASE k = i + 1
      BY <3>1, <3>2
    <3>3. CASE k # i + 1
      <4>1. k \in 1 .. i
        BY <3>3
      <4> QED
        BY <2>1, <3>1, <4>1
    <3> QED
      BY <3>2, <3>3
  <2> HIDE DEF g
  <2>5. Good(i + 1, g)
    BY <2>3, <2>4
  <2> QED
    BY <2>2, <2>5
<1> HIDE DEF D
<1>3. n \in D
  BY <1>1, <1>2, Reaches
<1>4. PICK f \in [0 .. n -> S] : Good(n, f)
  BY <1>3 DEF D
<1>5. f = [k \in 0 .. n |-> IF k = 0 THEN a ELSE F[f[k - 1]]]
  <2>1. \A k \in 0 .. n : f[k] = IF k = 0 THEN a ELSE F[f[k - 1]]
    BY <1>4
  <2> QED
    BY <2>1
<1> QED
  BY <1>5 DEF Iterates

LEMMA GrownSteps ==
    ASSUME NEW N, IsFiniteSet(N), NEW a \in SUBSET N, NEW F \in [SUBSET N -> SUBSET N]
    PROVE  \E f : Rounds(f, N, a, F)
<1> DEFINE S == SUBSET N
           n == Cardinality(N)
           f == CHOOSE g : Iterates(g, a, F, n)
<1>1. n \in Nat /\ a \in S /\ F \in [S -> S]
  BY FS_CardinalityType
<1>2. Grown(N, a, F) = f[n]
  BY DEF Grown, Iterates
<1> HIDE DEF n, S
<1>3. \E g \in [0 .. n -> S] : Iterates(g, a, F, n)
  BY <1>1, IterationExists
<1>4. Iterates(f, a, F, n)
  BY <1>3, Zenon
<1> HIDE DEF f
<1>5. /\ DOMAIN f = 0 .. n
      /\ \A k \in 0 .. n : f[k] = IF k = 0 THEN a ELSE F[f[k - 1]]
  BY <1>4, Zenon DEF Iterates
<1>6. f[0] = a
  BY <1>1, <1>5
<1>7. \A k \in 1 .. n : k \in 0 .. n /\ f[k] = F[f[k - 1]]
  BY <1>1, <1>5
<1> DEFINE D == {k \in 0 .. n : f[k] \in S}
<1>8. \A j \in 0 .. n : f[j] \in S
  <2> SUFFICES ASSUME NEW j \in 0 .. n PROVE j \in D
    OBVIOUS
  <2>1. 0 \in D
    BY <1>1, <1>6
  <2>2. ASSUME NEW k \in 0 .. j, k # j, k \in D PROVE k + 1 \in D
    <3>1. k + 1 \in 1 .. n /\ (k + 1) - 1 = k
      BY <1>1, <2>2
    <3>2. f[k + 1] = F[f[k]]
      BY <1>7, <3>1
    <3> QED
      BY <1>1, <2>2, <3>1, <3>2
  <2>3. j \in Nat
    BY <1>1
  <2> HIDE DEF D
  <2> QED
    BY <2>1, <2>2, <2>3, Reaches
<1>9. f = [k \in 0 .. n |-> f[k]]
  BY <1>4, <1>5, Zenon DEF Iterates
<1>10. f \in [0 .. n -> S]
  BY <1>8, <1>9
<1> QED
  BY <1>2, <1>6, <1>7, <1>10 DEF n, S, Rounds

(* What is grown stays within whatever holds the start and keeps what F    *)
(* makes of a part of it.                                                  *)
LEMMA GrownWithin ==
    ASSUME NEW N, IsFiniteSet(N), NEW a \in SUBSET N, NEW F \in [SUBSET N -> SUBSET N],
           NEW Z, a \subseteq Z, \A X \in SUBSET N : X \subseteq Z => F[X] \subseteq Z
    PROVE  Grown(N, a, F) \subseteq Z
<1> DEFINE n == Cardinality(N)
<1>1. n \in Nat
  BY FS_CardinalityType
<1>2. PICK f \in [0 .. n -> SUBSET N] : /\ f[0] = a
                                        /\ \A k \in 1 .. n : f[k] = F[f[k - 1]]
                                        /\ Grown(N, a, F) = f[n]
  <2>1. PICK f : Rounds(f, N, a, F)
    BY GrownSteps, Zenon
  <2> QED
    BY <2>1 DEF Rounds
<1> DEFINE D == {k \in 0 .. n : f[k] \subseteq Z}
<1>3. 0 \in D
  BY <1>1, <1>2
<1>4. ASSUME NEW k \in 0 .. n, k # n, k \in D PROVE k + 1 \in D
  <2>1. k + 1 \in 1 .. n /\ (k + 1) - 1 = k
    BY <1>1, <1>4
  <2>2. f[k + 1] = F[f[k]]
    BY <1>2, <2>1
  <2> QED
    BY <1>4, <2>1, <2>2
<1> HIDE DEF D
<1>5. n \in D
  BY <1>1, <1>3, <1>4, Reaches
<1> QED
  BY <1>2, <1>5 DEF D

(* If F only adds, as many rounds as there are elements are enough.        *)
LEMMA GrownClosed ==
    ASSUME NEW N, IsFiniteSet(N), NEW a \in SUBSET N, NEW F \in [SUBSET N -> SUBSET N],
           \A X \in SUBSET N : X \subseteq F[X]
    PROVE  LET g == Grown(N, a, F) IN g \in SUBSET N /\ a \subseteq g /\ F[g] = g
<1> DEFINE n == Cardinality(N)
<1>1. n \in Nat
  BY FS_CardinalityType
<1>2. PICK f \in [0 .. n -> SUBSET N] : /\ f[0] = a
                                        /\ \A k \in 1 .. n : f[k] = F[f[k - 1]]
                                        /\ Grown(N, a, F) = f[n]
  <2>1. PICK f : Rounds(f, N, a, F)
    BY GrownSteps, Zenon
  <2> QED
    BY <2>1 DEF Rounds
<1>3. \A X \in SUBSET N : IsFiniteSet(X) /\ Cardinality(X) \in Nat /\ Cardinality(X) <= n
  <2> SUFFICES ASSUME NEW X \in SUBSET N
               PROVE  IsFiniteSet(X) /\ Cardinality(X) \in Nat /\ Cardinality(X) <= n
    OBVIOUS
  <2> QED
    BY FS_Subset, FS_CardinalityType
<1> DEFINE D == {k \in 0 .. n : a \subseteq f[k] /\ (Cardinality(f[k]) >= k \/ F[f[k]] = f[k])}
<1>4. 0 \in D
  <2>1. Cardinality(f[0]) >= 0 /\ 0 \in 0 .. n
    BY <1>1, <1>2, <1>3
  <2> QED
    BY <1>2, <2>1
<1>5. ASSUME NEW k \in 0 .. n, k # n, k \in D PROVE k + 1 \in D
  <2>1. k + 1 \in 1 .. n /\ (k + 1) - 1 = k /\ k + 1 \in 0 .. n
    BY <1>1, <1>5
  <2>2. f[k + 1] = F[f[k]] /\ f[k] \in SUBSET N /\ f[k + 1] \in SUBSET N
    BY <1>2, <2>1
  <2>3. f[k] \subseteq f[k + 1] /\ a \subseteq f[k]
    BY <1>5, <2>2
  <2>4. CASE F[f[k]] = f[k]
    BY <2>1, <2>2, <2>3, <2>4
  <2>5. CASE F[f[k]] # f[k] /\ Cardinality(f[k]) >= k
    <3>1. f[k] # f[k + 1] /\ IsFiniteSet(f[k + 1])
      BY <1>3, <2>2, <2>5
    <3>2. /\ Cardinality(f[k]) <= Cardinality(f[k + 1])
          /\ Cardinality(f[k]) # Cardinality(f[k + 1])
      BY <2>3, <3>1, FS_Subset
    <3>3. Cardinality(f[k]) \in Nat /\ Cardinality(f[k + 1]) \in Nat /\ k \in Nat
      BY <1>3, <2>2
    <3>4. Cardinality(f[k + 1]) >= k + 1
      BY <2>5, <3>2, <3>3
    <3> QED
      BY <2>1, <2>3, <3>4
  <2> QED
    BY <1>5, <2>4, <2>5
<1>6. n \in D
  <2> HIDE DEF D
  <2> QED
    BY <1>1, <1>4, <1>5, Reaches
<1>7. f[n] \in SUBSET N /\ F[f[n]] \in SUBSET N /\ f[n] \subseteq F[f[n]]
  BY <1>1, <1>2
<1>8. Cardinality(f[n]) >= n => f[n] = N
  <2>1. /\ Cardinality(f[n]) \in Nat /\ Cardinality(f[n]) <= n
        /\ f[n] # N => Cardinality(f[n]) # n
    BY <1>7, <1>3, FS_Subset
  <2> QED
    BY <1>1, <2>1
<1>9. F[f[n]] = f[n]
  BY <1>6, <1>7, <1>8
<1> QED
  BY <1>2, <1>6, <1>7, <1>9

(* What is reachable without entering a Merge: the roots, whatever their   *)
(* links lead to, and nothing else.                                        *)
LEMMA DescendFacts ==
    ASSUME graph \in Graphs, NEW roots, roots \subseteq Nodes
    PROVE  /\ Descend(roots) \subseteq Nodes
           /\ roots \ Merges \subseteq Descend(roots)
           /\ \A n \in Descend(roots) : Succs(n) \ Merges \subseteq Descend(roots)
<1> DEFINE F == [near \in SUBSET Nodes |->
                   near \union ((UNION {After(graph, n) : n \in near}) \ Merges)]
           d == Descend(roots)
<1>1. IsFiniteSet(Nodes) /\ \A n : After(graph, n) \subseteq Nodes
  <2>1. GraphShape(graph)
    BY GraphsAssumption
  <2> QED
    BY <2>1 DEF GraphShape, Nodes, After, Heads
<1>2. roots \ Merges \in SUBSET Nodes
  OBVIOUS
<1>3. /\ F \in [SUBSET Nodes -> SUBSET Nodes]
      /\ \A X \in SUBSET Nodes : X \subseteq F[X]
  BY <1>1
<1>4. d = Grown(Nodes, roots \ Merges, F)
  BY DEF Descend, Descendants, Nodes, Merges
<1> HIDE DEF d
<1>5. d \in SUBSET Nodes /\ roots \ Merges \subseteq d /\ F[d] = d
  <2> HIDE DEF F
  <2> QED
    BY <1>1, <1>2, <1>3, <1>4, GrownClosed
<1>6. \A n \in d : After(graph, n) \ Merges \subseteq d
  BY <1>5
<1> QED
  BY <1>5, <1>6 DEF d, Succs

LEMMA DescendLeast ==
    ASSUME graph \in Graphs, NEW roots, roots \subseteq Nodes,
           NEW Z, roots \ Merges \subseteq Z, \A n \in Z : Succs(n) \ Merges \subseteq Z
    PROVE  Descend(roots) \subseteq Z
<1> DEFINE F == [near \in SUBSET Nodes |->
                   near \union ((UNION {After(graph, n) : n \in near}) \ Merges)]
<1>1. IsFiniteSet(Nodes) /\ \A n : After(graph, n) \subseteq Nodes
  <2>1. GraphShape(graph)
    BY GraphsAssumption
  <2> QED
    BY <2>1 DEF GraphShape, Nodes, After, Heads
<1>2. roots \ Merges \in SUBSET Nodes
  OBVIOUS
<1>3. F \in [SUBSET Nodes -> SUBSET Nodes]
  BY <1>1
<1>4. \A X \in SUBSET Nodes : X \subseteq Z => F[X] \subseteq Z
  BY DEF Succs
<1>5. Descend(roots) = Grown(Nodes, roots \ Merges, F)
  BY DEF Descend, Descendants, Nodes, Merges
<1> HIDE DEF F
<1> QED
  BY <1>1, <1>2, <1>3, <1>4, <1>5, GrownWithin

(* Everything after the roots is in what holds them and what their links   *)
(* lead to, a Merge with its Parallel.                                     *)
LEMMA BeyondLeast ==
    ASSUME graph \in Graphs, NEW roots, roots \subseteq Nodes,
           NEW Z, roots \ Merges \subseteq Z,
           \A n \in Z : Succs(n) \ Merges \subseteq Z,
           \A m \in Merges : Pair(m) \in Z => m \in Z
    PROVE  Beyond(roots) \subseteq Z
<1> DEFINE F == [near \in SUBSET Nodes |->
                   near \union {n \in Nodes : /\ Preds(n) \intersect near # {}
                                              /\ n \in Merges => Pair(n) \in near}]
<1>1. IsFiniteSet(Nodes)
  BY Shape
<1>2. roots \ Merges \in SUBSET Nodes
  OBVIOUS
<1>3. F \in [SUBSET Nodes -> SUBSET Nodes]
  OBVIOUS
<1>4. \A X \in SUBSET Nodes : X \subseteq Z => F[X] \subseteq Z
  <2>1. ASSUME NEW X \in SUBSET Nodes, X \subseteq Z,
               NEW n \in Nodes, NEW p \in Preds(n) \intersect X,
               n \in Merges => Pair(n) \in X
        PROVE  n \in Z
    <3>1. n \in Succs(p)
      BY <2>1 DEF Preds, Succs, After, Heads, Edges
    <3> QED
      BY <2>1, <3>1
  <2> QED
    BY <2>1
<1>5. Beyond(roots) = Grown(Nodes, roots \ Merges, F)
  BY DEF Beyond
<1> HIDE DEF F
<1>6. Grown(Nodes, roots \ Merges, F) \subseteq Z
  BY <1>3, <1>1, <1>2, <1>4, GrownWithin
<1> QED
  BY <1>5, <1>6

(* The links of a step, seen from either end.                              *)
LEMMA LinkFacts ==
    ASSUME graph \in Graphs, NEW n
    PROVE  /\ Succs(n) \subseteq Nodes
           /\ \A p : Roots(n, p) \subseteq Succs(n)
           /\ \A k \in Succs(n) : n \in Preds(k) /\ n \in Nodes
           /\ \A k : n \in Preds(k) => k \in Succs(n)
<1>1. \A e \in Edges : e.from \in Nodes /\ e.to \in Nodes
  BY GraphsAssumption DEF GraphShape, Nodes, Edges
<1> QED
  BY <1>1 DEF Succs, After, Heads, Roots, AtPort, Preds, Edges

(* What a handler and what follows its source are, as the publisher        *)
(* leaves them.                                                            *)
LEMMA RouteLinks ==
    ASSUME graph \in Graphs, NEW r \in graph.routes
    PROVE  /\ r.source \in Nodes \ (Merges \union Choices \union Parallels)
           /\ r.handlers \subseteq Nodes \ (Merges \union Choices \union graph.disabled)
           /\ r.entry \in r.handlers /\ r.entry \in Succs(r.source)
           /\ r.handlers \subseteq Descend({r.entry})
           /\ \A h \in r.handlers : Succs(h) \subseteq r.handlers
           /\ \A n : \A k \in Succs(n) \intersect r.handlers :
                 n \in r.handlers \/ (n = r.source /\ k = r.entry)
           /\ r.suffix \subseteq Nodes \ Merges
           /\ r.suffix \subseteq Descend(Succs(r.source) \ {r.entry})
           /\ \A n \in r.suffix : \A k \in Succs(n) \ Merges :
                 k \in r.suffix \/ \E x \in graph.routes : x.source = n /\ x.entry = k
           /\ \A x \in graph.routes :
                 /\ x.source = r.source => x = r
                 /\ x.source \notin r.handlers /\ x.suffix \intersect r.handlers = {}
<1>1. RouteShape(graph, r)
  BY GraphsAssumption DEF GraphShape
<1>2. /\ r.source \in Nodes \ (Merges \union Choices \union Parallels)
      /\ r.handlers \subseteq Nodes \ (Merges \union Choices \union graph.disabled)
      /\ r.entry \in r.handlers /\ r.entry \in Succs(r.source)
      /\ r.handlers \subseteq Descend({r.entry})
      /\ r.suffix \subseteq Descend(Succs(r.source) \ {r.entry})
      /\ \A n \in r.suffix : \A k \in Succs(n) \ Merges :
            k \in r.suffix \/ \E x \in graph.routes : x.source = n /\ x.entry = k
  BY <1>1 DEF RouteShape, Nodes, Merges, Choices, Parallels, Succs, Descend
<1>3. \A x \in graph.routes :
         /\ x.source = r.source => x = r
         /\ x.source \notin r.handlers /\ x.suffix \intersect r.handlers = {}
  BY <1>1 DEF RouteShape
<1>4. \A e \in graph.edges :
         /\ e.from \in r.handlers => e.to \in r.handlers
         /\ e.to \in r.handlers
               => e.from \in r.handlers \/ (e.from = r.source /\ e.to = r.entry)
  BY <1>1 DEF RouteShape
<1>5. /\ \A h \in r.handlers : Succs(h) \subseteq r.handlers
      /\ \A n : \A k \in Succs(n) \intersect r.handlers :
            n \in r.handlers \/ (n = r.source /\ k = r.entry)
  BY <1>4 DEF Succs, After, Heads
<1>6. r.suffix \subseteq Nodes \ Merges
  <2>1. Succs(r.source) \ {r.entry} \subseteq Nodes
    BY LinkFacts
  <2>2. \A n \in Nodes \ Merges : Succs(n) \ Merges \subseteq Nodes \ Merges
    BY LinkFacts
  <2>3. Descend(Succs(r.source) \ {r.entry}) \subseteq Nodes \ Merges
    BY <2>1, <2>2, DescendLeast
  <2> QED
    BY <1>2, <2>3
<1> QED
  BY <1>2, <1>3, <1>5, <1>6

(* Different ports of a Condition or a Switch lead to different steps.     *)
LEMMA PortsApart ==
    ASSUME graph \in Graphs, NEW c \in Choices, NEW p \in Ports(c), NEW q \in Ports(c), p # q
    PROVE  Descend(Roots(c, p)) \intersect Descend(Roots(c, q)) = {}
BY GraphsAssumption DEF GraphShape, Descend, Roots, Choices, Ports

-----------------------------------------------------------------------------
(* The paths of a run: what the engine has skipped, what no path has come  *)
(* to yet, and that nothing comes to either by the links that follow them. *)

(* What no path of the run has come to yet, or has left behind: such a     *)
(* step was skipped, or nothing is known of it.                            *)
IdleStep(v) == v.status \in {"absent", "skipped"} /\ v.attempt = 0
Begun(s, n) ==
    IF n \in Merges THEN s.join[n].state # "undeclared"
    ELSE \A p \in Preds(n) : Passed(s, p, n)
Held(s) ==
    {n \in Nodes : n \in Skipped(s) \/ (Status(s, n) = "absent" /\ ~Begun(s, n))}

SkippedIdle(s) == \A n \in Skipped(s) : IdleStep(s.inv[n])
KnownByPath(s) ==
    \A n \in Nodes :
        /\ Status(s, n) = "absent" => IdleStep(s.inv[n])
        /\ Status(s, n) # "absent" => n \in Skipped(s) \/ Begun(s, n)
JoinsOpened(s) ==
    \A m \in Merges : s.join[m].state # "undeclared" => Status(s, Pair(m)) = "succeeded"
PortsChosen(s) ==
    \A c \in Choices : s.choice[c] # NoPort =>
        Status(s, c) = "succeeded" /\ s.choice[c] \in Ports(c)
DisabledIdle(s) == \A n \in graph.disabled \ Merges : IdleStep(s.inv[n])
RoutedFailed(s) == \A n \in Nodes : s.inv[n].handling # "none" => Status(s, n) = "failed"

PathSound(s) ==
    /\ SkippedIdle(s)
    /\ KnownByPath(s)
    /\ JoinsOpened(s)
    /\ PortsChosen(s)
    /\ DisabledIdle(s)
    /\ RoutedFailed(s)

(* A routed failure has taken its handler's path, and no other step has.   *)
LEMMA TakenFacts ==
    ASSUME graph \in Graphs, NEW s, PathSound(s)
    PROVE  /\ Taken(s) \subseteq graph.routes
           /\ \A r \in Taken(s) : Status(s, r.source) = "failed"
           /\ Unneeded(s) \subseteq graph.routes \ Taken(s)
           /\ \A n \in HandlersOf(Taken(s)) : \E r \in Taken(s) : n \in r.handlers
           /\ \A r \in graph.routes : r.suffix \intersect HandlersOf(Taken(s)) = {}
           /\ \A r \in graph.routes : r.source \notin HandlersOf(Taken(s))
<1>1. \A r \in graph.routes : r.source \in Nodes
  BY RouteLinks
<1>2. \A r, x \in graph.routes :
         x.source \notin r.handlers /\ x.suffix \intersect r.handlers = {}
  <2> SUFFICES ASSUME NEW r \in graph.routes
               PROVE  \A x \in graph.routes :
                         x.source \notin r.handlers /\ x.suffix \intersect r.handlers = {}
    OBVIOUS
  <2> QED
    BY RouteLinks
<1> QED
  BY <1>1, <1>2 DEF Taken, Unneeded, HandlersOf, PathSound, RoutedFailed

LEMMA SkippedNodes ==
    ASSUME graph \in Graphs, NEW s
    PROVE  /\ Skipped(s) \subseteq Nodes
           /\ \A m \in Merges \intersect Skipped(s) : Status(s, Pair(m)) = "skipped"
<1>1. \A roots : roots \subseteq Nodes => Descend(roots) \subseteq Nodes \ Merges
  <2> SUFFICES ASSUME NEW roots, roots \subseteq Nodes
               PROVE  Descend(roots) \subseteq Nodes \ Merges
    OBVIOUS
  <2>1. \A n \in Nodes \ Merges : Succs(n) \ Merges \subseteq Nodes \ Merges
    BY LinkFacts
  <2> QED
    BY <2>1, DescendLeast
<1>2. \A n : Succs(n) \subseteq Nodes /\ \A p : Roots(n, p) \subseteq Nodes
  BY LinkFacts
<1>3. UnderSkipped(s) \subseteq
         (Nodes \ Merges) \union {m \in Merges : Status(s, Pair(m)) = "skipped"}
  <2> SUFFICES ASSUME NEW m \in Merges, Status(s, Pair(m)) = "skipped"
               PROVE  /\ Descend(Succs(m)) \subseteq Nodes \ Merges
                      /\ Descend(UNION {Roots(Pair(m), b) : b \in Ports(Pair(m))})
                            \subseteq Nodes \ Merges
    BY DEF UnderSkipped
  <2> QED
    BY <1>1, <1>2
<1>4. Unselected(s) \subseteq Nodes \ Merges
  BY <1>1, <1>2 DEF Unselected
<1>5. \A r \in graph.routes : /\ r.handlers \subseteq Nodes \ Merges
                              /\ r.suffix \subseteq Nodes \ Merges
  BY RouteLinks
<1>6. HandlersOf(Unneeded(s)) \subseteq Nodes \ Merges
  BY <1>5 DEF HandlersOf, Unneeded
<1>7. UNION {r.suffix : r \in Taken(s)} \subseteq Nodes \ Merges
  BY <1>5 DEF Taken
<1>8. Merges \subseteq Nodes
  BY Shape
<1> QED
  BY <1>3, <1>4, <1>6, <1>7, <1>8 DEF Skipped

(* What follows a skipped step is skipped as well.                         *)
LEMMA SkippedClosed ==
    ASSUME graph \in Graphs, NEW s, PathSound(s), NEW n \in Skipped(s),
           Status(s, n) = "skipped", NEW k \in Succs(n) \ Merges
    PROVE  k \in Skipped(s)
<1>1. n \in Nodes /\ n \in Preds(k)
  BY SkippedNodes, LinkFacts
<1>2. CASE n \in UnderSkipped(s)
  <2>1. PICK m \in Merges :
           /\ Status(s, Pair(m)) = "skipped"
           /\ n \in {m} \union Descend(Succs(m))
                  \union Descend(UNION {Roots(Pair(m), b) : b \in Ports(Pair(m))})
    BY <1>2 DEF UnderSkipped
  <2>2. Succs(m) \subseteq Nodes
    BY LinkFacts
  <2>3. UNION {Roots(Pair(m), b) : b \in Ports(Pair(m))} \subseteq Nodes
    BY LinkFacts
  <2>4. k \in Descend(Succs(m))
               \union Descend(UNION {Roots(Pair(m), b) : b \in Ports(Pair(m))})
    <3>1. CASE n = m
      BY <2>2, <3>1, DescendFacts
    <3>2. CASE n \in Descend(Succs(m))
      BY <2>2, <3>2, DescendFacts
    <3>3. CASE n \in Descend(UNION {Roots(Pair(m), b) : b \in Ports(Pair(m))})
      BY <2>3, <3>3, DescendFacts
    <3> QED
      BY <2>1, <3>1, <3>2, <3>3
  <2>5. k \in UnderSkipped(s)
    BY <2>1, <2>4 DEF UnderSkipped
  <2> QED
    BY <2>5 DEF Skipped
<1>3. CASE n \in HandlersOf(Unneeded(s))
  <2>1. PICK r \in Unneeded(s) : n \in r.handlers
    BY <1>3 DEF HandlersOf
  <2>2. r \in graph.routes
    BY DEF Unneeded
  <2>3. k \in r.handlers
    BY <2>1, <2>2, RouteLinks
  <2> QED
    BY <2>3 DEF Skipped, HandlersOf
<1>4. CASE n \in Unselected(s) \ HandlersOf(Taken(s))
  <2>1. PICK c \in Decided(s) : \E p \in Ports(c) \ {s.choice[c]} :
           n \in Descend(Roots(c, p)) \ Descend(Roots(c, s.choice[c]))
    BY <1>4 DEF Unselected
  <2>2. PICK p \in Ports(c) \ {s.choice[c]} :
           n \in Descend(Roots(c, p)) \ Descend(Roots(c, s.choice[c]))
    BY <2>1
  <2>3. c \in Choices /\ s.choice[c] \in Ports(c)
    BY DEF Decided, PathSound, PortsChosen
  <2>4. k \in Descend(Roots(c, p))
    <3>1. Roots(c, p) \subseteq Nodes
      BY LinkFacts
    <3> QED
      BY <2>2, <3>1, DescendFacts
  <2>5. k \notin Descend(Roots(c, s.choice[c]))
    <3>1. Descend(Roots(c, p)) \intersect Descend(Roots(c, s.choice[c])) = {}
      BY <2>3, PortsApart
    <3> QED
      BY <2>4, <3>1
  <2>6. k \in Unselected(s)
    BY <2>4, <2>5 DEF Unselected
  <2>7. k \notin HandlersOf(Taken(s))
    <3> SUFFICES ASSUME NEW r \in Taken(s), k \in r.handlers PROVE FALSE
      BY DEF HandlersOf
    <3>1. r \in graph.routes /\ Status(s, r.source) = "failed"
      BY TakenFacts
    <3>2. n \in r.handlers \/ n = r.source
      BY <3>1, RouteLinks
    <3> QED
      BY <1>4, <3>1, <3>2 DEF HandlersOf
  <2> QED
    BY <2>6, <2>7 DEF Skipped
<1>5. CASE n \in UNION {r.suffix : r \in Taken(s)}
  <2>1. PICK r \in Taken(s) : n \in r.suffix
    BY <1>5
  <2>2. r \in graph.routes
    BY DEF Taken
  <2>3. k \in r.suffix \/ \E x \in graph.routes : x.source = n /\ x.entry = k
    <3>1. \A h \in r.suffix : \A j \in Succs(h) \ Merges :
             j \in r.suffix \/ \E x \in graph.routes : x.source = h /\ x.entry = j
      BY <2>2, RouteLinks
    <3> QED
      BY <2>1, <3>1
  <2>4. CASE k \in r.suffix
    <3>1. k \notin HandlersOf(Taken(s))
      BY <2>2, <2>4, TakenFacts
    <3> QED
      BY <2>4, <3>1 DEF Skipped
  <2>5. ASSUME NEW x \in graph.routes, x.source = n, x.entry = k
        PROVE  k \in Skipped(s)
    <3>1. x \notin Taken(s)
      BY <2>5, TakenFacts
    <3>2. x \in Unneeded(s)
      BY <2>5, <3>1 DEF Unneeded, Settled
    <3>3. k \in x.handlers
      BY <2>5, RouteLinks
    <3> QED
      BY <3>2, <3>3 DEF Skipped, HandlersOf
  <2> QED
    BY <2>3, <2>4, <2>5
<1> QED
  BY <1>2, <1>3, <1>4, <1>5 DEF Skipped

(* Where nothing has come yet nothing comes by what follows it.            *)
LEMMA HeldClosed ==
    ASSUME graph \in Graphs, NEW s, PathSound(s)
    PROVE  /\ Held(s) \subseteq Nodes /\ Skipped(s) \subseteq Held(s)
           /\ \A n \in Held(s) : IdleStep(s.inv[n])
           /\ \A n \in Held(s) : Succs(n) \ Merges \subseteq Held(s)
           /\ \A m \in Merges : Pair(m) \in Held(s) => m \in Held(s)
           /\ \A n \in Nodes : ~Begun(s, n) => n \in Held(s)
<1>1. Skipped(s) \subseteq Nodes
  BY SkippedNodes
<1>2. Held(s) \subseteq Nodes /\ Skipped(s) \subseteq Held(s)
  BY <1>1 DEF Held
<1>3. \A n \in Held(s) : IdleStep(s.inv[n])
  BY DEF Held, PathSound, SkippedIdle, KnownByPath
<1>4. \A n \in Nodes : ~Begun(s, n) => n \in Held(s)
  BY DEF Held, PathSound, KnownByPath
<1>5. ASSUME NEW n \in Held(s), NEW k \in Succs(n) \ Merges
      PROVE  k \in Held(s)
  <2>1. k \in Nodes /\ n \in Preds(k) /\ n \in Nodes
    BY LinkFacts
  <2>2. Status(s, n) \in {"absent", "skipped"}
    BY <1>3 DEF IdleStep, Status
  <2>3. CASE Status(s, n) = "skipped"
    <3>1. n \in Skipped(s)
      BY <2>3 DEF Held
    <3>2. k \in Skipped(s)
      BY <2>3, <3>1, SkippedClosed
    <3> QED
      BY <1>2, <3>2
  <2>4. CASE Status(s, n) = "absent"
    <3>1. ~Passed(s, n, k)
      BY <2>4, TakenFacts DEF Passed
    <3>2. ~Begun(s, k)
      BY <2>1, <3>1 DEF Begun
    <3> QED
      BY <1>4, <2>1, <3>2
  <2> QED
    BY <2>2, <2>3, <2>4
<1>6. ASSUME NEW m \in Merges, Pair(m) \in Held(s)
      PROVE  m \in Held(s)
  <2>1. m \in Nodes
    BY Shape
  <2>2. Status(s, Pair(m)) \in {"absent", "skipped"}
    BY <1>3, <1>6 DEF IdleStep, Status
  <2>3. ~Begun(s, m)
    BY <2>2 DEF Begun, PathSound, JoinsOpened
  <2> QED
    BY <1>4, <2>1, <2>3
<1> QED
  BY <1>2, <1>3, <1>4, <1>5, <1>6

(* Nothing has come by the links of a step that has not ended well, except *)
(* to the handler that was taken.                                          *)
LEMMA AfterHeld ==
    ASSUME graph \in Graphs, NEW s, PathSound(s),
           NEW n, Status(s, n) \notin {"succeeded", "skipped"},
           NEW roots, roots \subseteq Succs(n),
           \A r \in Taken(s) : r.source = n => r.entry \notin roots
    PROVE  Descend(roots) \subseteq Held(s)
<1>1. roots \subseteq Nodes /\ \A k \in roots : n \in Preds(k)
  BY LinkFacts
<1>2. \A k \in roots : ~Passed(s, n, k)
  BY DEF Passed
<1>3. \A k \in roots \ Merges : ~Begun(s, k)
  BY <1>1, <1>2 DEF Begun
<1>4. roots \ Merges \subseteq Held(s)
  BY <1>1, <1>3, HeldClosed
<1>5. \A k \in Held(s) : Succs(k) \ Merges \subseteq Held(s)
  BY HeldClosed
<1> QED
  BY <1>1, <1>4, <1>5, DescendLeast

(* Nothing has come to a handler that is not taken, or to what follows a   *)
(* step that is still to end.                                              *)
LEMMA RouteHeld ==
    ASSUME graph \in Graphs, NEW s, PathSound(s), NEW r \in graph.routes
    PROVE  /\ r \notin Taken(s) => r.handlers \subseteq Held(s)
           /\ Status(s, r.source) \notin {"succeeded", "skipped"} =>
                 r.suffix \subseteq Held(s)
<1>1. Skipped(s) \subseteq Held(s)
  BY HeldClosed
<1>2. \A x \in Taken(s) : x.source = r.source => x = r
  <2>1. \A x \in graph.routes : x.source = r.source => x = r
    BY RouteLinks
  <2> QED
    BY <2>1 DEF Taken
<1>3. ASSUME r \notin Taken(s) PROVE r.handlers \subseteq Held(s)
  <2>1. CASE Status(s, r.source) \in Settled
    <3>1. r \in Unneeded(s)
      BY <1>3, <2>1 DEF Unneeded
    <3>2. r.handlers \subseteq Skipped(s)
      BY <3>1 DEF Skipped, HandlersOf
    <3> QED
      BY <1>1, <3>2
  <2>2. CASE Status(s, r.source) \notin Settled
    <3>1. {r.entry} \subseteq Succs(r.source) /\ r.handlers \subseteq Descend({r.entry})
      <4>1. r.entry \in Succs(r.source) /\ r.handlers \subseteq Descend({r.entry})
        BY RouteLinks
      <4> QED
        BY <4>1
    <3>2. Status(s, r.source) \notin {"succeeded", "skipped"}
      BY <2>2 DEF Settled
    <3>3. \A x \in Taken(s) : x.source = r.source => x.entry \notin {r.entry}
      BY <1>2, <1>3
    <3>4. Descend({r.entry}) \subseteq Held(s)
      BY <3>1, <3>2, <3>3, AfterHeld
    <3> QED
      BY <3>1, <3>4
  <2> QED
    BY <2>1, <2>2
<1>4. ASSUME Status(s, r.source) \notin {"succeeded", "skipped"}
      PROVE  r.suffix \subseteq Held(s)
  <2> DEFINE normal == Succs(r.source) \ {r.entry}
  <2>1. normal \subseteq Succs(r.source) /\ r.suffix \subseteq Descend(normal)
    BY RouteLinks
  <2>2. \A x \in Taken(s) : x.source = r.source => x.entry \notin normal
    BY <1>2
  <2> HIDE DEF normal
  <2>3. Descend(normal) \subseteq Held(s)
    BY <1>4, <2>1, <2>2, AfterHeld
  <2> QED
    BY <2>1, <2>3
<1> QED
  BY <1>3, <1>4

(* The ports that a Condition did not select are left behind, whatever     *)
(* handlers and joins do meanwhile.                                        *)
LEMMA UnselectedHeld ==
    ASSUME graph \in Graphs, NEW s, PathSound(s),
           NEW c \in Decided(s), NEW p \in Ports(c), p # s.choice[c]
    PROVE  Roots(c, p) \ Merges \subseteq Skipped(s)
<1>1. c \in Choices /\ s.choice[c] \in Ports(c)
  BY DEF Decided, PathSound, PortsChosen
<1>2. Roots(c, p) \subseteq Nodes /\ Roots(c, p) \subseteq Succs(c)
  BY LinkFacts
<1>3. Roots(c, p) \ Merges \subseteq Descend(Roots(c, p))
  BY <1>2, DescendFacts
<1>4. Descend(Roots(c, p)) \intersect Descend(Roots(c, s.choice[c])) = {}
  BY <1>1, PortsApart
<1>5. Roots(c, p) \ Merges \subseteq Unselected(s)
  BY <1>3, <1>4 DEF Unselected
<1>6. \A k \in Roots(c, p) : k \notin HandlersOf(Taken(s))
  <2> SUFFICES ASSUME NEW k \in Roots(c, p), NEW r \in Taken(s), k \in r.handlers
               PROVE  FALSE
    BY DEF HandlersOf
  <2>1. r \in graph.routes
    BY DEF Taken
  <2>2. c \in r.handlers \/ c = r.source
    BY <1>2, <2>1, RouteLinks
  <2>3. r.handlers \intersect Choices = {} /\ r.source \notin Choices
    BY <2>1, RouteLinks
  <2> QED
    BY <1>1, <2>2, <2>3
<1> QED
  BY <1>5, <1>6 DEF Skipped

(* What a stage may do to what is settled, to what no path has come to and *)
(* to the choices: what it skips was skipped or unknown before.            *)
PathStep(s, t, n) ==
    /\ Status(s, n) \in Settled =>
          /\ Status(t, n) = Status(s, n)
          /\ t.inv[n].attempt = s.inv[n].attempt
          /\ t.inv[n].handling = "none" <=> s.inv[n].handling = "none"
    /\ Status(t, n) = "skipped" => Status(s, n) \in {"skipped", "absent"}
    /\ Status(t, n) = "absent" => Status(s, n) = "absent"
    /\ Status(s, n) = "absent" =>
          /\ t.inv[n].attempt = 0
          /\ \/ Status(t, n) = "absent"
             \/ n \in Skipped(s) /\ Status(t, n) = "skipped"
             \/ /\ n \notin Merges /\ n \notin Skipped(s) /\ Begun(s, n)
                /\ Status(t, n) \in {"ready", "skipped"}
                /\ n \in graph.disabled => Status(t, n) = "skipped"
             \/ /\ n \in Merges /\ t.join[n].state # "undeclared"
                /\ Status(t, n) = "pending"

PathMoves(s, t) ==
    /\ \A n \in Nodes : PathStep(s, t, n)
    /\ \A m \in Merges : s.join[m].state # "undeclared" => t.join[m].state # "undeclared"
    /\ \A c \in Choices : Status(s, c) = "succeeded" => t.choice[c] = s.choice[c]
    /\ JoinsOpened(t)
    /\ PortsChosen(t)
    /\ RoutedFailed(t)

LEMMA MovesFacts ==
    ASSUME graph \in Graphs, NEW s, PathSound(s), NEW t, PathMoves(s, t)
    PROVE  /\ \A n \in Nodes : Status(s, n) \in Settled =>
                 /\ Status(t, n) = Status(s, n)
                 /\ t.inv[n].handling = "none" <=> s.inv[n].handling = "none"
           /\ \A n \in Nodes : s.inv[n].handling # "none" => t.inv[n].handling # "none"
           /\ \A n \in Nodes : Status(t, n) = "skipped" => Status(s, n) \in {"skipped", "absent"}
           /\ \A n \in Nodes : Status(s, n) = "absent" => Status(t, n) # "failed"
           /\ Taken(s) \subseteq Taken(t) /\ Unneeded(s) \subseteq Unneeded(t)
           /\ \A c \in Decided(s) : c \in Decided(t) /\ t.choice[c] = s.choice[c]
           /\ Unselected(s) \subseteq Unselected(t)
           /\ UnderSkipped(s) \subseteq UnderSkipped(t)
           /\ HandlersOf(Taken(s)) \subseteq HandlersOf(Taken(t))
<1>1. \A n \in Nodes : Status(s, n) \in Settled =>
         /\ Status(t, n) = Status(s, n)
         /\ t.inv[n].handling = "none" <=> s.inv[n].handling = "none"
  BY DEF PathMoves, PathStep
<1>2. \A n \in Nodes : Status(t, n) = "skipped" => Status(s, n) \in {"skipped", "absent"}
  BY DEF PathMoves, PathStep
<1>3. \A n \in Nodes : Status(s, n) = "absent" => Status(t, n) # "failed"
  BY DEF PathMoves, PathStep
<1>4. \A n \in Nodes : s.inv[n].handling # "none" => t.inv[n].handling # "none"
  BY <1>1 DEF PathSound, RoutedFailed, Settled
<1>5. \A r \in graph.routes : r.source \in Nodes
  BY RouteLinks
<1>6. Taken(s) \subseteq Taken(t)
  BY <1>4, <1>5 DEF Taken
<1>7. Unneeded(s) \subseteq Unneeded(t)
  BY <1>1, <1>5 DEF Unneeded, Taken
<1>8. \A c \in Decided(s) : c \in Decided(t) /\ t.choice[c] = s.choice[c]
  <2>1. Choices \subseteq Nodes
    BY Shape
  <2> QED
    BY <1>1, <2>1 DEF Decided, PathMoves, Settled
<1>9. Unselected(s) \subseteq Unselected(t)
  <2> SUFFICES ASSUME NEW c \in Decided(s), NEW p \in Ports(c) \ {s.choice[c]},
                      NEW n \in Descend(Roots(c, p)) \ Descend(Roots(c, s.choice[c]))
               PROVE  n \in Unselected(t)
    BY DEF Unselected
  <2> QED
    BY <1>8 DEF Unselected
<1>10. UnderSkipped(s) \subseteq UnderSkipped(t)
  <2>1. \A m \in Merges : Pair(m) \in Nodes
    BY Shape
  <2>2. \A m \in Merges : Status(s, Pair(m)) = "skipped" => Status(t, Pair(m)) = "skipped"
    BY <1>1, <2>1 DEF Settled
  <2> QED
    BY <2>2 DEF UnderSkipped
<1>11. HandlersOf(Taken(s)) \subseteq HandlersOf(Taken(t))
  BY <1>6 DEF HandlersOf
<1> QED
  BY <1>1, <1>2, <1>3, <1>4, <1>6, <1>7, <1>8, <1>9, <1>10, <1>11

(* A handler that is taken later is not one that a Condition left behind:  *)
(* its source would be left behind with it.                                *)
LEMMA UnselectedStays ==
    ASSUME graph \in Graphs, NEW s, PathSound(s), NEW t, PathMoves(s, t),
           NEW n \in Unselected(s), n \notin HandlersOf(Taken(s))
    PROVE  n \notin HandlersOf(Taken(t))
<1> SUFFICES ASSUME NEW r \in Taken(t), n \in r.handlers PROVE FALSE
  BY DEF HandlersOf
<1>1. r \in graph.routes /\ r \notin Taken(s) /\ r.source \in Nodes
  <2>1. r \in graph.routes /\ r \notin Taken(s)
    BY DEF Taken, HandlersOf
  <2> QED
    BY <2>1, RouteLinks
<1>2. Status(t, r.source) = "failed" /\ s.inv[r.source].handling = "none"
  BY <1>1 DEF Taken, PathMoves, RoutedFailed
<1>3. Status(s, r.source) \notin Settled
  BY <1>1, <1>2, MovesFacts DEF Taken
<1>4. PICK c \in Decided(s) : \E p \in Ports(c) \ {s.choice[c]} :
         n \in Descend(Roots(c, p)) \ Descend(Roots(c, s.choice[c]))
  BY DEF Unselected
<1>5. PICK p \in Ports(c) \ {s.choice[c]} :
         n \in Descend(Roots(c, p)) \ Descend(Roots(c, s.choice[c]))
  BY <1>4
<1> DEFINE D == Descend(Roots(c, p))
           Z == D \ r.handlers
<1>6. c \in Choices /\ s.choice[c] \in Ports(c) /\ Roots(c, p) \subseteq Nodes
      /\ Roots(c, p) \subseteq Succs(c)
  BY LinkFacts DEF Decided, PathSound, PortsChosen
<1>7. /\ Roots(c, p) \ Merges \subseteq D
      /\ \A k \in D : Succs(k) \ Merges \subseteq D
  BY <1>6, DescendFacts
<1>8. D \intersect Descend(Roots(c, s.choice[c])) = {}
  BY <1>5, <1>6, PortsApart
<1>9. /\ r.handlers \intersect Choices = {} /\ r.source \notin Choices
      /\ \A k : \A j \in Succs(k) \intersect r.handlers : k \in r.handlers \/ k = r.source
  BY <1>1, RouteLinks
<1> HIDE DEF D
<1>10. r.source \in D
  <2> SUFFICES ASSUME r.source \notin D PROVE FALSE
    OBVIOUS
  <2>1. Roots(c, p) \ Merges \subseteq Z
    BY <1>6, <1>7, <1>9
  <2>2. \A k \in Z : Succs(k) \ Merges \subseteq Z
    BY <1>7, <1>9
  <2> HIDE DEF Z
  <2>3. D \subseteq Z
    BY <1>6, <2>1, <2>2, DescendLeast DEF D
  <2> QED
    BY <1>5, <2>3 DEF D, Z
<1>11. r.source \in Unselected(s)
  BY <1>5, <1>8, <1>10 DEF D, Unselected
<1>12. r.source \in Skipped(s)
  <2>1. r.source \notin HandlersOf(Taken(s))
    BY <1>1, TakenFacts
  <2> QED
    BY <1>11, <2>1 DEF Skipped
<1>13. Status(s, r.source) \in {"absent", "skipped"}
  BY <1>12 DEF PathSound, SkippedIdle, IdleStep, Status
<1> QED
  BY <1>1, <1>2, <1>3, <1>13, MovesFacts DEF Settled

(* What is skipped stays so, and what is skipped now no path had come to.  *)
LEMMA SkippedGrows ==
    ASSUME graph \in Graphs, NEW s, PathSound(s), NEW t, PathMoves(s, t)
    PROVE  Skipped(s) \subseteq Skipped(t) /\ Skipped(t) \subseteq Held(s)
<1>1. Skipped(s) \subseteq Skipped(t)
  <2> SUFFICES ASSUME NEW n \in Skipped(s) PROVE n \in Skipped(t)
    OBVIOUS
  <2>1. CASE n \in UnderSkipped(s)
    BY <2>1, MovesFacts DEF Skipped
  <2>2. CASE n \in HandlersOf(Unneeded(s))
    <3>1. HandlersOf(Unneeded(s)) \subseteq HandlersOf(Unneeded(t))
      BY MovesFacts DEF HandlersOf
    <3> QED
      BY <2>2, <3>1 DEF Skipped
  <2>3. CASE n \in Unselected(s) /\ n \notin HandlersOf(Taken(s))
    <3>1. n \notin HandlersOf(Taken(t)) /\ n \in Unselected(t)
      BY <2>3, UnselectedStays, MovesFacts
    <3> QED
      BY <3>1 DEF Skipped
  <2>4. ASSUME NEW r \in Taken(s), n \in r.suffix PROVE n \in Skipped(t)
    <3>1. r \in Taken(t) /\ r \in graph.routes
      BY MovesFacts DEF Taken
    <3>2. n \notin HandlersOf(Taken(t))
      <4> SUFFICES ASSUME NEW x \in Taken(t), n \in x.handlers PROVE FALSE
        BY DEF HandlersOf
      <4>1. x \in graph.routes
        BY DEF Taken
      <4>2. r.suffix \intersect x.handlers = {}
        BY <3>1, <4>1, RouteLinks
      <4> QED
        BY <2>4, <4>2
    <3> QED
      BY <2>4, <3>1, <3>2 DEF Skipped
  <2> QED
    BY <2>1, <2>2, <2>3, <2>4 DEF Skipped
<1>2. Skipped(s) \subseteq Held(s)
  BY HeldClosed
<1>3. UnderSkipped(t) \subseteq Held(s)
  <2> SUFFICES ASSUME NEW m \in Merges, Status(t, Pair(m)) = "skipped"
               PROVE  {m} \union Descend(Succs(m))
                        \union Descend(UNION {Roots(Pair(m), b) : b \in Ports(Pair(m))})
                           \subseteq Held(s)
    BY DEF UnderSkipped
  <2> DEFINE roots == UNION {Roots(Pair(m), b) : b \in Ports(Pair(m))}
  <2>1. Pair(m) \in Nodes /\ Pair(m) \in Parallels /\ m \in Nodes
    BY Shape
  <2>2. Status(s, Pair(m)) \in {"skipped", "absent"}
    BY <2>1, MovesFacts
  <2>3. CASE Status(s, Pair(m)) = "skipped"
    <3>1. {m} \union Descend(Succs(m)) \union Descend(roots) \subseteq UnderSkipped(s)
      BY <2>3 DEF UnderSkipped
    <3> QED
      BY <1>2, <3>1 DEF Skipped
  <2>4. CASE Status(s, Pair(m)) = "absent"
    <3>1. ~Begun(s, m)
      BY <2>4 DEF Begun, PathSound, JoinsOpened
    <3>2. m \in Held(s)
      BY <2>1, <3>1, HeldClosed
    <3>3. Succs(m) \subseteq Nodes /\ Succs(m) \ Merges \subseteq Held(s)
      BY <3>2, HeldClosed, LinkFacts
    <3>4. \A k \in Held(s) : Succs(k) \ Merges \subseteq Held(s)
      BY HeldClosed
    <3>5. Descend(Succs(m)) \subseteq Held(s)
      BY <3>3, <3>4, DescendLeast
    <3>6. roots \subseteq Succs(Pair(m))
      BY LinkFacts
    <3>7. \A r \in Taken(s) : r.source = Pair(m) => r.entry \notin roots
      BY <2>4, TakenFacts
    <3> HIDE DEF roots
    <3>8. Descend(roots) \subseteq Held(s)
      BY <2>4, <3>6, <3>7, AfterHeld
    <3> QED
      BY <3>2, <3>5, <3>8 DEF roots
  <2> QED
    BY <2>2, <2>3, <2>4
<1>4. HandlersOf(Unneeded(t)) \subseteq Held(s)
  <2> SUFFICES ASSUME NEW r \in Unneeded(t) PROVE r.handlers \subseteq Held(s)
    BY DEF HandlersOf
  <2>1. r \in graph.routes /\ r \notin Taken(t)
    BY DEF Unneeded
  <2>2. r \notin Taken(s)
    BY <2>1, MovesFacts
  <2> QED
    BY <2>1, <2>2, RouteHeld
<1>5. ASSUME NEW n \in Unselected(t), n \notin HandlersOf(Taken(t)) PROVE n \in Held(s)
  <2>1. PICK c \in Decided(t) : \E p \in Ports(c) \ {t.choice[c]} :
           n \in Descend(Roots(c, p)) \ Descend(Roots(c, t.choice[c]))
    BY <1>5 DEF Unselected
  <2>2. PICK p \in Ports(c) \ {t.choice[c]} :
           n \in Descend(Roots(c, p)) \ Descend(Roots(c, t.choice[c]))
    BY <2>1
  <2>3. c \in Choices /\ c \in Nodes /\ Status(t, c) = "succeeded" /\ t.choice[c] # NoPort
    BY Shape DEF Decided
  <2>4. CASE Status(s, c) = "succeeded"
    <3>1. s.choice[c] = t.choice[c]
      BY <2>3, <2>4 DEF PathMoves
    <3>2. c \in Decided(s)
      BY <2>3, <2>4, <3>1 DEF Decided
    <3>3. n \in Unselected(s)
      BY <2>2, <3>1, <3>2 DEF Unselected
    <3>4. n \notin HandlersOf(Taken(s))
      BY <1>5, MovesFacts
    <3> QED
      BY <1>2, <3>3, <3>4 DEF Skipped
  <2>5. CASE Status(s, c) # "succeeded"
    <3>1. Status(s, c) # "skipped"
      BY <2>3, MovesFacts DEF Settled
    <3>2. Roots(c, p) \subseteq Succs(c)
      BY LinkFacts
    <3>3. \A r \in Taken(s) : r.source # c
      <4> SUFFICES ASSUME NEW r \in Taken(s) PROVE r.source # c
        OBVIOUS
      <4>1. r \in graph.routes
        BY DEF Taken
      <4>2. r.source \notin Choices
        BY <4>1, RouteLinks
      <4> QED
        BY <2>3, <4>2
    <3>4. Descend(Roots(c, p)) \subseteq Held(s)
      BY <2>5, <3>1, <3>2, <3>3, AfterHeld
    <3> QED
      BY <2>2, <3>4
  <2> QED
    BY <2>4, <2>5
<1>6. ASSUME NEW r \in Taken(t), NEW n \in r.suffix PROVE n \in Held(s)
  <2>1. r \in graph.routes /\ r.source \in Nodes
    BY RouteLinks DEF Taken
  <2>2. CASE r \in Taken(s)
    <3>1. n \notin HandlersOf(Taken(s))
      BY <1>6, <2>1, TakenFacts
    <3> QED
      BY <1>2, <1>6, <2>2, <3>1 DEF Skipped
  <2>3. CASE r \notin Taken(s)
    <3>1. Status(t, r.source) = "failed"
      BY <1>6, <2>1 DEF Taken, PathMoves, RoutedFailed
    <3>2. Status(s, r.source) \notin {"succeeded", "skipped"}
      BY <2>1, <3>1, MovesFacts DEF Settled
    <3> QED
      BY <1>6, <2>1, <3>2, RouteHeld
  <2> QED
    BY <2>2, <2>3
<1>7. Skipped(t) \subseteq Held(s)
  BY <1>3, <1>4, <1>5, <1>6 DEF Skipped
<1> QED
  BY <1>1, <1>7

(* What has begun stays so.                                                *)
LEMMA BegunStays ==
    ASSUME graph \in Graphs, NEW s, PathSound(s), NEW t, PathMoves(s, t),
           NEW n \in Nodes, Begun(s, n)
    PROVE  Begun(t, n)
<1>1. CASE n \in Merges
  BY <1>1 DEF Begun, PathMoves
<1>2. CASE n \notin Merges
  <2> SUFFICES ASSUME NEW p \in Preds(n) PROVE Passed(t, p, n)
    BY <1>2 DEF Begun
  <2>1. Passed(s, p, n) /\ p \in Nodes
    BY <1>2, Shape DEF Begun
  <2>2. Status(s, p) \in {"succeeded", "skipped"} => Status(t, p) = Status(s, p)
    BY <2>1, MovesFacts DEF Settled
  <2>3. Taken(s) \subseteq Taken(t)
    BY MovesFacts
  <2> QED
    BY <2>1, <2>2, <2>3 DEF Passed
<1> QED
  BY <1>1, <1>2

(* A stage that moves so keeps every path sound.                           *)
LEMMA PathStays ==
    ASSUME graph \in Graphs, NEW s, PathSound(s), NEW t, PathMoves(s, t)
    PROVE  PathSound(t)
<1>1. JoinsOpened(t) /\ PortsChosen(t) /\ RoutedFailed(t)
  BY DEF PathMoves
<1>2. Skipped(s) \subseteq Skipped(t) /\ Skipped(t) \subseteq Held(s)
  BY SkippedGrows
<1>3. \A n \in Nodes : PathStep(s, t, n)
  BY DEF PathMoves
<1>4. SkippedIdle(t)
  <2> SUFFICES ASSUME NEW n \in Skipped(t) PROVE IdleStep(t.inv[n])
    BY DEF SkippedIdle
  <2>1. n \in Nodes /\ n \in Held(s) /\ IdleStep(s.inv[n])
    BY <1>2, HeldClosed
  <2>2. PathStep(s, t, n)
    BY <1>3, <2>1
  <2>3. CASE Status(s, n) = "skipped"
    BY <2>1, <2>2, <2>3 DEF PathStep, IdleStep, Status, Settled
  <2>4. CASE Status(s, n) = "absent"
    <3>1. n \in Skipped(s) \/ ~Begun(s, n)
      BY <2>1 DEF Held
    <3>2. ~(n \in Merges /\ t.join[n].state # "undeclared" /\ Status(t, n) = "pending")
      <4> SUFFICES ASSUME n \in Merges, t.join[n].state # "undeclared" PROVE FALSE
        OBVIOUS
      <4>1. Status(t, Pair(n)) = "succeeded"
        BY <1>1 DEF JoinsOpened
      <4>2. Status(t, Pair(n)) = "skipped"
        BY SkippedNodes
      <4> QED
        BY <4>1, <4>2
    <3> QED
      BY <2>2, <2>4, <3>1, <3>2 DEF PathStep, IdleStep, Status
  <2> QED
    BY <2>1, <2>3, <2>4 DEF IdleStep, Status
<1>5. KnownByPath(t)
  <2> SUFFICES ASSUME NEW n \in Nodes
               PROVE  /\ Status(t, n) = "absent" => IdleStep(t.inv[n])
                      /\ Status(t, n) # "absent" => n \in Skipped(t) \/ Begun(t, n)
    BY DEF KnownByPath
  <2>1. PathStep(s, t, n)
    BY <1>3
  <2>2. ASSUME Status(t, n) = "absent" PROVE IdleStep(t.inv[n])
    BY <2>1, <2>2 DEF PathStep, IdleStep, Status
  <2>3. ASSUME Status(t, n) # "absent" PROVE n \in Skipped(t) \/ Begun(t, n)
    <3>1. CASE Status(s, n) # "absent"
      <4>1. n \in Skipped(s) \/ Begun(s, n)
        BY <3>1 DEF PathSound, KnownByPath
      <4> QED
        BY <1>2, <4>1, BegunStays
    <3>2. CASE Status(s, n) = "absent"
      <4>1. n \in Skipped(s) \/ Begun(s, n) \/ (n \in Merges /\ t.join[n].state # "undeclared")
        BY <2>1, <2>3, <3>2 DEF PathStep
      <4>2. CASE n \in Merges /\ t.join[n].state # "undeclared"
        BY <4>2 DEF Begun
      <4> QED
        BY <1>2, <4>1, <4>2, BegunStays
    <3> QED
      BY <3>1, <3>2
  <2> QED
    BY <2>2, <2>3
<1>6. DisabledIdle(t)
  <2> SUFFICES ASSUME NEW n \in graph.disabled \ Merges PROVE IdleStep(t.inv[n])
    BY DEF DisabledIdle
  <2>1. n \in Nodes
    BY GraphsAssumption DEF GraphShape, Nodes
  <2>2. PathStep(s, t, n) /\ IdleStep(s.inv[n])
    BY <1>3, <2>1 DEF PathSound, DisabledIdle
  <2> QED
    BY <2>2 DEF PathStep, IdleStep, Status, Settled
<1> QED
  BY <1>1, <1>4, <1>5, <1>6 DEF PathSound

-----------------------------------------------------------------------------
(* Every stage of an advance, and every step, keeps the paths sound.       *)

(* A stage that leaves each step alone or moves it so, opens joins after   *)
(* their Parallels and selects ports of what succeeded.                    *)
LEMMA StageMoves ==
    ASSUME graph \in Graphs, NEW s, PathSound(s), NEW t,
           \A n \in Nodes : t.inv[n] = s.inv[n] \/ PathStep(s, t, n),
           \A n \in Nodes : SoundStep(n, t.inv[n]),
           \A m \in Merges :
              \/ t.join[m].state = "undeclared" /\ s.join[m].state = "undeclared"
              \/ /\ t.join[m].state # "undeclared"
                 /\ s.join[m].state # "undeclared" \/ Status(s, Pair(m)) = "succeeded",
           \A c \in Choices :
              \/ t.choice[c] = s.choice[c]
              \/ /\ Status(s, c) # "succeeded"
                 /\ Status(t, c) = "succeeded" /\ t.choice[c] \in Ports(c)
    PROVE  PathSound(t)
<1>1. \A n \in Nodes : PathStep(s, t, n)
  <2> SUFFICES ASSUME NEW n \in Nodes, t.inv[n] = s.inv[n] PROVE PathStep(s, t, n)
    OBVIOUS
  <2>1. Status(s, n) = "absent" => s.inv[n].attempt = 0
    BY DEF PathSound, KnownByPath, IdleStep
  <2> QED
    BY <2>1 DEF PathStep, Status
<1>2. \A n \in Nodes : Status(s, n) = "succeeded" => Status(t, n) = "succeeded"
  BY <1>1 DEF PathStep, Settled
<1>3. JoinsOpened(t)
  <2>1. \A m \in Merges : Pair(m) \in Nodes
    BY Shape
  <2> QED
    BY <1>2, <2>1 DEF PathSound, JoinsOpened
<1>4. PortsChosen(t)
  <2>1. Choices \subseteq Nodes
    BY Shape
  <2> QED
    BY <1>2, <2>1 DEF PathSound, PortsChosen
<1>5. RoutedFailed(t)
  BY DEF RoutedFailed, SoundStep, Status
<1>6. PathMoves(s, t)
  BY <1>1, <1>3, <1>4, <1>5 DEF PathMoves
<1> QED
  BY <1>6, PathStays

(* The outcomes an advance consumes: none of them skips a step.            *)
LEMMA ConsumePath ==
    ASSUME RunInv, PathSound(Loaded), NEW sel \in Selections,
           \A c \in DOMAIN sel : sel[c] \in Ports(c),
           NEW u, u = Consume(Start(Loaded), sel)
    PROVE  PathSound(u) /\ \A n \in Nodes : Projected(n) = "succeeded" => Status(u, n) = "succeeded"
<1> DEFINE t == Start(Loaded)
<1>1. /\ Plan(t) /\ t.join = join /\ t.choice = choice
      /\ \A n \in Nodes :
            \/ t.inv[n] = inv[n]
            \/ /\ inv[n].status = "waiting"
               /\ t.inv[n] = [inv[n] EXCEPT !.status = "ready"]
  BY StartKeeps
<1>2. Keeps(u) /\ u.join = join
  BY ConsumeKeeps
<1>3. /\ graph \in Graphs /\ \A n \in Nodes : inv[n] \in Invocation /\ t.inv[n] \in Invocation
      /\ \A n \in Nodes : SoundStep(n, u.inv[n])
      /\ \A n \in Nodes : fact[n] # "none" => inv[n].status = "running"
      /\ \A n \in Nodes : inv[n].status = "absent" => inv[n].attempt = 0
      /\ Loaded.inv = inv /\ Loaded.join = join /\ Loaded.choice = choice
  BY <1>1, <1>2 DEF RunInv, Types, Plan, Loaded, FactsOfRunning, Keeps, SoundPlan, PathSound,
                    KnownByPath, IdleStep, Status
<1> HIDE DEF t
<1>4. /\ u.choice = IF Cancel THEN choice
                    ELSE [c \in Choices |-> IF c \in DOMAIN sel THEN sel[c] ELSE choice[c]]
      /\ \A n \in Nodes : u.inv[n] = IF fact[n] = "none" THEN t.inv[n]
                                     ELSE [t.inv[n] EXCEPT
                                             !.status = Outcome(n),
                                             !.handling = IF /\ Outcome(n) = "failed"
                                                             /\ fact[n] # "unclassified" /\ Routed(n)
                                                            THEN "pending" ELSE @]
  <2>1. t = [st |-> t.st, inv |-> t.inv, join |-> t.join, choice |-> t.choice]
    BY <1>1 DEF Plan
  <2> QED
    BY <1>1, <2>1 DEF Consume, t
<1>5. \A n \in Nodes : fact[n] = "none" =>
         u.inv[n] = inv[n] \/ (inv[n].status = "waiting" /\ u.inv[n].status = "ready")
  <2> SUFFICES ASSUME NEW n \in Nodes, fact[n] = "none"
               PROVE  u.inv[n] = inv[n] \/ (inv[n].status = "waiting" /\ u.inv[n].status = "ready")
    OBVIOUS
  <2>1. u.inv[n] = t.inv[n] /\ inv[n] \in Invocation
    BY <1>3, <1>4
  <2>2. CASE t.inv[n] = inv[n]
    BY <2>1, <2>2
  <2>3. CASE inv[n].status = "waiting" /\ t.inv[n] = [inv[n] EXCEPT !.status = "ready"]
    BY <2>1, <2>3 DEF Invocation
  <2> QED
    BY <1>1, <2>2, <2>3
<1>6. \A n \in Nodes : fact[n] # "none" =>
         inv[n].status = "running" /\ u.inv[n].status = Outcome(n)
  BY <1>3, <1>4 DEF Invocation
<1>7. \A n \in Nodes : fact[n] # "none" =>
         Outcome(n) \in Settled \union {"waiting"} /\ Outcome(n) # "skipped"
  <2>1. \A n \in Nodes : fact[n] # "none" => Outcome(n) \in Settled \union {"waiting"}
    BY OutcomeFacts
  <2> QED
    BY <2>1 DEF Outcome
<1>8. ASSUME NEW n \in Nodes PROVE u.inv[n] = Loaded.inv[n] \/ PathStep(Loaded, u, n)
  <2>1. \/ u.inv[n] = inv[n]
        \/ /\ inv[n].status \in {"waiting", "running"}
           /\ u.inv[n].status \notin {"skipped", "absent"}
    BY <1>5, <1>6, <1>7 DEF Settled
  <2> QED
    BY <1>3, <2>1 DEF PathStep, Status, Settled
<1>9. \A n \in Nodes : Projected(n) = "succeeded" => Status(u, n) = "succeeded"
  BY <1>5, <1>6 DEF Projected, Status
<1>10. ASSUME NEW c \in Choices
       PROVE  \/ u.choice[c] = Loaded.choice[c]
              \/ /\ Status(Loaded, c) # "succeeded"
                 /\ Status(u, c) = "succeeded" /\ u.choice[c] \in Ports(c)
  <2>1. CASE u.choice[c] = choice[c]
    BY <1>3, <2>1
  <2>2. CASE u.choice[c] # choice[c]
    <3>1. c \in DOMAIN sel /\ u.choice[c] = sel[c]
      BY <1>4, <2>2
    <3>2. fact[c] = "succeeded"
      BY <3>1 DEF Selections
    <3>3. c \in Nodes
      BY <1>3, Shape
    <3>4. Outcome(c) = "succeeded"
      BY <3>2 DEF Outcome, Failures
    <3> QED
      BY <1>3, <1>6, <3>1, <3>2, <3>3, <3>4 DEF Status
  <2> QED
    BY <2>1, <2>2
<1>11. \A m \in Merges :
          \/ u.join[m].state = "undeclared" /\ Loaded.join[m].state = "undeclared"
          \/ u.join[m].state # "undeclared" /\ Loaded.join[m].state # "undeclared"
  BY <1>2, <1>3
<1>12. PathSound(u)
  BY <1>3, <1>8, <1>10, <1>11, StageMoves
<1> QED
  BY <1>9, <1>12

(* A join is opened, and its Merge made known, after its Parallel.         *)
LEMMA DeclarePath ==
    ASSUME RunInv, NEW s, Keeps(s), PathSound(s), s.join = join,
           \A n \in Nodes : Projected(n) = "succeeded" => Status(s, n) = "succeeded",
           NEW t, t = Declare(s)
    PROVE  PathSound(t)
<1> DEFINE fresh == IF Cancel THEN {} ELSE {m \in Declared : s.join[m].state = "undeclared"}
<1>1. /\ graph \in Graphs /\ Plan(s) /\ \A n \in Nodes : SoundStep(n, t.inv[n])
  BY DeclareKeeps DEF RunInv, Types, Keeps, SoundPlan
<1>2. s = [st |-> s.st, inv |-> s.inv, join |-> s.join, choice |-> s.choice]
  BY <1>1 DEF Plan
<1>3. /\ t.choice = s.choice
      /\ \A m \in Merges : t.join[m] = IF m \in fresh
                                         THEN [state |-> "open", ledger |-> NewLedger(m),
                                               selected |-> {}]
                                         ELSE s.join[m]
      /\ \A n \in Nodes : t.inv[n] = IF n \in fresh /\ s.inv[n].status = "absent"
                                       THEN [Absent EXCEPT !.status = "pending",
                                                           !.path = s.inv[Pair(n)].path]
                                       ELSE s.inv[n]
  BY <1>2 DEF Declare
<1>4. \A m \in fresh : m \in Merges /\ Status(s, Pair(m)) = "succeeded"
  BY Shape, <1>1 DEF Declared
<1> HIDE DEF fresh
<1>5. ASSUME NEW n \in Nodes PROVE t.inv[n] = s.inv[n] \/ PathStep(s, t, n)
  <2>1. CASE ~(n \in fresh /\ s.inv[n].status = "absent")
    BY <1>3, <2>1
  <2>2. CASE n \in fresh /\ s.inv[n].status = "absent"
    <3>1. t.inv[n].status = "pending" /\ t.inv[n].attempt = 0
      BY <1>3, <2>2 DEF Absent
    <3>2. n \in Merges /\ t.join[n].state # "undeclared"
      <4>1. n \in Merges
        BY <1>4, <2>2
      <4>2. t.join[n] = [state |-> "open", ledger |-> NewLedger(n), selected |-> {}]
        BY <1>3, <2>2, <4>1
      <4> QED
        BY <4>1, <4>2
    <3> QED
      BY <2>2, <3>1, <3>2 DEF PathStep, Status, Settled
  <2> QED
    BY <2>1, <2>2
<1>6. \A m \in Merges :
         \/ t.join[m].state = "undeclared" /\ s.join[m].state = "undeclared"
         \/ /\ t.join[m].state # "undeclared"
            /\ s.join[m].state # "undeclared" \/ Status(s, Pair(m)) = "succeeded"
  <2> SUFFICES ASSUME NEW m \in Merges
               PROVE  \/ t.join[m].state = "undeclared" /\ s.join[m].state = "undeclared"
                      \/ /\ t.join[m].state # "undeclared"
                         /\ s.join[m].state # "undeclared" \/ Status(s, Pair(m)) = "succeeded"
    OBVIOUS
  <2>1. CASE m \notin fresh
    BY <1>3, <2>1
  <2>2. CASE m \in fresh
    <3>1. t.join[m] = [state |-> "open", ledger |-> NewLedger(m), selected |-> {}]
      BY <1>3, <2>2
    <3> QED
      BY <1>4, <2>2, <3>1
  <2> QED
    BY <2>1, <2>2
<1> QED
  BY <1>1, <1>3, <1>5, <1>6, StageMoves

(* A branch's disposition and a handled failure change no path.            *)
LEMMA RecordPath ==
    ASSUME RunInv, NEW s, Keeps(s), PathSound(s), NEW t, t = Record(s)
    PROVE  PathSound(t)
<1>1. /\ graph \in Graphs /\ Plan(s) /\ t.inv = s.inv /\ \A n \in Nodes : SoundStep(n, t.inv[n])
  BY RecordKeeps DEF RunInv, Types, Keeps, SoundPlan
<1>2. s = [st |-> s.st, inv |-> s.inv, join |-> s.join, choice |-> s.choice]
  BY <1>1 DEF Plan
<1>3. t.choice = s.choice /\ \A m \in Merges : t.join[m] =
         IF m \notin Declared \/ s.join[m].state = "undeclared" THEN s.join[m]
         ELSE [s.join[m] EXCEPT !.ledger = [b \in Ports(Pair(m)) |->
                  IF s.join[m].ledger[b] = "pending" THEN Disposition(m, b)
                  ELSE s.join[m].ledger[b]]]
  BY <1>2 DEF Record
<1>4. \A m \in Merges : t.join[m].state = s.join[m].state
  <2> SUFFICES ASSUME NEW m \in Merges PROVE t.join[m].state = s.join[m].state
    OBVIOUS
  <2>1. s.join[m] = Undeclared \/ s.join[m] \in DeclaredJoin(m)
    BY <1>1 DEF Plan, JoinOf
  <2> QED
    BY <1>3, <2>1 DEF DeclaredJoin, Undeclared
<1> QED
  BY <1>1, <1>3, <1>4, StageMoves

LEMMA SettleHandlersPath ==
    ASSUME RunInv, NEW s, Keeps(s), PathSound(s), NEW t, t = SettleHandlers(s), Keeps(t)
    PROVE  PathSound(t)
<1>1. /\ graph \in Graphs /\ Plan(s) /\ \A n \in Nodes : SoundStep(n, t.inv[n])
      /\ \A n \in Nodes : s.inv[n] \in Invocation
  BY DEF RunInv, Types, Keeps, SoundPlan, Plan
<1>2. s = [st |-> s.st, inv |-> s.inv, join |-> s.join, choice |-> s.choice]
  BY <1>1 DEF Plan
<1>3. /\ t.choice = s.choice /\ t.join = s.join
      /\ \A n \in Nodes : \/ t.inv[n] = s.inv[n]
                          \/ /\ s.inv[n].handling = "pending"
                             /\ t.inv[n] = [s.inv[n] EXCEPT !.handling = "handled"]
  BY <1>2 DEF SettleHandlers
<1>4. ASSUME NEW n \in Nodes PROVE t.inv[n] = s.inv[n] \/ PathStep(s, t, n)
  <2> SUFFICES ASSUME s.inv[n].handling = "pending",
                      t.inv[n] = [s.inv[n] EXCEPT !.handling = "handled"]
               PROVE  PathStep(s, t, n)
    BY <1>3
  <2>1. t.inv[n].status = s.inv[n].status /\ t.inv[n].attempt = s.inv[n].attempt
        /\ t.inv[n].handling = "handled"
    BY <1>1 DEF Invocation
  <2>2. s.inv[n].status = "failed"
    BY DEF PathSound, RoutedFailed, Status
  <2> QED
    BY <2>1, <2>2 DEF PathStep, Status
<1> QED
  BY <1>1, <1>3, <1>4, StageMoves

(* What becomes known is skipped, or all it depends on has let it begin.   *)
LEMMA DerivePath ==
    ASSUME RunInv, NEW s, Keeps(s), PathSound(s), NEW t, t = Derive(s)
    PROVE  PathSound(t)
<1> DEFINE fresh == IF Stopping \/ s.st \notin {"running", "waiting"} THEN {}
                    ELSE Ready(s) \ ({m \in Merges : join[m].state # "undeclared"}
                                       \union Declared)
<1>1. /\ graph \in Graphs /\ Plan(s) /\ \A n \in Nodes : SoundStep(n, t.inv[n])
  BY DeriveKeeps DEF RunInv, Types, Keeps, SoundPlan
<1>2. s = [st |-> s.st, inv |-> s.inv, join |-> s.join, choice |-> s.choice]
  BY <1>1 DEF Plan
<1>3. /\ t.choice = s.choice /\ t.join = s.join
      /\ \A n \in Nodes : t.inv[n] =
            IF n \in fresh
              THEN [Absent EXCEPT !.status = IF n \in Skipped(s) \union graph.disabled
                                               THEN "skipped" ELSE "ready",
                                  !.path = PathOf(s, n)]
              ELSE s.inv[n]
  BY <1>2 DEF Derive
<1>4. fresh \subseteq Ready(s)
  OBVIOUS
<1> HIDE DEF fresh
<1>5. ASSUME NEW n \in Nodes PROVE t.inv[n] = s.inv[n] \/ PathStep(s, t, n)
  <2>1. CASE n \notin fresh
    BY <1>3, <2>1
  <2>2. CASE n \in fresh
    <3>1. /\ t.inv[n].status = IF n \in Skipped(s) \union graph.disabled
                                 THEN "skipped" ELSE "ready"
          /\ t.inv[n].attempt = 0
      BY <1>3, <2>2 DEF Absent
    <3>2. Status(s, n) = "absent"
      BY <1>4, <2>2 DEF Ready
    <3>3. CASE n \in Skipped(s)
      BY <3>1, <3>2, <3>3 DEF PathStep, Status, Settled
    <3>4. CASE n \notin Skipped(s)
      <4>1. /\ n \in Merges => Status(s, Pair(n)) = "skipped"
            /\ \A p \in Preds(n) : Passed(s, p, n)
        BY <1>4, <2>2, <3>4 DEF Ready
      <4>2. n \notin Merges
        <5>1. n \in Merges => n \in UnderSkipped(s)
          BY <4>1 DEF UnderSkipped
        <5> QED
          BY <3>4, <5>1 DEF Skipped
      <4>3. Begun(s, n)
        BY <4>1, <4>2 DEF Begun
      <4> QED
        BY <3>1, <3>2, <3>4, <4>2, <4>3 DEF PathStep, Status, Settled
    <3> QED
      BY <3>3, <3>4
  <2> QED
    BY <2>1, <2>2
<1> QED
  BY <1>1, <1>3, <1>5, StageMoves

(* A decided join and a stop move what is known on.                        *)
LEMMA SettleJoinsPath ==
    ASSUME RunInv, NEW s, Keeps(s), PathSound(s), NEW t, t = SettleJoins(s)
    PROVE  PathSound(t)
<1> DEFINE now == {m \in Merges : Decidable(s.join[m])}
<1>1. /\ graph \in Graphs /\ Plan(s) /\ \A n \in Nodes : SoundStep(n, t.inv[n])
      /\ \A n \in Nodes : s.inv[n] \in Invocation
  BY SettleJoinsKeeps DEF RunInv, Types, Keeps, SoundPlan, Plan
<1>2. s = [st |-> s.st, inv |-> s.inv, join |-> s.join, choice |-> s.choice]
  BY <1>1 DEF Plan
<1>3. /\ t.choice = s.choice
      /\ \A m \in Merges : t.join[m] =
            IF m \notin now THEN s.join[m]
            ELSE IF Satisfied(m, s.join[m])
              THEN [s.join[m] EXCEPT !.state = "satisfied", !.selected = Selected(m, s.join[m])]
              ELSE [s.join[m] EXCEPT !.state = "unsatisfied"]
      /\ \A n \in Nodes : t.inv[n] =
            IF n \in now /\ s.inv[n].status = "pending"
              THEN [s.inv[n] EXCEPT !.status =
                      IF Satisfied(n, s.join[n]) THEN "ready" ELSE "failed"]
              ELSE s.inv[n]
  BY <1>2 DEF SettleJoins
<1>4. \A m \in Merges : m \in now => s.join[m].state = "open"
  BY DEF Decidable
<1> HIDE DEF now
<1>5. ASSUME NEW m \in Merges
      PROVE  \/ t.join[m].state = "undeclared" /\ s.join[m].state = "undeclared"
             \/ t.join[m].state # "undeclared" /\ s.join[m].state # "undeclared"
  <2>1. CASE m \notin now
    BY <1>3, <2>1
  <2>2. CASE m \in now
    <3>1. s.join[m] \in DeclaredJoin(m)
      BY <1>1, <1>4, <2>2 DEF Plan, JoinOf, Undeclared
    <3>2. t.join[m].state \in {"satisfied", "unsatisfied"}
      BY <1>3, <2>2, <3>1 DEF DeclaredJoin
    <3> QED
      BY <1>4, <2>2, <3>2
  <2> QED
    BY <2>1, <2>2
<1>6. ASSUME NEW n \in Nodes PROVE t.inv[n] = s.inv[n] \/ PathStep(s, t, n)
  <2>1. CASE ~(n \in now /\ s.inv[n].status = "pending")
    BY <1>3, <2>1
  <2>2. CASE n \in now /\ s.inv[n].status = "pending"
    <3>1. t.inv[n].status \in {"ready", "failed"}
      BY <1>1, <1>3, <2>2 DEF Invocation
    <3> QED
      BY <2>2, <3>1 DEF PathStep, Status, Settled
  <2> QED
    BY <2>1, <2>2
<1> QED
  BY <1>1, <1>3, <1>5, <1>6, StageMoves

LEMMA StopPath ==
    ASSUME RunInv, NEW s, Keeps(s), PathSound(s), NEW t, t = Stop(s)
    PROVE  PathSound(t)
<1>1. CASE ~Stopping
  BY <1>1 DEF Stop
<1>2. CASE Stopping
  <2>1. /\ graph \in Graphs /\ Plan(s) /\ \A n \in Nodes : SoundStep(n, t.inv[n])
        /\ \A n \in Nodes : s.inv[n] \in Invocation
    BY StopKeeps DEF RunInv, Types, Keeps, SoundPlan, Plan
  <2>2. s = [st |-> s.st, inv |-> s.inv, join |-> s.join, choice |-> s.choice]
    BY <2>1 DEF Plan
  <2>3. /\ t.choice = s.choice /\ t.join = s.join
        /\ \A n \in Nodes : t.inv[n] =
              IF s.inv[n].status \in {"pending", "ready", "waiting"}
                THEN [s.inv[n] EXCEPT
                        !.status = IF ~Cancel /\ s.inv[n].status = "waiting" THEN "timed_out"
                                   ELSE "canceled"]
                ELSE s.inv[n]
    BY <1>2, <2>2 DEF Stop, Status
  <2>4. ASSUME NEW n \in Nodes PROVE t.inv[n] = s.inv[n] \/ PathStep(s, t, n)
    <3>1. CASE s.inv[n].status \notin {"pending", "ready", "waiting"}
      BY <2>3, <3>1
    <3>2. CASE s.inv[n].status \in {"pending", "ready", "waiting"}
      <4>1. t.inv[n].status \in {"canceled", "timed_out"}
        BY <2>1, <2>3, <3>2 DEF Invocation
      <4> QED
        BY <3>2, <4>1 DEF PathStep, Status, Settled
    <3> QED
      BY <3>1, <3>2
  <2> QED
    BY <2>1, <2>3, <2>4, StageMoves
<1> QED
  BY <1>1, <1>2

(* The plan an advance admits from is on the run's path, and so are the    *)
(* attempts it admits.                                                     *)
LEMMA PlanPath ==
    ASSUME RunInv, PathSound(Loaded), NEW sel \in Selections,
           \A c \in DOMAIN sel : sel[c] \in Ports(c), NEW told, told = Told(sel),
           ~Inconsistent(told), NEW s, s = Stop(Planned(told))
    PROVE  PathSound(s)
<1> DEFINE u == Consume(Start(Loaded), sel)
           recorded == Record(told)
           handled == SettleHandlers(recorded)
           derived == Derive(handled)
           settled == SettleJoins(derived)
<1>1. /\ Keeps(u) /\ u.join = join
      /\ PathSound(u) /\ \A n \in Nodes : Projected(n) = "succeeded" => Status(u, n) = "succeeded"
  BY ConsumeKeeps, ConsumePath
<1>2. told = Declare(u) /\ s = Stop(settled)
  BY DEF Told, Planned
<1> HIDE DEF u
<1>3. Keeps(told) /\ PathSound(told)
  BY <1>1, <1>2, DeclareKeeps, DeclarePath
<1>4. Keeps(recorded) /\ recorded.inv = told.inv /\ PathSound(recorded)
  BY <1>3, RecordKeeps, RecordPath
<1>5. \A r \in graph.routes :
         /\ ~Stopping
         /\ recorded.inv[r.source].handling = "pending"
         /\ Status(recorded, r.sink) = "succeeded"
         => \A h \in r.handlers : Status(recorded, h) = "succeeded"
  BY <1>4 DEF Inconsistent, Status
<1> HIDE DEF recorded
<1>6. Keeps(handled)
  BY <1>4, <1>5, SettleHandlersKeeps
<1>7. PathSound(handled)
  BY <1>4, <1>6, SettleHandlersPath
<1> HIDE DEF handled
<1>8. Keeps(derived) /\ PathSound(derived)
  BY <1>6, <1>7, DeriveKeeps, DerivePath
<1> HIDE DEF derived
<1>9. Keeps(settled) /\ PathSound(settled)
  BY <1>8, SettleJoinsKeeps, SettleJoinsPath
<1> HIDE DEF settled
<1> QED
  BY <1>2, <1>9, StopPath

LEMMA AdmitPath ==
    ASSUME RunInv, NEW s, Keeps(s), PathSound(s), NEW admitted \in Admissions(s),
           NEW t, t = SettleRun(Admit(s, admitted))
    PROVE  PathSound(t)
<1>1. /\ t.join = s.join /\ t.choice = s.choice /\ graph \in Graphs
      /\ \A n \in Nodes : n \notin admitted => t.inv[n] = s.inv[n]
      /\ \A n \in admitted : s.inv[n].status = "ready" /\ t.inv[n].status = "running"
      /\ \A n \in Nodes : SoundStep(n, t.inv[n])
  BY AdmitFacts, AdmitSound DEF RunInv, Types, SoundPlan
<1>2. ASSUME NEW n \in Nodes PROVE t.inv[n] = s.inv[n] \/ PathStep(s, t, n)
  BY <1>1 DEF PathStep, Status, Settled
<1> QED
  BY <1>1, <1>2, StageMoves

LEMMA ForeseenPath ==
    ASSUME RunInv, PathSound(Loaded), NEW s, Foreseen(s)
    PROVE  PathSound(s)
<1>1. PICK sel \in Selections :
         /\ \A c \in DOMAIN sel : sel[c] \in Ports(c)
         /\ ~Inconsistent(Told(sel)) /\ s = Stop(Planned(Told(sel)))
  BY DEF Foreseen
<1> QED
  BY <1>1, PlanPath

(* The checkpoint that a step leaves behind, on the paths it has now.      *)
LEMMA PathNext ==
    ASSUME graph' = graph, NEW x, x = Loaded', PathSound(x)
    PROVE  PathSound(Loaded)'
<1>1. /\ Nodes' = Nodes /\ Merges' = Merges /\ Choices' = Choices
      /\ \A m : Pair(m)' = Pair(m)
      /\ \A n : Ports(n)' = Ports(n) /\ Preds(n)' = Preds(n) /\ Succs(n)' = Succs(n)
      /\ \A n, p : Roots(n, p)' = Roots(n, p)
      /\ \A r : Descend(r)' = Descend(r)
  BY DEF Nodes, Merges, Choices, Pair, Ports, Preds, Edges, Succs, Roots, Descend
<1>2. \A n : Status(Loaded, n)' = Status(x, n)
  BY DEF Status
<1>3. /\ Taken(Loaded)' = Taken(x)
      /\ Decided(Loaded)' = Decided(x)
  BY <1>1, <1>2 DEF Taken, Decided
<1>4. Unneeded(Loaded)' = Unneeded(x)
  BY <1>2, <1>3 DEF Unneeded
<1>5. Unselected(Loaded)' = Unselected(x)
  BY <1>1, <1>3 DEF Unselected
<1>6. UnderSkipped(Loaded)' = UnderSkipped(x)
  BY <1>1, <1>2 DEF UnderSkipped
<1>7. Skipped(Loaded)' = Skipped(x)
  BY <1>3, <1>4, <1>5, <1>6 DEF Skipped, HandlersOf
<1>8. \A n : Begun(Loaded, n)' <=> Begun(x, n)
  <2>1. \A p, n : Passed(Loaded, p, n)' <=> Passed(x, p, n)
    BY <1>2, <1>3 DEF Passed
  <2> QED
    BY <1>1, <2>1 DEF Begun
<1>9. SkippedIdle(Loaded)' /\ KnownByPath(Loaded)'
  BY <1>1, <1>2, <1>7, <1>8 DEF PathSound, SkippedIdle, KnownByPath, IdleStep
<1>10. JoinsOpened(Loaded)' /\ PortsChosen(Loaded)'
  BY <1>1, <1>2 DEF PathSound, JoinsOpened, PortsChosen
<1>11. DisabledIdle(Loaded)' /\ RoutedFailed(Loaded)'
  BY <1>1, <1>2 DEF PathSound, DisabledIdle, RoutedFailed, IdleStep
<1> QED
  BY <1>9, <1>10, <1>11 DEF PathSound

(* Nothing is known of any step: no path has begun.                        *)
LEMMA BlankPath ==
    ASSUME graph \in Graphs, NEW x, \A n \in Nodes : x.inv[n] = Absent,
           \A m \in Merges : x.join[m] = Undeclared, \A c \in Choices : x.choice[c] = NoPort
    PROVE  PathSound(x)
<1>1. Skipped(x) \subseteq Nodes
  BY SkippedNodes
<1>2. \A n \in Nodes : IdleStep(x.inv[n]) /\ Status(x, n) = "absent" /\ x.inv[n].handling = "none"
  BY DEF IdleStep, Absent, Status
<1>3. graph.disabled \subseteq Nodes
  BY GraphsAssumption DEF GraphShape, Nodes
<1> QED
  BY <1>1, <1>2, <1>3 DEF PathSound, SkippedIdle, KnownByPath, JoinsOpened, PortsChosen,
                          DisabledIdle, RoutedFailed, Undeclared

LEMMA PathKeeps ==
    ASSUME RunInv, PathSound(Loaded), [Next]_vars
    PROVE  PathSound(Loaded)'
<1>1. CASE Advance
  <2>1. graph' = graph /\ graph \in Graphs
    BY <1>1 DEF Advance, RunInv, Types
  <2>2. CASE FailUnadvanceable
    <3> DEFINE x == [st |-> run'.status, inv |-> inv', join |-> join', choice |-> choice']
    <3>1. /\ inv' = [n \in Nodes |-> Absent] /\ join' = [m \in Merges |-> Undeclared]
          /\ choice' = [c \in Choices |-> NoPort]
      BY <2>2 DEF FailUnadvanceable
    <3>2. PathSound(x)
      <4>1. /\ \A n \in Nodes : x.inv[n] = Absent
            /\ \A m \in Merges : x.join[m] = Undeclared
            /\ \A c \in Choices : x.choice[c] = NoPort
        BY <3>1
      <4> HIDE DEF x
      <4> QED
        BY <2>1, <4>1, BlankPath
    <3>3. x = Loaded'
      BY DEF Loaded
    <3> HIDE DEF x
    <3> QED
      BY <2>1, <3>2, <3>3, PathNext
  <2>3. CASE ~FailUnadvanceable
    <3>1. PICK s, admitted, t : Planning(s, admitted, t) /\ Foreseen(s)
      BY <1>1, <2>3, AdvanceFacts
    <3>2. /\ Keeps(s) /\ admitted \in Admissions(s) /\ t = SettleRun(Admit(s, admitted))
          /\ inv' = t.inv /\ join' = t.join /\ choice' = t.choice
          /\ run' = [run EXCEPT !.status = t.st, !.cancel = Cancel, !.expired = Expired,
                                !.ended = IF t.st \in EndStatuses THEN "engine" ELSE run.ended]
      BY <3>1 DEF Planning, Save
    <3>3. PathSound(s)
      BY <3>1, ForeseenPath
    <3>4. PathSound(t) /\ Plan(t)
      BY <3>2, <3>3, AdmitPath, AdmitFacts
    <3>5. run'.status = t.st
      BY <3>2 DEF RunInv, Types
    <3>6. t = Loaded'
      BY <3>2, <3>4, <3>5 DEF Plan, Loaded
    <3> QED
      BY <2>1, <3>4, <3>6, PathNext
  <2> QED
    BY <2>2, <2>3
<1>2. CASE ~Advance
  <2>1. graph' = graph /\ UNCHANGED <<inv, join, choice>> /\ run'.status = run.status
    BY <1>2 DEF RunInv, Types, Next, Idle, Complete, Due, RequestCancel, DeadlinePasses,
                WakeForDeadline, checkpoint, vars
  <2>2. Loaded' = Loaded
    BY <2>1 DEF Loaded
  <2> QED
    BY <2>1, <2>2, PathNext
<1> QED
  BY <1>1, <1>2

(* On a sound path only what was chosen has been admitted.                 *)
LEMMA ChosenOnly ==
    ASSUME RunInv, PathSound(Loaded)
    PROVE  OnlyChosenPathRuns
<1>1. /\ graph \in Graphs /\ EndedClosed /\ Loaded.inv = inv /\ Loaded.choice = choice
      /\ \A n \in Nodes : inv[n].attempt \in Nat
  BY DEF RunInv, Types, Loaded, Plan, Invocation
<1>2. \A n \in Held(Loaded) : inv[n].attempt = 0
  BY <1>1, HeldClosed DEF IdleStep
<1>3. ASSUME NEW c \in Choices, choice[c] # NoPort, NEW p \in Ports(c) \ {choice[c]},
             NEW n \in Beyond(Roots(c, p))
      PROVE  inv[n].attempt = 0
  <2>1. c \in Decided(Loaded)
    BY <1>1, <1>3 DEF Decided, PathSound, PortsChosen
  <2>2. Roots(c, p) \ Merges \subseteq Skipped(Loaded)
    BY <1>1, <2>1, UnselectedHeld
  <2>3. /\ Skipped(Loaded) \subseteq Held(Loaded)
        /\ \A k \in Held(Loaded) : Succs(k) \ Merges \subseteq Held(Loaded)
        /\ \A m \in Merges : Pair(m) \in Held(Loaded) => m \in Held(Loaded)
    BY <1>1, HeldClosed
  <2>4. Roots(c, p) \subseteq Nodes
    BY <1>1, LinkFacts
  <2>5. Beyond(Roots(c, p)) \subseteq Held(Loaded)
    BY <1>1, <2>2, <2>3, <2>4, BeyondLeast
  <2> QED
    BY <1>2, <1>3, <2>5
<1>4. \A n \in graph.disabled \ Merges : inv[n].attempt = 0
  BY <1>1 DEF PathSound, DisabledIdle, IdleStep
<1>5. ASSUME NEW n \in Nodes, inv[n].attempt > 0
      PROVE  \A p \in Nodes : inv[p].status \in {"succeeded", "skipped", "failed"} =>
                row[p] = inv[p].status
  <2>1. run.ended # "emergency"
    BY <1>1, <1>5 DEF EndedClosed, Absent
  <2> QED
    BY <2>1, RowsSettled
<1>6. ASSUME NEW r \in graph.routes
      PROVE  /\ \A h \in r.handlers : inv[h].attempt > 0 => row[r.source] = "failed"
             /\ \A n \in r.suffix :
                   inv[n].attempt > 0 => row[r.source] \in {"succeeded", "skipped"}
  <2>1. r.source \in Nodes /\ r.handlers \subseteq Nodes /\ r.suffix \subseteq Nodes
    BY <1>1, RouteLinks
  <2>2. ASSUME NEW h \in r.handlers, inv[h].attempt > 0 PROVE row[r.source] = "failed"
    <3>1. h \notin Held(Loaded)
      BY <1>2, <2>2
    <3>2. r \in Taken(Loaded)
      BY <1>1, <3>1, RouteHeld
    <3>3. inv[r.source].status = "failed"
      BY <1>1, <3>2, TakenFacts DEF Status
    <3> QED
      BY <1>5, <2>1, <2>2, <3>3
  <2>3. ASSUME NEW n \in r.suffix, inv[n].attempt > 0
        PROVE  row[r.source] \in {"succeeded", "skipped"}
    <3>1. n \notin Held(Loaded)
      BY <1>2, <2>3
    <3>2. inv[r.source].status \in {"succeeded", "skipped"}
      BY <1>1, <3>1, RouteHeld DEF Status
    <3> QED
      BY <1>5, <2>1, <2>3, <3>2
  <2> QED
    BY <2>2, <2>3
<1> QED
  BY <1>3, <1>4, <1>6 DEF OnlyChosenPathRuns

\* For every workflow and order of events: no attempt is ever admitted for a
\* step of a port that was not selected, a disabled step, a handler whose source
\* did not fail, or a step after a source that did, in whatever advances the
\* selection, the skip and the failure are consumed (markConditionalBranches,
\* markParallelInvocation, markFailureRoutes, readyNodeDecision).
THEOREM OnlyTheChosenPathRuns == Spec => []OnlyChosenPathRuns
<1>1. Init => PathSound(Loaded)
  <2> SUFFICES ASSUME Init PROVE PathSound(Loaded)
    OBVIOUS
  <2>1. /\ graph \in Graphs
        /\ \A n \in Nodes : Loaded.inv[n] = Absent
        /\ \A m \in Merges : Loaded.join[m] = Undeclared
        /\ \A c \in Choices : Loaded.choice[c] = NoPort
    BY DEF Init, Loaded
  <2> QED
    BY <2>1, BlankPath
<1>2. RunInv /\ PathSound(Loaded) /\ [Next]_vars => PathSound(Loaded)'
  BY PathKeeps
<1>3. RunInv /\ PathSound(Loaded) => OnlyChosenPathRuns
  BY ChosenOnly
<1> QED
  BY <1>1, <1>2, <1>3, RunSafe, PTL DEF Spec

=============================================================================
