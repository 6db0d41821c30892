---------------------------- MODULE MCRunGraph ----------------------------
(* Workflows for TLC to run.  An edge is written as source, port, target   *)
(* and the target's port, which only a Merge tells apart.  Port 0 is a     *)
(* step's only output and 9 its error output; a step whose reports are not *)
(* given can only succeed.                                                 *)
EXTENDS RunGraph, TLC

Edge(s) == [from |-> s[1], port |-> s[2], to |-> s[3], into |-> s[4]]
Steps(edges) == {s[1] : s \in edges} \union {s[3] : s \in edges}

Workflow(edges, ports, reports) ==
    [nodes |-> Steps(edges), edges |-> {Edge(s) : s \in edges}, ports |-> ports,
     choices |-> {}, parallels |-> {}, pair |-> <<>>, need |-> <<>>, limit |-> <<>>,
     routes |-> {}, disabled |-> {}, cancelable |-> TRUE, deadline |-> FALSE,
     yields |-> [n \in Steps(edges) |->
         {"succeeded"} \union IF n \in DOMAIN reports THEN reports[n] ELSE {}]]

(* A step with a handler of two steps, then a Condition whose selected     *)
(* step has a handler of its own.                                          *)
Routes ==
    [Workflow({<<"A", 0, "C", 0>>, <<"A", 9, "H", 0>>, <<"H", 0, "H2", 0>>,
               <<"C", 1, "B", 0>>, <<"C", 2, "D", 0>>, <<"B", 9, "K", 0>>},
              "C" :> {1, 2},
              "A" :> {"retry", "unclassified"} @@ "H2" :> {"fatal"} @@ "B" :> {"fatal", "unknown"})
     EXCEPT !.choices = {"C"}, !.deadline = TRUE,
            !.routes = {[source |-> "A", entry |-> "H", sink |-> "H2",
                         handlers |-> {"H", "H2"}, suffix |-> {"C", "B", "D"}],
                        [source |-> "B", entry |-> "K", sink |-> "K",
                         handlers |-> {"K"}, suffix |-> {}]}]

(* The same with its first step disabled: what follows runs without it.    *)
WithoutFirst == [Routes EXCEPT !.disabled = {"A"}]

(* A Condition with a Parallel of two branches, one at a time, any of      *)
(* which is enough, on one port and a disabled step on the other.          *)
Either ==
    [Workflow({<<"C", 1, "P", 0>>, <<"P", 1, "L", 0>>, <<"P", 2, "R", 0>>,
               <<"L", 0, "M", 1>>, <<"R", 0, "M", 2>>, <<"M", 0, "Z", 0>>,
               <<"C", 2, "X", 0>>, <<"X", 0, "Y", 0>>},
              "C" :> {1, 2} @@ "P" :> {1, 2},
              "L" :> {"retry"} @@ "R" :> {"wait", "unknown"})
     EXCEPT !.choices = {"C"}, !.parallels = {"P"}, !.pair = "M" :> "P",
            !.need = "M" :> 1, !.limit = "P" :> 1, !.disabled = {"X"},
            !.deadline = TRUE]

(* A branch that begins with a Condition, and one of two steps of which    *)
(* only the last can fail; both must arrive.                               *)
Long ==
    [Workflow({<<"P", 1, "C", 0>>, <<"C", 1, "K", 0>>, <<"C", 2, "Q", 0>>,
               <<"K", 0, "M", 1>>, <<"P", 2, "A", 0>>, <<"A", 0, "B", 0>>,
               <<"B", 0, "M", 2>>, <<"M", 0, "Z", 0>>},
              "P" :> {1, 2} @@ "C" :> {1, 2},
              "A" :> {"wait"} @@ "B" :> {"fatal"})
     EXCEPT !.choices = {"C"}, !.parallels = {"P"}, !.pair = "M" :> "P",
            !.need = "M" :> 0, !.limit = "P" :> 2]

(* A branch that is a link from the Parallel to its Merge.                 *)
Direct(cancelable) ==
    [Workflow({<<"A", 0, "P", 0>>, <<"P", 1, "L", 0>>, <<"L", 0, "M", 1>>,
               <<"P", 2, "M", 2>>},
              "P" :> {1, 2},
              "A" :> {"retry"} @@ "L" :> {"fatal", "wait"})
     EXCEPT !.parallels = {"P"}, !.pair = "M" :> "P", !.need = "M" :> 0,
            !.limit = "P" :> 1, !.cancelable = cancelable, !.deadline = ~cancelable]

(* A branch of two steps of which the first can fail.                      *)
TwoSteps ==
    [Workflow({<<"P", 1, "A", 0>>, <<"A", 0, "B", 0>>, <<"B", 0, "M", 1>>,
               <<"P", 2, "R", 0>>, <<"R", 0, "M", 2>>},
              "P" :> {1, 2}, "A" :> {"fatal"})
     EXCEPT !.parallels = {"P"}, !.pair = "M" :> "P", !.need = "M" :> 1,
            !.limit = "P" :> 2]

(* A Parallel in a branch of another, with a step between the two Merges.  *)
Nested ==
    [Workflow({<<"P", 1, "O", 0>>, <<"O", 1, "A", 0>>, <<"O", 2, "B", 0>>,
               <<"A", 0, "N", 1>>, <<"B", 0, "N", 2>>, <<"N", 0, "K", 0>>,
               <<"K", 0, "M", 1>>, <<"P", 2, "R", 0>>, <<"R", 0, "M", 2>>},
              "P" :> {1, 2} @@ "O" :> {1, 2}, <<>>)
     EXCEPT !.parallels = {"P", "O"}, !.pair = "M" :> "P" @@ "N" :> "O",
            !.need = "M" :> 0 @@ "N" :> 0, !.limit = "P" :> 2 @@ "O" :> 2]

(* The same with the inner Merge, which wants one branch, at the end.      *)
Inner(reports) ==
    [Workflow({<<"P", 1, "O", 0>>, <<"O", 1, "A", 0>>, <<"O", 2, "B", 0>>,
               <<"A", 0, "N", 1>>, <<"B", 0, "N", 2>>, <<"N", 0, "M", 1>>,
               <<"P", 2, "R", 0>>, <<"R", 0, "M", 2>>},
              "P" :> {1, 2} @@ "O" :> {1, 2}, reports)
     EXCEPT !.parallels = {"P", "O"}, !.pair = "M" :> "P" @@ "N" :> "O",
            !.need = "M" :> 0 @@ "N" :> 1, !.limit = "P" :> 2 @@ "O" :> 2]

InnerMet == Inner("A" :> {"fatal"} @@ "B" :> {"wait"} @@ "R" :> {"retry"})
InnerUnmet == Inner("A" :> {"fatal"} @@ "B" :> {"fatal"})

(* More ready branches than one advance may admit; two of three suffice.   *)
Wide ==
    [Workflow({<<"P", 1, "A", 0>>, <<"P", 2, "B", 0>>, <<"P", 3, "C", 0>>,
               <<"A", 0, "M", 1>>, <<"B", 0, "M", 2>>, <<"C", 0, "M", 3>>},
              "P" :> {1, 2, 3}, [n \in {"A", "B"} |-> {"fatal"}])
     EXCEPT !.parallels = {"P"}, !.pair = "M" :> "P", !.need = "M" :> 2,
            !.limit = "P" :> 3]

(* A branch with a second step that leads to no Merge.                     *)
SideLeaf ==
    [Workflow({<<"P", 1, "L", 0>>, <<"L", 0, "M", 1>>, <<"L", 0, "K", 0>>,
               <<"P", 2, "R", 0>>, <<"R", 0, "M", 2>>},
              "P" :> {1, 2}, "K" :> {"fatal"})
     EXCEPT !.parallels = {"P"}, !.pair = "M" :> "P", !.need = "M" :> 1,
            !.limit = "P" :> 2]

Sound == {Routes, WithoutFirst, Either, Long, Direct(FALSE), InnerMet, Wide}
NeverMet == {TwoSteps, Nested, InnerUnmet}
Refused == {Direct(TRUE), SideLeaf}
=============================================================================
