------------------------- MODULE CompilerProperties -------------------------
(* What the validator and the compiler promise together: the plan of a valid *)
(* document runs the tasks its flows give, in their order.                   *)
EXTENDS PlanCompiler

Checked == stage \in {"checked", "compiled"}
Processes == {document} \cup {document.body[n] : n \in DOMAIN document.body}

Forward(p) == [n \in Nodes(p) |-> ForwardNexts(p, n)]
Reached(p) == MarkReachable(p.out, {p.start} \cup ToSet(p.bounds))
Without(out, m) == [n \in DOMAIN out |-> SelectSeq(out[n], LAMBDA k : k # m)]

(* Every maximal forward path from n goes through m: with m removed, no node *)
(* that leads nowhere is reached.                                            *)
Leaves(p) == {n \in Nodes(p) : ForwardNexts(p, n) = <<>>}
PassedBy(p, n) ==
  {m \in ForwardReach(p, n) \ {n} :
     MarkReachable(Without(Forward(p), m), {n}) \cap (Leaves(p) \ {m}) = {}}
TrueJoin(p, n) ==
  LET ms == PassedBy(p, n)
  IN IF ms = {} THEN NoNode ELSE CHOOSE m \in ms : ms \subseteq ForwardReach(p, m)

-----------------------------------------------------------------------------
(* The orders in which the work of a process can be done.  A parallel split  *)
(* is read as its branches one after another, in the order drawn: a plan and *)
(* a diagram are compared by the same reading.                               *)

Then(before, after) == {a \o b : a \in before, b \in after}

RECURSIVE Runs(_, _, _)
Runs(p, n, stop) ==
  LET next == ForwardNexts(p, n)
      Ahead1 == IF next = <<>> THEN {<<>>} ELSE Runs(p, Head(next), stop)
      join == TrueJoin(p, n)
  IN CASE n \in {stop, NoNode} -> {<<>>}
       [] n # stop /\ n \in p.skipped -> Ahead1
       [] n \notin {stop} \cup p.skipped /\ p.kind[n] = "xor" ->
            UNION {Runs(p, m, stop) : m \in ToSet(next)}
       [] n # stop /\ p.kind[n] \in {"and", "or"} ->
            IF Len(next) < 2 THEN Ahead1
            ELSE Then(FoldLeft(LAMBDA acc, m : Then(acc, Runs(p, m, join)), {<<>>}, next),
                      Runs(p, join, stop))
       [] n # stop /\ p.kind[n] = "sub" ->
            Then(Runs(p.body[n], p.body[n].start, NoNode), Ahead1)
       [] n \notin {stop} \cup p.skipped /\ p.kind[n] \in {"task", "send", "receive", "call"} ->
            Then({<<n>>}, Ahead1)
       [] OTHER -> Ahead1

RECURSIVE PlanRuns(_, _)
PlanRuns(pl, steps) ==
  IF steps = <<>> THEN {<<>>}
  ELSE LET s == Head(steps)
           rest == PlanRuns(pl, Tail(steps))
           Of(b) == PlanRuns(pl, b.steps)
       IN CASE s.op = "seq" -> Then({FlattenSeq([i \in DOMAIN s.depts |-> pl.depts[s.depts[i]]])}, rest)
            [] s.op = "sub" -> Then(PlanRuns(pl, s.steps), rest)
            [] s.op = "call" -> Then({<<s.node>>}, rest)
            [] s.op = "split" /\ s.all ->
                 Then(FoldLeft(LAMBDA acc, b : Then(acc, Of(b)), {<<>>}, s.branches), rest)
            [] s.op = "split" /\ ~s.all ->
                 UNION {IF b.ends THEN Of(b) ELSE Then(Of(b), rest) : b \in ToSet(s.branches)}

Compiled1 == stage = "compiled"
HasPlan == Compiled1 /\ ~plan.failed

(* The plan of a document no rule refuses runs the tasks its forward flows   *)
(* give, in their order, on every path and on no other: a department is run  *)
(* whole wherever a step names it, so a lane the flow returns to, a loop, a  *)
(* region two branches share or a merge inside one branch must not pull a    *)
(* task before or after its turn (docs/bpmn-designer-guide.md:221).  The     *)
(* steps a boundary carries run the path it leads to in the same way.        *)
PlanRunsTheDiagram ==
  HasPlan =>
    /\ PlanRuns(plan, plan.steps) = Runs(document, document.start, NoNode)
    /\ \A b \in DOMAIN plan.boundarySteps \cap ToSet(document.bounds) :
         PlanRuns(plan, plan.boundarySteps[b])
           = Runs(document, OutgoingTargetOf(document, b), NoNode)

(* A boundary moves to a department whose first stage is the task its path   *)
(* reaches first: no earlier task of the same lane runs again with it.       *)
BoundaryLandsOnItsTask ==
  HasPlan => \A b \in ToSet(document.bounds) :
    LET n == TaskAhead(document, OutgoingTargetOf(document, b))
        first == IF n # NoNode /\ document.kind[n] = "sub"
                 THEN LET q == document.body[n] IN TaskAhead(q, FirstForward(q, q.start)) ELSE n
    IN n # NoNode => /\ plan.target[b] \in DOMAIN plan.depts
                     /\ plan.depts[plan.target[b]] # <<>>
                     /\ Head(plan.depts[plan.target[b]]) = first

(* The reverts of a list of steps, each with the departments that run before *)
(* it on its path.                                                           *)
RECURSIVE RevertsIn(_, _)
RevertsIn(steps, before) ==
  IF steps = <<>> THEN {}
  ELSE LET s == Head(steps)
           rec(sub) == RevertsIn(sub, before)
           Passed == CASE s.op = "seq" -> ToSet(s.depts)
                       [] OTHER        -> {}
       IN (CASE s.op = "split" -> {<<s.reverts[i], before>> : i \in DOMAIN s.reverts}
                                     \cup UNION {rec(s.branches[i].steps) : i \in DOMAIN s.branches}
             [] s.op = "sub"   -> RevertsIn(s.steps, {})
             [] OTHER          -> {})
            \cup RevertsIn(Tail(steps), before \cup Passed)

(* A revert that names a task names a department that holds it, and the copy *)
(* on its own path when that path compiled one ("a revert to it names the    *)
(* copy on the revert's own path", docs/lld/definition_service.md:2656).     *)
RevertNamesItsCopy ==
  HasPlan => \A r \in RevertsIn(plan.steps, {}) :
    LET copies == {d \in DOMAIN plan.depts : r[1].node \in ToSet(plan.depts[d])}
    IN r[1].node # NoNode => /\ r[1].dept \in copies
                             /\ copies \cap r[2] # {} => r[1].dept \in r[2]

(* Every task of a document no rule refuses is in the plan.                  *)
EveryTaskIsCompiled ==
  HasPlan => \A n \in Nodes(document) \ document.skipped :
    document.kind[n] \in {"task", "send", "receive"}
      => \E d \in DOMAIN plan.depts : n \in ToSet(plan.depts[d])
=============================================================================
