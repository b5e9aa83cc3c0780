---------------------------- MODULE ProcessChecks ----------------------------
(* The rules a process must meet before it is compiled                       *)
(* (internal/bpmn_compiler/validator): every operator is the set of issues a *)
(* rule reports, each a code and the element it is anchored on.  Only        *)
(* blocking issues; the rules about the text of an attribute (names, dates,  *)
(* durations, conditions, users, departments) are left out.                  *)
EXTENDS FlowGraph

CONSTANTS
  MaxPathDepth,   \* nodes a forward path may have
  StageBudget     \* user tasks a process, and stages a plan, may have

Issue(code, ns) == {<<code, n>> : n \in ns}

KindIs(p, kinds) == {n \in Nodes(p) : p.kind[n] \in kinds}
Incoming(p, n) == {m \in Nodes(p) : n \in ToSet(p.out[m])}
ForwardOutCount(p, n) == Len(ForwardNexts(p, n))

MissingEnd(p) == IF KindIs(p, {"end"}) = {} THEN Issue("NO_END_EVENT", {p.start}) ELSE {}

TooManyTasks(p) ==
  IF Cardinality(KindIs(p, {"task"})) > StageBudget
  THEN Issue("TASK_LIMIT_EXCEEDED", {p.start}) ELSE {}

TooDeep(p) ==
  IF Depth(p, p.start) > MaxPathDepth THEN Issue("MAX_DEPTH_EXCEEDED", {p.start}) ELSE {}

NestedSubProcess(p) ==
  UNION {Issue("NESTED", KindIs(p.body[b], {"sub", "call"})) : b \in DOMAIN p.body}

DanglingNodes(p) ==
  LET noOut == {n \in Nodes(p) : p.out[n] = <<>>}
      noIn == {n \in Nodes(p) : Incoming(p, n) = {}}
  IN Issue("DANGLING_NODE",
           (noOut \cap KindIs(p, Work \cup Gateways \cup {"start", "timer", "error"}))
             \cup (noIn \cap KindIs(p, Work \cup Gateways \cup {"end"})))

Unreachable(p) ==
  Issue("UNREACHABLE_NODE",
        (Nodes(p) \ KindIs(p, BoundaryKinds))
           \ MarkReachable(p.out, {p.start} \cup ToSet(p.bounds)))

(* A back edge leaves an exclusive gateway that keeps a forward exit, and a  *)
(* loop has a node whose flow can leave it.                                  *)
Loops(p) ==
  LET Guarded(e) == /\ e[1] # e[2]
                    /\ p.kind[e[1]] = "xor"
                    /\ FirstForward(p, e[1]) # NoNode
      GuardedExit(c) == \E n \in c : /\ p.kind[n] \in Gateways \cup {"receive"}
                                     /\ ~ (ToSet(p.out[n]) \subseteq c)
      sccs == TarjanSCC(p.out, InOrder(Nodes(p)))
  IN Issue("UNGUARDED_LOOP", {e[1] : e \in {f \in p.back : ~Guarded(f)}})
       \cup Issue("CYCLE_DETECTED", {c \in sccs : Cardinality(c) > 1 /\ ~GuardedExit(c)})

RevertTargets(p) ==
  LET Untargetable(e) == /\ p.kind[e[1]] = "xor"
                         /\ FirstTaskNodeAhead(p, e[2]) \in KindIs(p, {"sub", "call"})
  IN Issue("UNSUPPORTED_REVERT_TARGET", {e[1] : e \in {f \in p.back : Untargetable(f)}})

(* An exclusive split without a join is allowed when every branch ends.      *)
UnmatchedGateways(p) ==
  LET AllBranchesTerminate(n) ==
        \A b \in ToSet(ForwardNexts(p, n)) : ReachesEndEvent(p, b)
      Matched(n) == \/ ForwardOutCount(p, n) <= 1
                    \/ n \in p.joins.cyclic
                    \/ Find(p, n) # NoNode
                    \/ p.kind[n] = "xor" /\ AllBranchesTerminate(n)
  IN Issue("UNMATCHED_GATEWAY", {n \in KindIs(p, Gateways) : ~Matched(n)})

SingleOutgoing(p) ==
  Issue("END_EVENT_WITH_OUTGOING_FLOW",
        {n \in KindIs(p, {"end"}) : ForwardOutCount(p, n) > 0})
    \cup Issue("SPLIT_WITHOUT_GATEWAY",
               {n \in KindIs(p, Work \cup {"start"}) : ForwardOutCount(p, n) > 1})

BodyStartsWithTask(p, n) ==
  LET b == p.body[n] IN p.kind[n] = "sub" => b.kind[OutgoingTargetOf(b, b.start)] = "task"

(* The first element of a boundary's path that decides: a task, a body that  *)
(* starts with one and an end event may, what cannot be moved to may not.    *)
UnsupportedTarget(p, b) ==
  LET decides == {"task", "sub", "end", "call", "send", "receive"}
      n == Ahead(p, OutgoingTargetOf(p, b), decides, {})
  IN n # NoNode /\ \/ p.kind[n] \in {"call", "send", "receive"}
                   \/ p.kind[n] = "sub" /\ ~BodyStartsWithTask(p, n)

BoundaryEvents(p) ==
  LET bs == ToSet(p.bounds)
      at == [b \in bs |-> p.kind[p.host[b]]]
      Earlier(b) == \E i, j \in DOMAIN p.bounds :
                      LET c == p.bounds[i]
                      IN i < j /\ b = p.bounds[j] /\ p.kind[c] = p.kind[b]
                               /\ p.host[c] = p.host[b]
      Misplaced(b) == IF p.kind[b] = "error" THEN at[b] \notin {"sub", "call"}
                      ELSE at[b] \notin {"task", "sub", "call"} \/ Earlier(b)
  IN Issue("INVALID_BOUNDARY_ATTACHMENT", {b \in bs : Misplaced(b)})
       \cup Issue("SPLIT_WITHOUT_GATEWAY", {b \in bs : ForwardOutCount(p, b) > 1})
       \cup Issue("UNSUPPORTED_BOUNDARY_TARGET", {b \in bs : UnsupportedTarget(p, b)})

(* Some element that runs lies between a loop's head and its gateway.        *)
LoopRunsWork(p, head, gateway) ==
  LET ahead == [m \in Nodes(p) |-> IF m = gateway THEN <<>> ELSE ForwardNexts(p, m)]
  IN (MarkReachable(ahead, {head}) \ ({gateway} \cup p.skipped))
        \cap KindIs(p, Work) # {}

IgnoredLanes(p) ==
  Issue("IGNORED_LANE_WORK",
        {n \in KindIs(p, {"sub", "call"}) : p.lane[n] \in p.ignored}
          \cup {b \in ToSet(p.bounds) : p.host[b] \in p.skipped}
          \cup {e[1] : e \in {f \in p.back : ~LoopRunsWork(p, f[2], f[1])}})

OutsideLanes(p) ==
  IF \A n \in Nodes(p) : p.lane[n] = "" THEN {}
  ELSE Issue("TASK_NOT_IN_LANE", {n \in KindIs(p, Work) \ p.skipped : p.lane[n] = ""})

(* Validate: too deep a process is reported alone, since the rules after it  *)
(* walk its paths; a sub-process reports the issues of its body.             *)
RECURSIVE Issues(_)
Issues(p) ==
  MissingEnd(p) \cup TooManyTasks(p) \cup
    IF TooDeep(p) # {} THEN TooDeep(p)
    ELSE UNION ({NestedSubProcess(p), DanglingNodes(p), Unreachable(p), Loops(p),
                 RevertTargets(p), UnmatchedGateways(p), SingleOutgoing(p),
                 BoundaryEvents(p), IgnoredLanes(p), OutsideLanes(p)}
                  \cup {Issues(p.body[n]) : n \in DOMAIN p.body})
=============================================================================
