---------------------------- MODULE PlanCompiler ----------------------------
(* The compilation of one process into a plan (bpmncore.Compile with the     *)
(* element handlers): departments that hold stages, and steps that run them. *)
(*                                                                           *)
(* A department is a lane segment, the pair of a lane and a number; a plan's *)
(* steps are sequences of records:                                           *)
(*   seq   the departments run one after the other                           *)
(*   split the branches of a gateway, all run or one chosen, and its reverts *)
(*   sub   the body of a sub-process                                         *)
(*   call  the call of another plan                                          *)
(* sh is what all the branches of one compilation share; the rest of a state *)
(* belongs to one branch.                                                    *)
EXTENDS ProcessChecks

CONSTANT Diagrams     \* the processes a request may carry, a sequence of families

VARIABLES document, issues, plan, stage
compilerVars == <<document, issues, plan, stage>>

Unplaced == <<"", 0>>
Pending == <<"pending", 0>>

Bind(f, k, v) == IF k \in DOMAIN f THEN f ELSE f @@ (k :> v)
Count(sh, lane) == IF lane \in DOMAIN sh.segments THEN sh.segments[lane] ELSE 0

(* A boundary may move to this element, so it starts a segment of its own.   *)
NoSegmentStarts(p) == {}
SegmentStarts(p) == {TaskAhead(p, OutgoingTargetOf(p, b)) : b \in ToSet(p.bounds)}

NewShared ==
  [depts |-> <<>>, segments |-> <<>>, nodeSegment |-> <<>>, visited |-> {},
   boundarySteps |-> <<>>, stages |-> 0, nodes |-> 0, rejoined |-> FALSE,
   failed |-> FALSE, over |-> FALSE]

NewState(sh, slot) ==
  [sh |-> sh, slot |-> slot, steps |-> <<>>, seqBuf |-> <<>>, visited |-> {},
   open |-> Unplaced, pathSegment |-> <<>>, stopAt |-> NoNode, rejoins |-> FALSE]

NewBranchState(s, stopAt) ==
  [NewState(s.sh, s.slot) EXCEPT !.pathSegment = s.pathSegment, !.stopAt = stopAt,
                                 !.rejoins = s.rejoins]

LaneOf(p, s, n) == IF p.lane[n] = "" THEN s.slot ELSE p.lane[n]

FlushKeepsSegment(s) ==
  [s EXCEPT !.seqBuf = <<>>, !.steps = IF s.seqBuf = <<>> THEN @
                      ELSE Append(@, [op |-> "seq", depts |-> s.seqBuf])]
FlushSeqBuf(s) ==
  [s EXCEPT !.open = Unplaced, !.seqBuf = <<>>,
            !.steps = IF s.seqBuf = <<>> THEN @
                      ELSE Append(@, [op |-> "seq", depts |-> s.seqBuf])]

AppendStep(s, step) == [s EXCEPT !.steps = Append(@, step)]

(* SegmentOf: the open segment goes on while the lane stays the same, unless *)
(* a boundary may move to the element; a segment still without a stage is    *)
(* used before a new one is made.                                            *)
SegmentOf(p, s, n) ==
  LET lane == LaneOf(p, s, n)
      latest == <<lane, Count(s.sh, lane)>>
      goesOn == s.open # Unplaced /\ s.open[1] = lane /\ n \notin SegmentStarts(p)
      reuses == latest \in DOMAIN s.sh.depts /\ s.sh.depts[latest] = <<>>
      next == CASE goesOn -> s.open
                [] ~goesOn /\ reuses -> latest
                [] OTHER -> <<lane, latest[2] + 1>>
  IN [s EXCEPT !.sh.segments = (lane :> IF goesOn THEN latest[2] ELSE next[2]) @@ @,
               !.sh.depts = Bind(@, next, <<>>),
               !.sh.nodeSegment = Bind(@, n, next),
               !.pathSegment = (n :> next) @@ @,
               !.open = next]

(* LaneDepartment: a call binds a department of its own lane, which may have *)
(* no stage yet.                                                             *)
LaneDepartment(p, s, n) ==
  LET lane == LaneOf(p, s, n)
  IN IF Count(s.sh, lane) > 0 THEN s
     ELSE [s EXCEPT !.sh.segments = (lane :> 1) @@ @,
                    !.sh.depts = Bind(@, <<lane, 1>>, <<>>)]

(* The handler of a user, send or receive task, up to the flow it leaves.    *)
AddStage(p, s, n) ==
  LET q == SegmentOf(p, s, n)
  IN [q EXCEPT !.sh.depts[q.open] = Append(@, n), !.sh.stages = @ + 1,
               !.seqBuf = IF q.open \in ToSet(@) THEN @ ELSE Append(@, q.open)]

RECURSIVE FirstDepartment(_)
FirstDepartment(steps) ==
  IF steps = <<>> THEN Unplaced
  ELSE LET s == Head(steps)
       IN CASE s.op = "seq"   -> Head(s.depts)
            [] s.op = "sub"   -> FirstDepartment(s.steps)
            [] s.op = "call"  -> Unplaced
            [] s.op = "split" ->
                 LET found == SelectSeq([i \in DOMAIN s.branches |->
                                           FirstDepartment(s.branches[i].steps)],
                                        LAMBDA d : d # Unplaced)
                 IN IF found = <<>> THEN Unplaced ELSE Head(found)

(* MarkNodeSegment, for a sub-process: the first department of its body.     *)
MarkNodeSegment(s, n, dept) ==
  IF dept = Unplaced THEN s
  ELSE [s EXCEPT !.sh.nodeSegment = Bind(@, n, dept), !.pathSegment = (n :> dept) @@ @]

(* A revert names the copy of its target on its own path; the department of  *)
(* a target compiled elsewhere is filled in when the compilation ends.       *)
RevertsAllPending(p, s, n) ==
  LET back == BackNexts(p, n)
  IN [i \in DOMAIN back |-> [from |-> n, node |-> FirstTaskNodeAhead(p, back[i]), dept |-> Pending]]
RevertBranches(p, s, n) ==
  LET Revert(b) == LET t == FirstTaskNodeAhead(p, b)
                   IN [from |-> n, node |-> t,
                       dept |-> IF t \in DOMAIN s.pathSegment THEN s.pathSegment[t] ELSE Pending]
      back == BackNexts(p, n)
  IN [i \in DOMAIN back |-> Revert(back[i])]

Split(kind, branches, reverts) ==
  [op |-> "split", all |-> kind # "xor", branches |-> branches, reverts |-> reverts]

Failed(s) == [s EXCEPT !.sh.failed = TRUE]

RECURSIVE TraverseNode(_, _, _)
RECURSIVE BoundaryPaths(_, _)

(* One branch of a split, compiled with a state of its own up to stopAt; acc *)
(* carries what the branches share from one to the next.                     *)
Branch(p, s, stopAt, ends, acc, n) ==
  LET b == FlushSeqBuf(TraverseNode(p, n, [NewBranchState(s, stopAt) EXCEPT !.sh = acc.sh]))
  IN [sh |-> b.sh, branches |-> Append(acc.branches, [steps |-> b.steps, ends |-> ends])]

Branches(p, s, n, stopAt, ends) ==
  FoldLeft(LAMBDA acc, m : Branch(p, s, stopAt, ends, acc, m),
           [sh |-> s.sh, branches |-> <<>>], ForwardNexts(p, n))

(* HandleGateway                                                             *)
HandleGateway(p, n, s0) ==
  LET fwd == ForwardNexts(p, n)
      s == FlushSeqBuf(s0)
      join == Find(p, n)
      reverts == RevertBranches(p, s, n)
      Add(b, rs) == AppendStep([s EXCEPT !.sh = b.sh], Split(p.kind[n], b.branches, rs))
      single == [sh |-> s.sh,
                 branches |-> [i \in DOMAIN fwd |-> [steps |-> <<>>, ends |-> p.kind[fwd[i]] = "end"]]]
  IN CASE Len(fwd) <= 1 /\ reverts = <<>> -> IF fwd = <<>> THEN s0 ELSE TraverseNode(p, fwd[1], s0)
       [] Len(fwd) <= 1 /\ reverts # <<>> ->
            LET q == AppendStep([s EXCEPT !.sh = single.sh], Split("xor", single.branches, reverts))
            IN IF fwd = <<>> THEN q ELSE TraverseNode(p, fwd[1], q)
       [] Len(fwd) > 1 /\ join # NoNode ->
            TraverseNode(p, join, Add(Branches(p, s, n, join, FALSE), reverts))
       [] OTHER -> IF p.kind[n] # "xor" THEN Failed(s)
                   ELSE Add(Branches(p, s, n, NoNode, TRUE), reverts)

(* A sub-process body shares its parent's segments; a task of it outside     *)
(* every lane takes the sub-process's lane.                                  *)
FromStart(p, s) ==
  LET first == FirstForward(p, p.start)
  IN BoundaryPaths(p, IF first = NoNode THEN s ELSE TraverseNode(p, first, s))

AddBody(n, s, body) ==
  AppendStep(FlushSeqBuf(MarkNodeSegment([s EXCEPT !.sh = body.sh], n, FirstDepartment(body.steps))),
             [op |-> "sub", node |-> n, steps |-> body.steps])

SubProcess(p, n, s) == AddBody(n, s, FromStart(p.body[n], NewState(s.sh, LaneOf(p, s, n))))

CallActivity(p, n, s) ==
  AppendStep(FlushSeqBuf(LaneDepartment(p, s, n)), [op |-> "call", node |-> n])

Follow(p, n, s) ==
  LET m == FirstForward(p, n) IN IF m = NoNode THEN s ELSE TraverseNode(p, m, s)

FollowAll(p, n, s) ==
  FoldLeft(LAMBDA acc, m : TraverseNode(p, m, acc), s, ForwardNexts(p, n))

(* No flow enters a start or boundary event.                                 *)
Compiled(p, n, s) ==
  CASE n \in p.skipped          -> FollowAll(p, n, s)
    [] p.kind[n] \in Gateways   -> HandleGateway(p, n, s)
    [] p.kind[n] = "end"        -> FlushSeqBuf(s)
    [] p.kind[n] = "sub"        -> Follow(p, n, SubProcess(p, n, s))
    [] p.kind[n] = "call"       -> Follow(p, n, CallActivity(p, n, s))
    [] OTHER                    -> Follow(p, n, AddStage(p, s, n))

(* The stages and the visits, ten to a stage, are bounded: branches that     *)
(* merge only in part are compiled once per branch.                          *)
OverBudget(sh) == sh.stages > StageBudget \/ sh.nodes + 1 > 10 * StageBudget

Over(s) == [s EXCEPT !.sh.failed = TRUE, !.sh.over = TRUE]

TraverseNode(p, n, s) ==
  CASE s.sh.failed \/ n = s.stopAt                  -> s
    [] s.rejoins /\ n \in s.sh.visited              ->
         [s EXCEPT !.sh.rejoined = @ \/ p.kind[n] # "end"]
    [] ~s.rejoins /\ n \in s.visited                -> s
    [] OTHER -> IF OverBudget(s.sh) THEN Over(s)
                ELSE Compiled(p, n, [s EXCEPT !.sh.nodes = @ + 1, !.visited = @ \cup {n},
                                              !.sh.visited = @ \cup {n}])

(* CompileBoundaryPaths: a path whose first task is compiled already is left *)
(* alone; one that runs into compiled work keeps no steps of its own.        *)
BoundaryPath(p, s, b) ==
  LET n == TaskAhead(p, OutgoingTargetOf(p, b))
      path == TraverseNode(p, OutgoingTargetOf(p, b),
                           [NewBranchState(s, NoNode) EXCEPT !.rejoins = TRUE,
                                                             !.sh.rejoined = FALSE])
      sh == path.sh
  IN IF n = NoNode \/ n \in DOMAIN s.sh.nodeSegment \/ s.sh.failed THEN s
     ELSE [s EXCEPT !.sh = IF sh.rejoined THEN sh
                           ELSE [sh EXCEPT !.boundarySteps =
                                   (b :> FlushSeqBuf(path).steps) @@ @]]

BoundaryPaths(p, s) == FoldLeft(LAMBDA acc, b : BoundaryPath(p, acc, b), s, p.bounds)

(* ResolveTargets: where a pending target was compiled first, or its lane.   *)
Resolve(sh, p, slot, n) ==
  CASE n \in DOMAIN sh.nodeSegment -> sh.nodeSegment[n]
    [] n \notin DOMAIN sh.nodeSegment /\ n \in Nodes(p) /\ p.lane[n] # "" -> <<p.lane[n], 1>>
    [] OTHER -> <<slot, 1>>

ResolveRevert(sh, p, slot, r) ==
  IF r.dept = Pending THEN [r EXCEPT !.dept = Resolve(sh, p, slot, r.node)] ELSE r

RECURSIVE ResolveSteps(_, _, _, _)
ResolveSteps(sh, p, slot, steps) ==
  LET Step(s) ==
        CASE s.op = "split" ->
               [s EXCEPT !.reverts = [i \in DOMAIN @ |-> ResolveRevert(sh, p, slot, @[i])],
                         !.branches = [i \in DOMAIN @ |->
                           [@[i] EXCEPT !.steps = ResolveSteps(sh, p, slot, @)]]]
          [] s.op = "sub" -> [s EXCEPT !.steps = ResolveSteps(sh, p, slot, @)]
          [] OTHER        -> s
  IN [i \in DOMAIN steps |-> Step(steps[i])]

BoundaryTargets(sh, p, slot, q) ==
  [b \in ToSet(q.bounds) |->
     LET n == TaskAhead(q, OutgoingTargetOf(q, b))
     IN IF n = NoNode THEN Unplaced ELSE Resolve(sh, p, slot, n)]

Finished(p, slot, sh, steps) ==
  [failed |-> sh.failed, depts |-> sh.depts,
   steps |-> ResolveSteps(sh, p, slot, steps),
   boundarySteps |-> [b \in DOMAIN sh.boundarySteps |->
                        ResolveSteps(sh, p, slot, sh.boundarySteps[b])],
   target |-> BoundaryTargets(sh, p, slot, p)
                @@ [b \in UNION {ToSet(p.body[n].bounds) : n \in DOMAIN p.body} |->
                      LET n == CHOOSE m \in DOMAIN p.body : b \in ToSet(p.body[m].bounds)
                      IN BoundaryTargets(sh, p, slot, p.body[n])[b]],
   over |-> sh.over]

FinishedState(p, slot, s) == Finished(p, slot, s.sh, s.steps)

CompilePlan(p) ==
  LET slot == IF \A n \in Nodes(p) : p.lane[n] = "" THEN p.slot ELSE ""
  IN FinishedState(p, slot, FromStart(p, NewState(NewShared, slot)))

-----------------------------------------------------------------------------
(* compileSingleRoot: a document is read, checked, and compiled only when no *)
(* issue blocks it.                                                          *)

NoPlan == [failed |-> FALSE]

CompilerInit ==
  /\ \E family \in DOMAIN Diagrams : document \in Diagrams[family]
  /\ issues = {}
  /\ plan = NoPlan
  /\ stage = "read"

Check ==
  /\ stage = "read"
  /\ LET p == Analysed(document)
     IN /\ document' = p
        /\ issues' = Issues(p)
  /\ stage' = "checked"
  /\ UNCHANGED plan

Compile ==
  /\ stage = "checked" /\ issues = {}
  /\ plan' = CompilePlan(document)
  /\ stage' = "compiled"
  /\ UNCHANGED <<document, issues>>

CompilerNext == Check \/ Compile

CompilerSpec == CompilerInit /\ [][CompilerNext]_compilerVars
=============================================================================
