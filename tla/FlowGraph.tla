------------------------------ MODULE FlowGraph ------------------------------
(* The graph algorithms the BPMN compiler and its validator share            *)
(* (internal/bpmn_compiler/bpmncore), over the flows of one process.         *)
(*                                                                           *)
(* A process is a record.  kind, lane and out map every node to its element  *)
(* type, its lane and its flow targets in document order; start is its start *)
(* event; bounds lists its boundary events in document order and host maps   *)
(* each to what it is attached to; ignored holds the lanes marked ignore and *)
(* body maps each sub-process to the process of its body.  Nodes are         *)
(* positive integers, so that the code's sort by id is the order of the      *)
(* numbers, and NoNode is the empty id.                                      *)
(*                                                                           *)
(* The operators are recursive: only TLC reads this module.                  *)
EXTENDS Naturals, Sequences, FiniteSets, TLC, SequencesExt

NoNode == 0

Gateways == {"xor", "and", "or"}
BoundaryKinds == {"timer", "message", "error"}
Work == {"task", "send", "receive", "sub", "call"}

Nodes(g) == DOMAIN g.kind

InOrder(ns) ==
  LET last == CHOOSE m \in ns : \A n \in ns : n <= m
  IN SelectSeq([i \in 1..last |-> i], LAMBDA n : n \in ns)

(* IterativeDFS under ClassifyBackEdges: done holds what was entered, path   *)
(* is the stack; an edge into the stack is a back edge.                      *)
RECURSIVE Descend(_, _, _, _)
Descend(out, path, v, d) ==
  LET here == path \cup {v}
      Edge(acc, w) == IF w \in here THEN [acc EXCEPT !.back = @ \cup {<<v, w>>}]
                                    ELSE Descend(out, here, w, acc)
  IN IF v \in d.done THEN d
     ELSE FoldLeft(Edge, [d EXCEPT !.done = @ \cup {v}], out[v])

ClassifyBackEdges(out, roots) ==
  FoldLeft(LAMBDA d, r : Descend(out, {}, r, d), [done |-> {}, back |-> {}], roots).back

ProcessBackEdges(g) == ClassifyBackEdges(g.out, <<g.start>> \o g.bounds)

RECURSIVE MarkReachable(_, _)
MarkReachable(out, seen) ==
  LET more == seen \cup UNION {ToSet(out[n]) : n \in seen}
  IN IF more = seen THEN seen ELSE MarkReachable(out, more)

(* Tarjan's algorithm, from roots taken in the order of a Go map, which is   *)
(* any order.                                                                *)
RECURSIVE StrongConnect(_, _, _)
StrongConnect(out, v, r) ==
  LET Lower(acc, n) == [acc EXCEPT !.low[v] = IF n < @ THEN n ELSE @]
      Edge(acc, w) ==
        IF w \notin DOMAIN acc.index
        THEN LET below == StrongConnect(out, w, acc) IN Lower(below, below.low[w])
        ELSE IF w \in ToSet(acc.stack) THEN Lower(acc, acc.index[w]) ELSE acc
      n0 == Cardinality(DOMAIN r.index)
      q == FoldLeft(Edge, [r EXCEPT !.index = @ @@ (v :> n0), !.low = @ @@ (v :> n0),
                                    !.stack = Append(@, v)], out[v])
      at == CHOOSE i \in 1..Len(q.stack) : q.stack[i] = v
  IN IF q.low[v] # q.index[v] THEN q
     ELSE [q EXCEPT !.stack = SubSeq(@, 1, at - 1),
                    !.sccs = @ \cup {ToSet(SubSeq(q.stack, at, Len(q.stack)))}]

TarjanSCC(out, roots) ==
  FoldLeft(LAMBDA r, v : IF v \in DOMAIN r.index THEN r ELSE StrongConnect(out, v, r),
           [index |-> <<>>, low |-> <<>>, stack |-> <<>>, sccs |-> {}], roots).sccs

ForwardNexts(g, n) == SelectSeq(g.out[n], LAMBDA m : <<n, m>> \notin g.back)

FirstForward(g, n) ==
  LET f == ForwardNexts(g, n) IN IF f = <<>> THEN NoNode ELSE Head(f)

BackNexts(g, n) == SelectSeq(g.out[n], LAMBDA m : <<n, m>> \in g.back)

(* The walk the joins are read from: nodes in the order they finish, each    *)
(* with its forward successors; cyclic holds the nodes that reach a cycle    *)
(* the back edges do not break.                                              *)
RECURSIVE Walk(_, _, _, _)
Walk(g, path, v, w) ==
  LET here == path \cup {v}
      Edge(acc, m) ==
        IF m \in here THEN [acc EXCEPT !.cyclic = @ \cup {v}]
        ELSE LET known == [acc EXCEPT !.succ[v] = Append(@, m)]
             IN IF m \in ToSet(acc.order) THEN known ELSE Walk(g, here, m, known)
      q == FoldLeft(Edge, w, ForwardNexts(g, v))
  IN [q EXCEPT !.order = Append(@, v),
               !.cyclic = IF ToSet(q.succ[v]) \cap @ = {} THEN @ ELSE @ \cup {v}]

ForwardWalk(g, roots) ==
  FoldLeft(LAMBDA w, r : IF r \in ToSet(w.order) THEN w ELSE Walk(g, {}, r, w),
           [order |-> <<>>, cyclic |-> {}, succ |-> [n \in Nodes(g) |-> <<>>]], roots)

RECURSIVE CommonAncestor(_, _, _)
CommonAncestor(j, a, b) ==
  CASE a = b                     -> a
    [] a # b /\ j.depth[a] >= j.depth[b] -> CommonAncestor(j, j.ipdom[a], b)
    [] OTHER                     -> CommonAncestor(j, a, j.ipdom[b])

(* One node of the index: its immediate post-dominator is the nearest common *)
(* ancestor of its successors in the tree of post-dominators built so far.   *)
IndexNode(g, w, j, n) ==
  LET succ == w.succ[n]
      meet == IF succ = <<>> THEN NoNode
              ELSE FoldLeft(LAMBDA a, b : CommonAncestor(j, a, b), Head(succ), Tail(succ))
  IN [ipdom |-> (n :> meet) @@ j.ipdom,
      depth |-> (n :> j.depth[meet] + 1) @@ j.depth,
      ends  |-> IF g.kind[n] = "end" \/ (ToSet(succ) \cap j.ends # {})
                THEN j.ends \cup {n} ELSE j.ends]

Index(g, w, skip) ==
  FoldLeft(LAMBDA j, n : IF n \in skip THEN j ELSE IndexNode(g, w, j, n),
           [ipdom |-> [n \in Nodes(g) |-> NoNode],
            depth |-> [n \in {NoNode} |-> 0], ends |-> {}], w.order)

FindJoin(g, split) ==
  IF Len(ForwardNexts(g, split)) < 2 THEN NoNode
  ELSE Index(g, ForwardWalk(g, <<split>>), {}).ipdom[split]

NewJoins(g) ==
  LET roots == SelectSeq(InOrder(Nodes(g)), LAMBDA n : g.out[n] # <<>>)
      w == ForwardWalk(g, roots)
      j == Index(g, w, w.cyclic)
  IN [cyclic |-> w.cyclic, ipdom |-> j.ipdom, ends |-> j.ends]

(* Joins.Find: the split's join, NoNode when it has none.                    *)
Find(g, split) ==
  CASE split \in g.joins.cyclic          -> FindJoin(g, split)
    [] Len(ForwardNexts(g, split)) < 2   -> NoNode
    [] OTHER                             -> g.joins.ipdom[split]

ForwardReach(g, n) == MarkReachable([m \in Nodes(g) |-> ForwardNexts(g, m)], {n})

ReachesEndEvent(g, n) ==
  IF n \in g.joins.cyclic THEN \E m \in ForwardReach(g, n) : g.kind[m] = "end"
                          ELSE n \in g.joins.ends

(* The tasks of a lane marked ignore, which the flow passes through.         *)
SkippedTasks(g) ==
  {n \in Nodes(g) : g.kind[n] \in {"task", "send", "receive"} /\ g.lane[n] \in g.ignored}

(* A process with what the validator and the compiler compute of its graph,  *)
(* the bodies of its sub-processes included.                                 *)
RECURSIVE Analysed(_)
Analysed(g) ==
  LET b == g @@ [back |-> ProcessBackEdges(g), skipped |-> SkippedTasks(g)]
  IN [b EXCEPT !.body = [n \in DOMAIN g.body |-> Analysed(g.body[n])]]
       @@ [joins |-> NewJoins(b)]

(* taskAhead, firstTaskNodeAhead and the validator's revertTarget: the first *)
(* element of these kinds along the first forward flows, lanes marked ignore *)
(* passed through.                                                           *)
RECURSIVE Ahead(_, _, _, _)
Ahead(g, n, kinds, seen) ==
  CASE n = NoNode \/ n \in seen                     -> NoNode
    [] n \notin g.skipped /\ g.kind[n] \in kinds    -> n
    [] OTHER -> Ahead(g, FirstForward(g, n), kinds, seen \cup {n})

OutgoingTargetOf(g, b) == IF g.out[b] = <<>> THEN NoNode ELSE Head(g.out[b])

TaskAhead(g, n) == Ahead(g, n, {"task", "sub"}, {})
FirstTaskNodeAhead(g, n) == Ahead(g, n, Work, {})

(* The longest forward path from a node, in nodes.                           *)
RECURSIVE Depth(_, _)
Depth(g, n) ==
  FoldLeft(LAMBDA best, m : IF 1 + Depth(g, m) > best THEN 1 + Depth(g, m) ELSE best,
           1, ForwardNexts(g, n))
=============================================================================
