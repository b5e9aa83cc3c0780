------------------------------ MODULE JoinIndex ------------------------------
(* How the joins of a process are found (bpmncore/joins.go, and FindJoin of  *)
(* graph.go): one walk over the forward flows lists the nodes in the order   *)
(* they finish, then each gets its parent in the tree of post-dominators,    *)
(* the nearest common ancestor of its successors in the tree built so far.   *)
(* FlowGraph has the same as operators; here a step is one turn of a loop.   *)
(*                                                                           *)
(* A flow graph is [out, back, ends]: out maps every node to the targets of  *)
(* its flows in document order, back holds its back edges and ends its end   *)
(* events.  Nodes are positive integers in the order of their ids.           *)
EXTENDS Naturals, Sequences, FiniteSets, FiniteSetsExt, SequencesExt

CONSTANT Flows    \* the flow graphs, a sequence of families

Nowhere == 0

IsFlow(g) ==
  /\ DOMAIN g.out \subseteq Nat \ {Nowhere} /\ IsFiniteSet(DOMAIN g.out)
  /\ \A n \in DOMAIN g.out : g.out[n] \in Seq(DOMAIN g.out)

ASSUME FlowsAreGraphs == \A f \in DOMAIN Flows : \A g \in Flows[f] : IsFlow(g)

VARIABLES
  flow,         \* the flow graph
  split,        \* the node FindJoin is asked for, Nowhere for the whole index
  step,         \* "walk", "index", "indexed"
  trail,        \* the nodes the walk has entered and not finished, each with its next flow
  walk,         \* the nodes finished, the ones on or before a cycle, the forward flows taken
  tree,         \* parent and depth of the nodes placed, those that reach an end, the next one
  meet          \* the common ancestor of the successors read so far, while it is sought
indexVars == <<flow, split, step, trail, walk, tree, meet>>

Forwards(g, n) == {k \in DOMAIN g.out[n] : <<n, g.out[n][k]>> \notin g.back}
ForwardTo(g, n) == {g.out[n][k] : k \in Forwards(g, n)}

-----------------------------------------------------------------------------
(* The walk.  The index starts from every node in turn, in the order of the  *)
(* ids; FindJoin from its split, and keeps no note of cycles or ends.        *)
Roots == IF split = Nowhere THEN {n \in DOMAIN flow.out : flow.out[n] # <<>>} ELSE {split}
Unfinished == Roots \ ToSet(walk.order)
OnTrail == {trail[i].node : i \in DOMAIN trail}

Top == Last(trail)
AtFlow == trail # <<>> /\ Top.at \in DOMAIN flow.out[Top.node]
TargetHere == flow.out[Top.node][Top.at]
IsBack == <<Top.node, TargetHere>> \in flow.back
Past == [trail EXCEPT ![Len(trail)] = [node |-> Top.node, at |-> Top.at + 1]]
Entered(n) == [node |-> n, at |-> 1]
Taken == [walk EXCEPT !.succ[Top.node] = Append(@, TargetHere)]

WalkFrom ==
  /\ step = "walk" /\ trail = <<>> /\ Unfinished # {}
  /\ trail' = <<Entered(Min(Unfinished))>>
  /\ UNCHANGED <<flow, split, step, walk, tree, meet>>

PassBack ==
  /\ step = "walk" /\ AtFlow /\ IsBack
  /\ trail' = Past
  /\ UNCHANGED <<flow, split, step, walk, tree, meet>>

CutFlow ==
  /\ step = "walk" /\ AtFlow /\ ~IsBack /\ TargetHere \in OnTrail
  /\ trail' = Past
  /\ walk' = [walk EXCEPT !.cyclic = @ \cup {Top.node}]
  /\ UNCHANGED <<flow, split, step, tree, meet>>

TakeFlowUnnoted ==
  /\ step = "walk" /\ AtFlow /\ ~IsBack /\ TargetHere \in ToSet(walk.order)
  /\ trail' = Past
  /\ UNCHANGED <<flow, split, step, walk, tree, meet>>

TakeFlow ==
  /\ step = "walk" /\ AtFlow /\ ~IsBack /\ TargetHere \in ToSet(walk.order)
  /\ trail' = Past
  /\ walk' = Taken
  /\ UNCHANGED <<flow, split, step, tree, meet>>

EnterNode ==
  /\ step = "walk" /\ AtFlow /\ ~IsBack /\ TargetHere \notin OnTrail \cup ToSet(walk.order)
  /\ trail' = Append(Past, Entered(TargetHere))
  /\ walk' = Taken
  /\ UNCHANGED <<flow, split, step, tree, meet>>

FinishNode ==
  /\ step = "walk" /\ trail # <<>> /\ ~AtFlow
  /\ trail' = Front(trail)
  /\ walk' = [order |-> Append(walk.order, Top.node), succ |-> walk.succ,
              cyclic |-> walk.cyclic \cup {n \in {Top.node} : ToSet(walk.succ[n]) \cap walk.cyclic # {}}]
  /\ UNCHANGED <<flow, split, step, tree, meet>>

EndWalk ==
  /\ step = "walk" /\ trail = <<>> /\ Unfinished = {}
  /\ step' = "index"
  /\ UNCHANGED <<flow, split, trail, walk, tree, meet>>

-----------------------------------------------------------------------------
(* The index, over the nodes in the order they finished.  The one that is    *)
(* made for all splits leaves the cyclic nodes out.                          *)
NoMeet == [a |-> Nowhere, b |-> Nowhere, at |-> 0]
Seeking == meet.at # 0
Placing == walk.order[tree.at]
Successors == walk.succ[Placing]
ToPlace == step = "index" /\ tree.at \in DOMAIN walk.order

SkipCyclic ==
  /\ ToPlace /\ ~Seeking /\ split = Nowhere /\ Placing \in walk.cyclic
  /\ tree' = [tree EXCEPT !.at = @ + 1]
  /\ UNCHANGED <<flow, split, step, trail, walk, meet>>

FirstSuccessor ==
  /\ ToPlace /\ ~Seeking /\ ~(split = Nowhere /\ Placing \in walk.cyclic)
  /\ LET n == IF Successors = <<>> THEN Nowhere ELSE Head(Successors)
     IN meet' = [a |-> n, b |-> n, at |-> 2]
  /\ UNCHANGED <<flow, split, step, trail, walk, tree>>

(* commonAncestor: the deeper of the two goes up.                            *)
Deeper(a, b) == tree.depth[a] >= tree.depth[b]
Climb ==
  /\ ToPlace /\ Seeking /\ meet.a # meet.b
  /\ meet' = IF Deeper(meet.a, meet.b)
             THEN [a |-> tree.ipdom[meet.a], b |-> meet.b, at |-> meet.at]
             ELSE [a |-> meet.a, b |-> tree.ipdom[meet.b], at |-> meet.at]
  /\ UNCHANGED <<flow, split, step, trail, walk, tree>>

NextSuccessor ==
  /\ ToPlace /\ Seeking /\ meet.a = meet.b /\ meet.at \in DOMAIN Successors
  /\ meet' = [a |-> meet.a, b |-> Successors[meet.at], at |-> meet.at + 1]
  /\ UNCHANGED <<flow, split, step, trail, walk, tree>>

PlaceNode ==
  /\ ToPlace /\ Seeking /\ meet.a = meet.b /\ meet.at \notin DOMAIN Successors
  /\ tree' = [ipdom |-> [tree.ipdom EXCEPT ![Placing] = meet.a],
              depth |-> [tree.depth EXCEPT ![Placing] = tree.depth[meet.a] + 1],
              ends  |-> tree.ends \cup {n \in {Placing} : n \in flow.ends \/ ToSet(Successors) \cap tree.ends # {}},
              at    |-> tree.at + 1]
  /\ meet' = NoMeet
  /\ UNCHANGED <<flow, split, step, trail, walk>>

EndIndex ==
  /\ step = "index" /\ tree.at \notin DOMAIN walk.order
  /\ step' = "indexed"
  /\ UNCHANGED <<flow, split, trail, walk, tree, meet>>

-----------------------------------------------------------------------------
BareTree(g) ==
  [ipdom |-> [n \in DOMAIN g.out \cup {Nowhere} |-> Nowhere],
   depth |-> [n \in DOMAIN g.out \cup {Nowhere} |-> 0], ends |-> {}, at |-> 1]

IndexOf(g, n) ==
  /\ flow = g /\ split = n /\ step = "walk" /\ trail = <<>>
  /\ walk = [order |-> <<>>, cyclic |-> {}, succ |-> [m \in DOMAIN g.out |-> <<>>]]
  /\ tree = BareTree(g) /\ meet = NoMeet

(* FindJoin is asked for nodes with two forward flows or more.               *)
IndexInit ==
  \E f \in DOMAIN Flows : \E g \in Flows[f] :
    \E n \in {Nowhere} \cup {m \in DOMAIN g.out : Cardinality(Forwards(g, m)) > 1} : IndexOf(g, n)

IndexNext ==
  \/ WalkFrom \/ PassBack \/ CutFlow \/ TakeFlow \/ EnterNode \/ FinishNode \/ EndWalk
  \/ SkipCyclic \/ FirstSuccessor \/ Climb \/ NextSuccessor \/ PlaceNode \/ EndIndex

IndexSpec == IndexInit /\ [][IndexNext]_indexVars

-----------------------------------------------------------------------------
(* What the index promises.                                                  *)

Reaches(g, n) ==
  {x \in DOMAIN g.out :
     \A S \in SUBSET DOMAIN g.out :
       n \in S /\ (\A y \in S : ForwardTo(g, y) \subseteq S) => x \in S}

(* A node that forward flows lead from to a cycle no back edge breaks.       *)
Circles(g, n) == \E x \in Reaches(g, n) : \E y \in ForwardTo(g, x) : x \in Reaches(g, y)

(* The nodes that no path from n to a leaf avoids: what the flows from n     *)
(* meet before m holds no leaf, and they leave it to m only.                 *)
OnEveryPath(g, n) ==
  {m \in DOMAIN g.out \ {n} :
     \E S \in SUBSET {x \in DOMAIN g.out \ {m} : ForwardTo(g, x) # {}} :
       n \in S /\ \A x \in S : ForwardTo(g, x) \subseteq S \cup {m}}

(* The index holds every node a flow leaves; it leaves out the nodes that    *)
(* lead into a cycle and no other; the parent it gives any other node is the *)
(* nearest that all paths from it go through (Joins.Find), and it knows      *)
(* which of them reach an end event (ReachesEndEvent).  The search from one  *)
(* split finds the same join (FindJoin): "the nearest node every forward     *)
(* path from the split passes through", docs/lld/definition_service.md:2655. *)
JoinIsPostDominator ==
  step = "indexed" =>
    /\ Roots \subseteq ToSet(walk.order)
    /\ \A n \in ToSet(walk.order) :
         /\ split = Nowhere => (n \in walk.cyclic <=> Circles(flow, n))
         /\ ~Circles(flow, n) =>
              /\ OnEveryPath(flow, n) =
                   LET m == tree.ipdom[n] IN IF m = Nowhere THEN {} ELSE {m} \cup OnEveryPath(flow, m)
              /\ split = Nowhere => (n \in tree.ends <=> Reaches(flow, n) \cap flow.ends # {})
=============================================================================
