----------------------------- MODULE JoinProofs -----------------------------
(* What the index of the joins promises, for every flow graph (JoinIndex).   *)
(*                                                                           *)
(* The invariant has the walk and the tree apart.  A node finishes after     *)
(* the targets of its forward flows, except those that were cut, and the cut *)
(* ones mark all that leads to them as cyclic; so the nodes that are left    *)
(* come in an order where every successor is placed before.  For those the   *)
(* parent is right: the nodes on every path from a placed node are its       *)
(* ancestors, the deeper one further from the leaves, and of two nodes not   *)
(* yet equal the deeper is not an ancestor of the other, so that going up    *)
(* from it loses nothing the two share.                                      *)
EXTENDS JoinIndex, FiniteSetTheorems, SequenceTheorems, WellFoundedInduction, TLAPS

-----------------------------------------------------------------------------
(* Forward flows: where they lead, and which of the ways along them circle.  *)
LEMMA ForwardStaysIn ==
  ASSUME NEW g, IsFlow(g), NEW n \in DOMAIN g.out
  PROVE  /\ DOMAIN g.out[n] = 1..Len(g.out[n]) /\ Len(g.out[n]) \in Nat
         /\ \A k \in DOMAIN g.out[n] : g.out[n][k] \in DOMAIN g.out
         /\ Forwards(g, n) \subseteq DOMAIN g.out[n]
         /\ ForwardTo(g, n) \subseteq DOMAIN g.out
<1>1. g.out[n] \in Seq(DOMAIN g.out)
  BY DEF IsFlow
<1>2. PICK s \in Seq(DOMAIN g.out) : s = g.out[n]
  BY <1>1
<1>3. DOMAIN s = 1..Len(s) /\ Len(s) \in Nat /\ \A k \in DOMAIN s : s[k] \in DOMAIN g.out
  OBVIOUS
<1> QED
  BY <1>2, <1>3 DEF Forwards, ForwardTo

LEMMA ReachesItself ==
  ASSUME NEW g, NEW n \in DOMAIN g.out
  PROVE  n \in Reaches(g, n)
  BY DEF Reaches

LEMMA ReachesOn ==
  ASSUME NEW g, IsFlow(g), NEW n, NEW x \in Reaches(g, n), NEW y \in ForwardTo(g, x)
  PROVE  y \in Reaches(g, n)
<1>1. x \in DOMAIN g.out
  BY DEF Reaches
<1>2. y \in DOMAIN g.out
  BY <1>1, ForwardStaysIn
<1> SUFFICES ASSUME NEW S \in SUBSET DOMAIN g.out,
                    n \in S, \A z \in S : ForwardTo(g, z) \subseteq S
             PROVE  y \in S
  BY <1>2 DEF Reaches
<1>3. x \in S
  BY DEF Reaches
<1> QED
  BY <1>3

LEMMA ReachesLeast ==
  ASSUME NEW g, NEW n, NEW S \in SUBSET DOMAIN g.out,
         n \in S, \A z \in S : ForwardTo(g, z) \subseteq S
  PROVE  Reaches(g, n) \subseteq S
  BY DEF Reaches

LEMMA ReachesThrough ==
  ASSUME NEW g, IsFlow(g), NEW n, NEW x \in Reaches(g, n)
  PROVE  Reaches(g, x) \subseteq Reaches(g, n)
<1>1. Reaches(g, n) \in SUBSET DOMAIN g.out
  BY DEF Reaches
<1>2. \A z \in Reaches(g, n) : ForwardTo(g, z) \subseteq Reaches(g, n)
  BY ReachesOn
<1> QED
  BY <1>1, <1>2, ReachesLeast

LEMMA ReachesNext ==
  ASSUME NEW g, IsFlow(g), NEW n \in DOMAIN g.out
  PROVE  \A y \in ForwardTo(g, n) : y \in Reaches(g, n) /\ Reaches(g, y) \subseteq Reaches(g, n)
  BY ReachesItself, ReachesOn, ReachesThrough

LEMMA ReachesSplits ==
  ASSUME NEW g, IsFlow(g), NEW n \in DOMAIN g.out
  PROVE  \A x \in Reaches(g, n) : x = n \/ \E y \in ForwardTo(g, n) : x \in Reaches(g, y)
<1> DEFINE S == {n} \cup UNION {Reaches(g, y) : y \in ForwardTo(g, n)}
<1>1. S \in SUBSET DOMAIN g.out /\ n \in S
  BY DEF Reaches
<1>2. ASSUME NEW z \in S PROVE ForwardTo(g, z) \subseteq S
  <2>1. CASE z = n
    <3>1. \A y \in ForwardTo(g, n) : y \in Reaches(g, y)
      BY ForwardStaysIn, ReachesItself
    <3> QED
      BY <2>1, <3>1
  <2>2. CASE z # n
    <3>1. PICK y \in ForwardTo(g, n) : z \in Reaches(g, y)
      BY <2>2
    <3>2. ForwardTo(g, z) \subseteq Reaches(g, y)
      BY <3>1, ReachesOn
    <3> QED
      BY <3>2
  <2> QED
    BY <2>1, <2>2
<1> HIDE DEF S
<1>3. Reaches(g, n) \subseteq S
  BY <1>1, <1>2, ReachesLeast
<1> QED
  BY <1>3 DEF S

LEMMA CirclesBefore ==
  ASSUME NEW g, IsFlow(g), NEW n, NEW x \in Reaches(g, n), Circles(g, x)
  PROVE  Circles(g, n)
  BY ReachesThrough DEF Circles

LEMMA CirclesHere ==
  ASSUME NEW g, NEW x \in DOMAIN g.out, NEW y \in ForwardTo(g, x), x \in Reaches(g, y)
  PROVE  Circles(g, x)
  BY ReachesItself DEF Circles

(* What every path from a node goes through, by what those from the targets  *)
(* of its forward flows do.                                                  *)
Through(g, n) == IF n = Nowhere THEN {} ELSE {n} \cup OnEveryPath(g, n)

LEMMA LeafGoesNowhere ==
  ASSUME NEW g, NEW n, ForwardTo(g, n) = {}
  PROVE  OnEveryPath(g, n) = {}
  BY DEF OnEveryPath

LEMMA PathGoesOn ==
  ASSUME NEW g, IsFlow(g), NEW n \in DOMAIN g.out, NEW m \in OnEveryPath(g, n),
         NEW y \in ForwardTo(g, n)
  PROVE  m \in Through(g, y)
<1>1. y \in DOMAIN g.out /\ y # Nowhere
  BY ForwardStaysIn DEF IsFlow
<1>2. m \in DOMAIN g.out /\ m # n
  BY DEF OnEveryPath
<1>3. PICK S \in SUBSET {x \in DOMAIN g.out \ {m} : ForwardTo(g, x) # {}} :
        n \in S /\ \A x \in S : ForwardTo(g, x) \subseteq S \cup {m}
  BY DEF OnEveryPath
<1>4. y \in S \/ y = m
  BY <1>3
<1>5. CASE y \in S
  <2>1. m # y
    BY <1>5
  <2>2. m \in OnEveryPath(g, y)
    BY <1>2, <1>3, <1>5, <2>1 DEF OnEveryPath
  <2> QED
    BY <1>1, <2>2 DEF Through
<1> QED
  BY <1>1, <1>4, <1>5 DEF Through

LEMMA PathsMeet ==
  ASSUME NEW g, IsFlow(g), NEW n \in DOMAIN g.out, NEW m \in DOMAIN g.out \ {n},
         ForwardTo(g, n) # {}, \A y \in ForwardTo(g, n) : m \in Through(g, y)
  PROVE  m \in OnEveryPath(g, n)
<1> DEFINE Held == {x \in DOMAIN g.out \ {m} : ForwardTo(g, x) # {}}
           Leads(S) == \A x \in S : ForwardTo(g, x) \subseteq S \cup {m}
           Parts == {S \in SUBSET Held : Leads(S)}
           S0 == {n} \cup UNION Parts
<1>1. n \in Held /\ S0 \in SUBSET Held
  OBVIOUS
<1>2. ASSUME NEW y \in ForwardTo(g, n) PROVE y \in S0 \cup {m}
  <2>1. CASE y # m
    <3>1. m \in OnEveryPath(g, y)
      BY <2>1 DEF Through
    <3>2. PICK S \in SUBSET Held : y \in S /\ Leads(S)
      BY <3>1 DEF OnEveryPath
    <3> QED
      BY <3>2
  <2> QED
    BY <2>1
<1>3. Leads(S0)
  <2> SUFFICES ASSUME NEW x \in S0 PROVE ForwardTo(g, x) \subseteq S0 \cup {m}
    OBVIOUS
  <2>1. CASE x = n
    BY <1>2, <2>1
  <2>2. CASE x # n
    <3>1. PICK S \in Parts : x \in S
      BY <2>2
    <3>2. ForwardTo(g, x) \subseteq S \cup {m}
      BY <3>1
    <3> QED
      BY <3>1, <3>2
  <2> QED
    BY <2>1, <2>2
<1>4. n \in S0
  OBVIOUS
<1> HIDE DEF S0
<1> QED
  BY <1>1, <1>3, <1>4 DEF OnEveryPath

LEMMA PathsSplit ==
  ASSUME NEW g, IsFlow(g), NEW n \in DOMAIN g.out, NEW m \in DOMAIN g.out, m # n,
         ForwardTo(g, n) # {}
  PROVE  m \in OnEveryPath(g, n) <=> \A y \in ForwardTo(g, n) : m \in Through(g, y)
  BY PathGoesOn, PathsMeet

-----------------------------------------------------------------------------
(* The walk half way.                                                        *)
Frames(g) == [node : DOMAIN g.out, at : Nat \ {0}]
Walks(g) ==
  [order : Seq(DOMAIN g.out), cyclic : SUBSET DOMAIN g.out, succ : [DOMAIN g.out -> Seq(DOMAIN g.out)]]

Ahead(w, i) == {w.order[j] : j \in {k \in DOMAIN w.order : k < i}}
Entering(s, i) == {s[j].node : j \in {k \in DOMAIN s : k = i + 1}}
NodesOf(s) == {s[i].node : i \in DOMAIN s}

(* A node on the trail: its flows before the next one are taken or cut, and  *)
(* what was taken is finished or the node entered from here.                 *)
NodeWalked(g, w, f) ==
  /\ f.at =< Len(g.out[f.node]) + 1
  /\ ToSet(w.succ[f.node]) \subseteq ForwardTo(g, f.node)
  /\ \A k \in Forwards(g, f.node) :
       k < f.at => f.node \in w.cyclic \/ g.out[f.node][k] \in ToSet(w.succ[f.node])

FrameSound(g, w, s, i) ==
  /\ s[i].node \notin ToSet(w.order) /\ NodeWalked(g, w, s[i])
  /\ ToSet(w.succ[s[i].node]) \subseteq ToSet(w.order) \cup Entering(s, i)

TrailSound(g, w, s) ==
  /\ s \in Seq(Frames(g))
  /\ \A i, j \in DOMAIN s : s[i].node = s[j].node => i = j
  /\ \A i, j \in DOMAIN s : i =< j => s[j].node \in Reaches(g, s[i].node)
  /\ \A i \in DOMAIN s : FrameSound(g, w, s, i)

(* A finished node: what was taken finished before it; when it is not on a   *)
(* way to a cycle, that is all its forward flows, and they are not either.   *)
NodeFinished(g, w, i) ==
  LET n == w.order[i]
  IN /\ ToSet(w.succ[n]) \subseteq Ahead(w, i)
     /\ n \notin w.cyclic => ToSet(w.succ[n]) = ForwardTo(g, n) /\ ForwardTo(g, n) \cap w.cyclic = {}

WalkSound(g, w, s) ==
  /\ w \in Walks(g)
  /\ \A i, j \in DOMAIN w.order : w.order[i] = w.order[j] => i = j
  /\ \A i \in DOMAIN w.order : NodeFinished(g, w, i)
  /\ \A n \in w.cyclic : Circles(g, n)
  /\ \A n \in DOMAIN g.out : n \notin ToSet(w.order) \cup NodesOf(s) => w.succ[n] = <<>>

-----------------------------------------------------------------------------
(* The tree: the parent of a node is the first of those on every path, and   *)
(* so its ancestors are all of them, in the order of their depths.           *)
Places(g) == DOMAIN g.out \cup {Nowhere}
Trees(g) ==
  [ipdom : [Places(g) -> Places(g)], depth : [Places(g) -> Nat], ends : SUBSET DOMAIN g.out,
   at : Nat \ {0}]
Placed(w, t) == Ahead(w, t.at) \ w.cyclic

NodePlaced(g, w, t, n) ==
  /\ t.ipdom[n] \in Placed(w, t) \cup {Nowhere} /\ t.depth[n] # 0
  /\ OnEveryPath(g, n) = Through(g, t.ipdom[n])
  /\ \A a \in OnEveryPath(g, n) :
       a \in Placed(w, t) /\ t.depth[a] < t.depth[n] /\ Through(g, a) \subseteq Through(g, n)
  /\ n \in t.ends <=> Reaches(g, n) \cap g.ends # {}

TreeSound(g, w, t) ==
  /\ t \in Trees(g) /\ t.ends \subseteq Ahead(w, t.at)
  /\ t.ipdom[Nowhere] = Nowhere /\ t.depth[Nowhere] = 0
  /\ \A n \in Placed(w, t) : NodePlaced(g, w, t, n)

(* The two nodes whose ancestor is sought share what all successors read so  *)
(* far share.                                                                *)
Meets(g) == [a : Places(g), b : Places(g), at : Nat]
MeetSound(g, w, t, m) ==
  LET next == w.succ[w.order[t.at]]
  IN /\ m.a \in Placed(w, t) \cup {Nowhere} /\ m.b \in Placed(w, t) \cup {Nowhere}
     /\ next = <<>> => m.a = Nowhere /\ m.b = Nowhere
     /\ next # <<>> =>
          /\ m.at - 1 \in DOMAIN next
          /\ Through(g, m.a) \cap Through(g, m.b) =
               {x \in DOMAIN g.out : \A k \in DOMAIN next : k < m.at => x \in Through(g, next[k])}

IndexInv ==
  /\ IsFlow(flow) /\ split \in Places(flow) /\ step \in {"walk", "index", "indexed"}
  /\ WalkSound(flow, walk, trail) /\ TrailSound(flow, walk, trail)
  /\ TreeSound(flow, walk, tree) /\ meet \in Meets(flow)
  /\ step = "walk" => tree = BareTree(flow) /\ meet = NoMeet
  /\ step # "walk" => trail = <<>> /\ Roots \subseteq ToSet(walk.order)
  /\ meet.at # 0 =>
       ToPlace /\ meet.at > 1 /\ (Placing \notin walk.cyclic => MeetSound(flow, walk, tree, meet))
  /\ step = "indexed" => tree.at \notin DOMAIN walk.order

-----------------------------------------------------------------------------
(* The trail as a stack: its top, what is below it, and what becomes of it   *)
(* in a step.                                                                *)
LEMMA TopIsThere ==
  ASSUME NEW S, NEW s \in Seq(S), s # <<>>
  PROVE  /\ Len(s) \in Nat \ {0} /\ Len(s) \in DOMAIN s /\ DOMAIN s = 1..Len(s)
         /\ Last(s) = s[Len(s)] /\ Last(s) \in S
  BY EmptySeq DEF Last

LEMMA FrontIsRest ==
  ASSUME NEW S, NEW s \in Seq(S), s # <<>>
  PROVE  /\ Front(s) \in Seq(S) /\ Len(Front(s)) = Len(s) - 1
         /\ DOMAIN Front(s) = 1..(Len(s) - 1)
         /\ \A i \in 1..(Len(s) - 1) : Front(s)[i] = s[i]
<1>1. Len(s) \in Nat \ {0} /\ \A i \in 1..(Len(s) - 1) : s[i] \in S
  BY TopIsThere
<1>2. PICK t : t = Front(s)
  OBVIOUS
<1>3. t = SubSeq(s, 1, Len(s) - 1)
  BY <1>2 DEF Front
<1> DEFINE n == Len(s) - 1
<1>4. n \in Int /\ 1 \in Int /\ n \in Nat /\ \A i \in 1..n : s[i] \in S
  BY <1>1
<1> HIDE DEF n
<1>5. /\ SubSeq(s, 1, n) \in Seq(S)
      /\ Len(SubSeq(s, 1, n)) = IF 1 =< n THEN n - 1 + 1 ELSE 0
      /\ \A i \in 1..(n - 1 + 1) : SubSeq(s, 1, n)[i] = s[1 + i - 1]
  BY <1>4, SubSeqProperties
<1>6. n - 1 + 1 = n /\ (IF 1 =< n THEN n ELSE 0) = n
  BY <1>4
<1>7. \A i \in 1..n : 1 + i - 1 = i
  BY <1>4
<1>8. t \in Seq(S) /\ Len(t) = n
  BY <1>3, <1>5, <1>6, Zenon DEF n
<1>9. \A i \in 1..n : t[i] = s[i]
  BY <1>3, <1>5, <1>6, <1>7, Zenon DEF n
<1>10. DOMAIN t = 1..n
  BY <1>4, <1>8
<1> QED
  BY <1>2, <1>8, <1>9, <1>10 DEF n

LEMMA Pushed ==
  ASSUME NEW S, NEW s \in Seq(S), NEW f \in S
  PROVE  /\ Append(s, f) \in Seq(S) /\ Len(Append(s, f)) = Len(s) + 1
         /\ DOMAIN Append(s, f) = 1..(Len(s) + 1)
         /\ Append(s, f)[Len(s) + 1] = f
         /\ \A i \in 1..Len(s) : Append(s, f)[i] = s[i]
         /\ ToSet(Append(s, f)) = ToSet(s) \cup {f}
<1>1. /\ Append(s, f) \in Seq(S) /\ Len(Append(s, f)) = Len(s) + 1
      /\ Append(s, f)[Len(s) + 1] = f
      /\ \A i \in 1..Len(s) : Append(s, f)[i] = s[i]
  BY AppendProperties
<1>2. PICK n \in Nat : n = Len(s)
  OBVIOUS
<1>3. DOMAIN Append(s, f) = 1..(n + 1) /\ DOMAIN s = 1..n
  BY <1>1, <1>2
<1>4. ToSet(Append(s, f)) \subseteq ToSet(s) \cup {f}
  BY <1>1, <1>2, <1>3 DEF ToSet
<1>5. ToSet(s) \cup {f} \subseteq ToSet(Append(s, f))
  BY <1>1, <1>2, <1>3 DEF ToSet
<1> QED
  BY <1>1, <1>2, <1>3, <1>4, <1>5

(* The top frame one flow on: the nodes of the trail stay what they were.    *)
PastTop(s) == [s EXCEPT ![Len(s)] = [node |-> Last(s).node, at |-> Last(s).at + 1]]

LEMMA TopMovesOn ==
  ASSUME NEW g, NEW s \in Seq(Frames(g)), s # <<>>
  PROVE  /\ PastTop(s) \in Seq(Frames(g)) /\ Len(PastTop(s)) = Len(s)
         /\ DOMAIN PastTop(s) = DOMAIN s
         /\ \A i \in DOMAIN s : PastTop(s)[i].node = s[i].node
         /\ \A i \in DOMAIN s : i # Len(s) => PastTop(s)[i] = s[i]
         /\ PastTop(s)[Len(s)] = [node |-> Last(s).node, at |-> Last(s).at + 1]
         /\ NodesOf(PastTop(s)) = NodesOf(s)
         /\ \A i : Entering(PastTop(s), i) = Entering(s, i)
<1>1. /\ Len(s) \in Nat \ {0} /\ Len(s) \in DOMAIN s /\ DOMAIN s = 1..Len(s)
      /\ Last(s) = s[Len(s)] /\ Last(s) \in Frames(g)
  BY TopIsThere
<1>2. PICK f : f = [node |-> Last(s).node, at |-> Last(s).at + 1]
  OBVIOUS
<1>3. f \in Frames(g) /\ f.node = s[Len(s)].node
  BY <1>1, <1>2 DEF Frames
<1>4. PICK t : t = [s EXCEPT ![Len(s)] = f]
  OBVIOUS
<1>5. /\ t \in Seq(Frames(g)) /\ Len(t) = Len(s) /\ DOMAIN t = DOMAIN s /\ t[Len(s)] = f
      /\ \A i \in DOMAIN s : i # Len(s) => t[i] = s[i]
  BY <1>1, <1>3, <1>4, ExceptSeq
<1>6. \A i \in DOMAIN s : t[i].node = s[i].node
  BY <1>3, <1>5
<1>7. NodesOf(t) = NodesOf(s)
  BY <1>5, <1>6 DEF NodesOf
<1>8. \A i : Entering(t, i) = Entering(s, i)
  BY <1>5, <1>6 DEF Entering
<1>9. t = PastTop(s)
  BY <1>2, <1>4 DEF PastTop
<1> QED
  BY <1>2, <1>5, <1>6, <1>7, <1>8, <1>9

-----------------------------------------------------------------------------
(* The walk, a step at a time.                                               *)
LEMMA SetOfSeq ==
  ASSUME NEW S, NEW s \in Seq(S)
  PROVE  ToSet(s) \subseteq S /\ \A k \in DOMAIN s : s[k] \in ToSet(s)
  BY DEF ToSet

LEMMA FramesAreOfNodes ==
  ASSUME NEW g, NEW w, NEW s, TrailSound(g, w, s), NEW i \in DOMAIN s
  PROVE  s[i] \in Frames(g) /\ s[i].node \in DOMAIN g.out /\ s[i].at \in Nat \ {0}
<1>1. s \in Seq(Frames(g))
  BY DEF TrailSound
<1>2. s[i] \in Frames(g)
  BY <1>1
<1> QED
  BY <1>2 DEF Frames

LEMMA TopIsSound ==
  ASSUME NEW g, IsFlow(g), NEW w, NEW s, WalkSound(g, w, s), TrailSound(g, w, s), s # <<>>
  PROVE  /\ Last(s) = s[Len(s)] /\ Len(s) \in DOMAIN s /\ Last(s) \in Frames(g)
         /\ Last(s).node \in DOMAIN g.out /\ Last(s).node \notin ToSet(w.order)
         /\ FrameSound(g, w, s, Len(s))
<1>1. s \in Seq(Frames(g)) /\ \A i \in DOMAIN s : FrameSound(g, w, s, i)
  BY DEF TrailSound
<1>2. Last(s) = s[Len(s)] /\ Len(s) \in DOMAIN s
  BY <1>1, TopIsThere
<1>3. Last(s) \in Frames(g) /\ Last(s).node \in DOMAIN g.out
  BY <1>2, FramesAreOfNodes
<1>4. FrameSound(g, w, s, Len(s))
  BY <1>1, <1>2
<1> QED
  BY <1>2, <1>3, <1>4 DEF FrameSound

LEMMA OrderSame ==
  ASSUME NEW w, NEW v, v.order = w.order
  PROVE  \A i : Ahead(v, i) = Ahead(w, i)
  BY DEF Ahead

(* What a flow of the top node changes in the walk: the top may become       *)
(* cyclic, and a target be taken.                                            *)
TopOnly(g, w, v, n) ==
  /\ v \in Walks(g) /\ v.order = w.order
  /\ w.cyclic \subseteq v.cyclic /\ v.cyclic \subseteq w.cyclic \cup {n}
  /\ n \in v.cyclic => Circles(g, n)
  /\ \A x \in DOMAIN g.out \ {n} : v.succ[x] = w.succ[x]
  /\ ToSet(w.succ[n]) \subseteq ToSet(v.succ[n]) /\ ToSet(v.succ[n]) \subseteq ForwardTo(g, n)

LEMMA WalkKept ==
  ASSUME NEW g, IsFlow(g), NEW w, NEW s, WalkSound(g, w, s), TrailSound(g, w, s), s # <<>>,
         NEW v, TopOnly(g, w, v, Last(s).node),
         NEW t, NodesOf(s) \subseteq NodesOf(t)
  PROVE  WalkSound(g, v, t)
<1> DEFINE n == Last(s).node
<1>1. n \in DOMAIN g.out /\ n \notin ToSet(w.order) /\ n \in NodesOf(s)
  BY TopIsSound DEF NodesOf
<1>2. ASSUME NEW i \in DOMAIN v.order PROVE NodeFinished(g, v, i)
  <2>1. i \in DOMAIN w.order /\ NodeFinished(g, w, i) /\ v.order = w.order
    BY DEF TopOnly, WalkSound
  <2>2. w.order[i] \in DOMAIN g.out /\ w.order[i] \in ToSet(w.order)
    BY <2>1, SetOfSeq DEF WalkSound, Walks
  <2>3. w.order[i] # n
    BY <1>1, <2>2
  <2>4. v.succ[w.order[i]] = w.succ[w.order[i]]
    BY <2>2, <2>3 DEF TopOnly
  <2>5. Ahead(v, i) = Ahead(w, i) /\ Ahead(w, i) \subseteq ToSet(w.order)
    BY <2>1, OrderSame DEF Ahead, ToSet
  <2>6. v.cyclic \subseteq w.cyclic \cup {n} /\ w.cyclic \subseteq v.cyclic
    BY DEF TopOnly
  <2> HIDE DEF n
  <2> QED
    BY <1>1, <2>1, <2>3, <2>4, <2>5, <2>6 DEF NodeFinished
<1>3. \A x \in DOMAIN g.out : x \notin ToSet(v.order) \cup NodesOf(t) => v.succ[x] = <<>>
  BY <1>1 DEF WalkSound, TopOnly
<1>4. v \in Walks(g) /\ v.order = w.order /\ \A x \in v.cyclic : Circles(g, x)
  BY DEF WalkSound, TopOnly
<1> QED
  BY <1>2, <1>3, <1>4 DEF WalkSound

LEMMA FrameKept ==
  ASSUME NEW g, IsFlow(g), NEW w, NEW s, WalkSound(g, w, s), TrailSound(g, w, s), s # <<>>,
         NEW v, TopOnly(g, w, v, Last(s).node),
         NEW i \in DOMAIN s, i # Len(s), NEW t, t[i] = s[i],
         Entering(s, i) \subseteq Entering(t, i)
  PROVE  FrameSound(g, v, t, i)
<1>1. s[i].node # Last(s).node
  BY TopIsSound DEF TrailSound
<1>2. s[i].node \in DOMAIN g.out
  BY FramesAreOfNodes
<1>3. v.succ[s[i].node] = w.succ[s[i].node] /\ v.order = w.order /\ w.cyclic \subseteq v.cyclic
  BY <1>1, <1>2 DEF TopOnly
<1>4. FrameSound(g, w, s, i)
  BY DEF TrailSound
<1> QED
  BY <1>3, <1>4 DEF FrameSound, NodeWalked

LEMMA TopKept ==
  ASSUME NEW g, IsFlow(g), NEW w, NEW s, WalkSound(g, w, s), TrailSound(g, w, s), s # <<>>,
         NEW v, TopOnly(g, w, v, Last(s).node), Last(s).at \in DOMAIN g.out[Last(s).node],
         Last(s).at \in Forwards(g, Last(s).node) =>
           \/ Last(s).node \in v.cyclic
           \/ g.out[Last(s).node][Last(s).at] \in ToSet(v.succ[Last(s).node]),
         NEW t, t[Len(s)] = [node |-> Last(s).node, at |-> Last(s).at + 1],
         ToSet(v.succ[Last(s).node]) \subseteq ToSet(v.order) \cup Entering(t, Len(s))
  PROVE  FrameSound(g, v, t, Len(s))
<1>1. PICK n, a : n = Last(s).node /\ a = Last(s).at
  OBVIOUS
<1>2. n \in DOMAIN g.out /\ a \in Nat \ {0} /\ n \notin ToSet(w.order) /\ NodeWalked(g, w, Last(s))
  BY <1>1, TopIsSound DEF Frames, FrameSound
<1>3. a \in 1..Len(g.out[n]) /\ Len(g.out[n]) \in Nat /\ Forwards(g, n) \subseteq 1..Len(g.out[n])
  BY <1>1, <1>2, ForwardStaysIn
<1>4. a + 1 =< Len(g.out[n]) + 1 /\ \A k \in Forwards(g, n) : k < a + 1 => k < a \/ k = a
  BY <1>2, <1>3
<1>5. \A k \in Forwards(g, n) :
        k < a + 1 => n \in v.cyclic \/ g.out[n][k] \in ToSet(v.succ[n])
  BY <1>1, <1>2, <1>4 DEF NodeWalked, TopOnly
<1>6. NodeWalked(g, v, t[Len(s)])
  BY <1>1, <1>4, <1>5 DEF NodeWalked, TopOnly
<1> QED
  BY <1>1, <1>2, <1>6 DEF FrameSound, TopOnly

LEMMA FlowPassed ==
  ASSUME NEW g, IsFlow(g), NEW w, NEW s, WalkSound(g, w, s), TrailSound(g, w, s), s # <<>>,
         NEW v, TopOnly(g, w, v, Last(s).node), Last(s).at \in DOMAIN g.out[Last(s).node],
         Last(s).at \in Forwards(g, Last(s).node) =>
           \/ Last(s).node \in v.cyclic
           \/ g.out[Last(s).node][Last(s).at] \in ToSet(v.succ[Last(s).node]),
         ToSet(v.succ[Last(s).node]) \subseteq ToSet(w.order)
  PROVE  WalkSound(g, v, PastTop(s)) /\ TrailSound(g, v, PastTop(s))
<1>1. s \in Seq(Frames(g))
  BY DEF TrailSound
<1>2. PICK t : t = PastTop(s)
  OBVIOUS
<1>3. /\ t \in Seq(Frames(g)) /\ DOMAIN t = DOMAIN s
      /\ \A i \in DOMAIN s : t[i].node = s[i].node
      /\ \A i \in DOMAIN s : i # Len(s) => t[i] = s[i]
      /\ t[Len(s)] = [node |-> Last(s).node, at |-> Last(s).at + 1]
      /\ NodesOf(t) = NodesOf(s)
      /\ \A i : Entering(t, i) = Entering(s, i)
  BY <1>1, <1>2, TopMovesOn
<1>4. WalkSound(g, v, t)
  BY <1>3, WalkKept
<1>5. ToSet(v.succ[Last(s).node]) \subseteq ToSet(v.order) \cup Entering(t, Len(s))
  BY DEF TopOnly
<1>6. FrameSound(g, v, t, Len(s))
  BY <1>3, <1>5, TopKept
<1>7. \A i \in DOMAIN t : FrameSound(g, v, t, i)
  BY <1>3, <1>6, FrameKept
<1> QED
  BY <1>2, <1>3, <1>4, <1>7 DEF TrailSound

LEMMA NodeEntered ==
  ASSUME NEW g, IsFlow(g), NEW w, NEW s, WalkSound(g, w, s), TrailSound(g, w, s), s # <<>>,
         NEW v, TopOnly(g, w, v, Last(s).node), Last(s).at \in Forwards(g, Last(s).node),
         NEW n, n = g.out[Last(s).node][Last(s).at], n \notin NodesOf(s) \cup ToSet(w.order),
         ToSet(v.succ[Last(s).node]) = ToSet(w.succ[Last(s).node]) \cup {n}
  PROVE  /\ WalkSound(g, v, Append(PastTop(s), Entered(n)))
         /\ TrailSound(g, v, Append(PastTop(s), Entered(n)))
<1>1. s \in Seq(Frames(g)) /\ Len(s) \in DOMAIN s /\ Last(s).node = s[Len(s)].node
      /\ Last(s).node \in DOMAIN g.out /\ FrameSound(g, w, s, Len(s))
  BY TopIsSound DEF TrailSound
<1>2. n \in DOMAIN g.out /\ n \in ForwardTo(g, Last(s).node)
      /\ Last(s).at \in DOMAIN g.out[Last(s).node]
  BY <1>1, ForwardStaysIn DEF ForwardTo
<1>3. PICK r, t, l : r = PastTop(s) /\ t = Append(r, Entered(n)) /\ l = Len(s)
  OBVIOUS
<1>4. /\ r \in Seq(Frames(g)) /\ DOMAIN r = DOMAIN s /\ Len(r) = l
      /\ \A i \in DOMAIN s : r[i].node = s[i].node
      /\ \A i \in DOMAIN s : i # l => r[i] = s[i]
      /\ r[l] = [node |-> Last(s).node, at |-> Last(s).at + 1]
  BY <1>1, <1>3, TopMovesOn
<1>5. Entered(n) \in Frames(g)
  BY <1>2 DEF Entered, Frames
<1>6. /\ t \in Seq(Frames(g)) /\ DOMAIN t = 1..(l + 1) /\ t[l + 1] = Entered(n)
      /\ \A i \in 1..l : t[i] = r[i]
  BY <1>3, <1>4, <1>5, Pushed
<1>7. l \in Nat \ {0} /\ DOMAIN s = 1..l
  BY <1>1, <1>3
<1>8. \A i \in DOMAIN s : i \in DOMAIN t /\ t[i].node = s[i].node
  BY <1>4, <1>6, <1>7
<1>9. t[l + 1].node = n /\ l + 1 \in DOMAIN t /\ \A i \in DOMAIN t : i \in DOMAIN s \/ i = l + 1
  BY <1>6, <1>7 DEF Entered
<1>10. NodesOf(s) \subseteq NodesOf(t) /\ n \in NodesOf(t)
  BY <1>8, <1>9 DEF NodesOf
<1>11. \A i \in DOMAIN s : Entering(s, i) \subseteq Entering(t, i)
  BY <1>8 DEF Entering
<1>12. n \in Entering(t, l)
  BY <1>9 DEF Entering
<1>13. WalkSound(g, v, t)
  BY <1>10, WalkKept
<1>14. \A i \in DOMAIN s : i # l => FrameSound(g, v, t, i)
  BY <1>3, <1>4, <1>6, <1>7, <1>11, FrameKept
<1>15. ToSet(v.succ[Last(s).node]) \subseteq ToSet(v.order) \cup Entering(t, l)
  BY <1>1, <1>3, <1>11, <1>12 DEF FrameSound, TopOnly
<1>16. t[l] = [node |-> Last(s).node, at |-> Last(s).at + 1]
  BY <1>4, <1>6, <1>7
<1>17. FrameSound(g, v, t, l)
  BY <1>2, <1>3, <1>15, <1>16, TopKept
<1>18. FrameSound(g, v, t, l + 1)
  <2>1. w.succ[n] = <<>> /\ n # Last(s).node
    BY <1>1, <1>2 DEF WalkSound, NodesOf
  <2>2. v.succ[n] = <<>> /\ v.order = w.order
    BY <1>2, <2>1 DEF TopOnly
  <2>3. ToSet(v.succ[n]) = {}
    BY <2>2 DEF ToSet
  <2>4. t[l + 1].at = 1
    BY <1>6 DEF Entered
  <2>5. \A k \in Forwards(g, n) : ~(k < 1)
    BY <1>2, ForwardStaysIn
  <2>6. 1 =< Len(g.out[n]) + 1
    BY <1>2, ForwardStaysIn
  <2> QED
    BY <1>9, <2>2, <2>3, <2>4, <2>5, <2>6 DEF FrameSound, NodeWalked
<1>19. \A i \in DOMAIN t : FrameSound(g, v, t, i)
  BY <1>9, <1>14, <1>17, <1>18
<1>20. \A i, j \in DOMAIN t : t[i].node = t[j].node => i = j
  <2>1. \A i \in DOMAIN s : s[i].node # n
    BY DEF NodesOf
  <2> QED
    BY <1>8, <1>9, <2>1 DEF TrailSound
<1>21. \A i, j \in DOMAIN t : i =< j => t[j].node \in Reaches(g, t[i].node)
  <2>1. \A i \in DOMAIN s : n \in Reaches(g, s[i].node)
    <3> SUFFICES ASSUME NEW i \in DOMAIN s PROVE n \in Reaches(g, s[i].node)
      OBVIOUS
    <3>1. i =< l
      BY <1>7
    <3>2. Last(s).node \in Reaches(g, s[i].node)
      BY <1>1, <1>3, <3>1 DEF TrailSound
    <3> QED
      BY <1>2, <3>2, ReachesOn
  <2>2. n \in Reaches(g, n)
    BY <1>2, ReachesItself
  <2>3. \A j \in DOMAIN s : ~(l + 1 =< j)
    BY <1>7
  <2> QED
    BY <1>8, <1>9, <2>1, <2>2, <2>3 DEF TrailSound
<1>22. TrailSound(g, v, t)
  BY <1>6, <1>19, <1>20, <1>21 DEF TrailSound
<1> QED
  BY <1>3, <1>13, <1>22

LEMMA NodeDone ==
  ASSUME NEW g, IsFlow(g), NEW w, NEW s, WalkSound(g, w, s), TrailSound(g, w, s), s # <<>>,
         Last(s).at \notin DOMAIN g.out[Last(s).node],
         NEW v \in Walks(g), v.order = Append(w.order, Last(s).node), v.succ = w.succ,
         v.cyclic = w.cyclic \cup
                      {n \in {Last(s).node} : ToSet(w.succ[n]) \cap w.cyclic # {}}
  PROVE  WalkSound(g, v, Front(s)) /\ TrailSound(g, v, Front(s))
<1>1. s \in Seq(Frames(g)) /\ w.order \in Seq(DOMAIN g.out)
  BY DEF TrailSound, WalkSound, Walks
<1>2. PICK n, l, m, t : n = Last(s).node /\ l = Len(s) /\ m = Len(w.order) /\ t = Front(s)
  OBVIOUS
<1>3. /\ l \in Nat \ {0} /\ DOMAIN s = 1..l /\ l \in DOMAIN s
      /\ n \in DOMAIN g.out /\ n \notin ToSet(w.order) /\ s[l].node = n /\ Last(s) = s[l]
      /\ s[l].at \in Nat \ {0} /\ FrameSound(g, w, s, l)
  BY <1>1, <1>2, TopIsSound, TopIsThere, FramesAreOfNodes
<1>4. /\ t \in Seq(Frames(g)) /\ DOMAIN t = 1..(l - 1)
      /\ \A i \in 1..(l - 1) : t[i] = s[i]
  BY <1>1, <1>2, FrontIsRest
<1>5. m \in Nat /\ DOMAIN w.order = 1..m /\ DOMAIN v.order = 1..(m + 1)
      /\ v.order[m + 1] = n /\ \A i \in 1..m : v.order[i] = w.order[i]
      /\ ToSet(v.order) = ToSet(w.order) \cup {n}
  BY <1>1, <1>2, <1>3, Pushed
<1>6. \A i \in DOMAIN t : i \in DOMAIN s /\ i # l /\ t[i] = s[i]
  BY <1>3, <1>4
<1>7. \A i \in DOMAIN s : i = l \/ i \in DOMAIN t
  BY <1>3, <1>4
<1>8. \A i \in DOMAIN s : Entering(s, i) \subseteq Entering(t, i) \cup {n}
  BY <1>3, <1>6, <1>7 DEF Entering
<1>9. Entering(s, l) = {}
  BY <1>3 DEF Entering
<1>10. ToSet(w.succ[n]) \subseteq ToSet(w.order)
  BY <1>3, <1>9 DEF FrameSound
<1>11. \A i \in DOMAIN v.order : i \in DOMAIN w.order \/ i = m + 1
  BY <1>5
<1>12. \A i \in DOMAIN w.order : i \in DOMAIN v.order /\ v.order[i] = w.order[i]
                                 /\ Ahead(v, i) = Ahead(w, i)
  <2>1. ASSUME NEW i \in DOMAIN w.order PROVE Ahead(v, i) \subseteq Ahead(w, i)
    BY <1>5, <2>1 DEF Ahead
  <2>2. ASSUME NEW i \in DOMAIN w.order PROVE Ahead(w, i) \subseteq Ahead(v, i)
    BY <1>5, <2>2 DEF Ahead
  <2> QED
    BY <1>5, <2>1, <2>2
<1>13. Ahead(v, m + 1) = ToSet(w.order)
  <2>1. Ahead(v, m + 1) \subseteq ToSet(w.order)
    BY <1>5 DEF Ahead, ToSet
  <2>2. ToSet(w.order) \subseteq Ahead(v, m + 1)
    BY <1>5 DEF Ahead, ToSet
  <2> QED
    BY <2>1, <2>2
<1>14. w.cyclic \subseteq v.cyclic /\ v.cyclic \subseteq w.cyclic \cup {n}
       /\ (ToSet(w.succ[n]) \cap w.cyclic # {} => n \in v.cyclic)
       /\ (n \in v.cyclic => n \in w.cyclic \/ ToSet(w.succ[n]) \cap w.cyclic # {})
  BY <1>2
<1>15. \A i, j \in DOMAIN v.order : v.order[i] = v.order[j] => i = j
  <2>1. \A i \in DOMAIN w.order : w.order[i] # n
    BY <1>3 DEF ToSet
  <2> QED
    BY <1>5, <1>11, <1>12, <2>1 DEF WalkSound
<1>16. \A i \in DOMAIN v.order : NodeFinished(g, v, i)
  <2>1. ASSUME NEW i \in DOMAIN w.order PROVE NodeFinished(g, v, i)
    <3>1. NodeFinished(g, w, i) /\ Ahead(w, i) \subseteq ToSet(w.order)
      BY DEF WalkSound, Ahead, ToSet
    <3>2. v.order[i] = w.order[i] /\ Ahead(v, i) = Ahead(w, i)
      BY <1>12
    <3> QED
      BY <1>3, <1>14, <3>1, <3>2 DEF NodeFinished
  <2>2. NodeFinished(g, v, m + 1)
    <3>1. ToSet(v.succ[n]) \subseteq Ahead(v, m + 1)
      BY <1>10, <1>13
    <3>2. ASSUME n \notin v.cyclic
          PROVE  ToSet(v.succ[n]) = ForwardTo(g, n) /\ ForwardTo(g, n) \cap v.cyclic = {}
      <4>1. NodeWalked(g, w, s[l])
        BY <1>3 DEF FrameSound
      <4>2. /\ s[l].at \notin 1..Len(g.out[n]) /\ Len(g.out[n]) \in Nat
            /\ Forwards(g, n) \subseteq 1..Len(g.out[n])
        BY <1>2, <1>3, ForwardStaysIn
      <4>3. \A k \in Forwards(g, n) : k < s[l].at
        BY <1>3, <4>2
      <4>4. \A k \in Forwards(g, n) : g.out[n][k] \in ToSet(w.succ[n])
        BY <1>3, <1>14, <3>2, <4>1, <4>3 DEF NodeWalked
      <4>5. ToSet(w.succ[n]) = ForwardTo(g, n)
        BY <1>3, <4>1, <4>4 DEF NodeWalked, ForwardTo
      <4> QED
        BY <1>3, <1>10, <1>14, <3>2, <4>5
    <3> QED
      BY <1>5, <3>1, <3>2 DEF NodeFinished
  <2> QED
    BY <1>11, <2>1, <2>2
<1>17. ASSUME NEW x \in v.cyclic PROVE Circles(g, x)
  <2>1. CASE x \in w.cyclic
    BY <2>1 DEF WalkSound
  <2>2. CASE x \notin w.cyclic
    <3>1. x = n /\ ToSet(w.succ[n]) \cap w.cyclic # {}
      BY <1>14, <1>17, <2>2
    <3>2. PICK y \in ToSet(w.succ[n]) : y \in w.cyclic
      BY <3>1
    <3>3. y \in ForwardTo(g, n)
      BY <1>3, <3>2 DEF FrameSound, NodeWalked
    <3>4. y \in Reaches(g, n)
      BY <1>3, <3>3, ReachesNext
    <3>5. Circles(g, y)
      BY <3>2 DEF WalkSound
    <3> QED
      BY <3>1, <3>4, <3>5, CirclesBefore
  <2> QED
    BY <2>1, <2>2
<1>18. ToSet(Append(w.order, n)) = ToSet(w.order) \cup {n}
  BY <1>1, <1>3, Pushed
<1>19. \A x : x \in ToSet(v.order) <=> x \in ToSet(w.order) \/ x = n
  BY <1>2, <1>18, Zenon
<1>20. \A x \in DOMAIN g.out : x \notin ToSet(v.order) \cup NodesOf(t) => v.succ[x] = <<>>
  <2>1. NodesOf(s) \subseteq NodesOf(t) \cup {n}
    BY <1>3, <1>6, <1>7 DEF NodesOf
  <2>2. \A x \in DOMAIN g.out : x \notin ToSet(w.order) \cup NodesOf(s) => w.succ[x] = <<>>
    BY DEF WalkSound
  <2>3. \A x : x \in NodesOf(s) => x \in NodesOf(t) \/ x = n
    BY <2>1
  <2> QED
    BY <1>19, <2>2, <2>3, Zenon
<1>21. WalkSound(g, v, t)
  BY <1>15, <1>16, <1>17, <1>20 DEF WalkSound
<1>22. ASSUME NEW i \in DOMAIN t PROVE FrameSound(g, v, t, i)
  <2>1. FrameSound(g, w, s, i) /\ s[i].node # n /\ t[i] = s[i] /\ i \in DOMAIN s
    BY <1>3, <1>6 DEF TrailSound
  <2>2. NodeWalked(g, v, t[i])
    BY <1>14, <2>1 DEF FrameSound, NodeWalked
  <2>3. ToSet(w.succ[s[i].node]) \subseteq ToSet(w.order) \cup Entering(s, i)
    BY <2>1 DEF FrameSound
  <2>4. ToSet(v.succ[t[i].node]) \subseteq ToSet(v.order) \cup Entering(t, i)
    BY <1>8, <1>19, <2>1, <2>3
  <2>5. t[i].node \notin ToSet(v.order)
    BY <1>19, <2>1 DEF FrameSound
  <2> QED
    BY <2>2, <2>4, <2>5 DEF FrameSound
<1>23. /\ \A i, j \in DOMAIN t : t[i].node = t[j].node => i = j
       /\ \A i, j \in DOMAIN t : i =< j => t[j].node \in Reaches(g, t[i].node)
  BY <1>6 DEF TrailSound
<1>24. TrailSound(g, v, t)
  BY <1>4, <1>22, <1>23 DEF TrailSound
<1> QED
  BY <1>2, <1>21, <1>24

LEMMA RootEntered ==
  ASSUME NEW g, IsFlow(g), NEW w, WalkSound(g, w, <<>>), NEW n \in DOMAIN g.out \ ToSet(w.order)
  PROVE  WalkSound(g, w, <<Entered(n)>>) /\ TrailSound(g, w, <<Entered(n)>>)
<1>1. PICK t : t = <<Entered(n)>>
  OBVIOUS
<1>2. /\ Entered(n) \in Frames(g) /\ Entered(n).node = n /\ Entered(n).at = 1
  BY DEF Entered, Frames
<1>3. /\ t \in Seq(Frames(g)) /\ DOMAIN t = {1} /\ t[1] = Entered(n)
  BY <1>1, <1>2
<1>4. NodesOf(<<>>) = {}
  BY DEF NodesOf
<1>5. w.succ[n] = <<>>
  BY <1>4 DEF WalkSound
<1>6. ToSet(w.succ[n]) = {}
  BY <1>5 DEF ToSet
<1>7. (\A k \in Forwards(g, n) : ~(k < 1)) /\ 1 =< Len(g.out[n]) + 1
  BY ForwardStaysIn
<1>8. FrameSound(g, w, t, 1)
  BY <1>2, <1>3, <1>6, <1>7 DEF FrameSound, NodeWalked
<1>9. n \in Reaches(g, n)
  BY ReachesItself
<1>10. TrailSound(g, w, t)
  BY <1>2, <1>3, <1>8, <1>9 DEF TrailSound
<1>11. WalkSound(g, w, t)
  BY <1>4 DEF WalkSound
<1> QED
  BY <1>1, <1>10, <1>11

-----------------------------------------------------------------------------
(* The tree, a node at a time.  The one to place is not placed, and nothing  *)
(* that leads out of it leads back.                                          *)
LEMMA NextIsNew ==
  ASSUME NEW g, NEW w, WalkSound(g, w, <<>>), NEW t, t.at \in DOMAIN w.order
  PROVE  /\ t.at \in Nat \ {0} /\ w.order[t.at] \in DOMAIN g.out
         /\ w.order[t.at] \notin Ahead(w, t.at)
         /\ Ahead(w, t.at + 1) = Ahead(w, t.at) \cup {w.order[t.at]}
         /\ ToSet(w.succ[w.order[t.at]]) \subseteq Ahead(w, t.at)
         /\ w.succ[w.order[t.at]] \in Seq(DOMAIN g.out)
<1>1. w.order \in Seq(DOMAIN g.out) /\ w.succ \in [DOMAIN g.out -> Seq(DOMAIN g.out)]
  BY DEF WalkSound, Walks
<1>2. PICK m \in Nat : m = Len(w.order) /\ DOMAIN w.order = 1..m
  BY <1>1
<1>3. PICK a : a = t.at
  OBVIOUS
<1>4. a \in 1..m /\ w.order[a] \in DOMAIN g.out
  BY <1>1, <1>2, <1>3
<1>5. w.order[a] \notin Ahead(w, a)
  BY <1>2, <1>4 DEF Ahead, WalkSound
<1>6. Ahead(w, a + 1) \subseteq Ahead(w, a) \cup {w.order[a]}
  BY <1>2, <1>4 DEF Ahead
<1>7. Ahead(w, a) \cup {w.order[a]} \subseteq Ahead(w, a + 1)
  BY <1>2, <1>4 DEF Ahead
<1>8. NodeFinished(g, w, a)
  BY <1>2, <1>4 DEF WalkSound
<1>9. ToSet(w.succ[w.order[a]]) \subseteq Ahead(w, a)
  BY <1>8 DEF NodeFinished
<1> QED
  BY <1>1, <1>2, <1>3, <1>4, <1>5, <1>6, <1>7, <1>9

LEMMA SuccessorsArePlaced ==
  ASSUME NEW g, NEW w, WalkSound(g, w, <<>>), NEW t, t.at \in DOMAIN w.order,
         w.order[t.at] \notin w.cyclic
  PROVE  /\ ToSet(w.succ[w.order[t.at]]) = ForwardTo(g, w.order[t.at])
         /\ ForwardTo(g, w.order[t.at]) \subseteq Placed(w, t)
<1>1. NodeFinished(g, w, t.at)
  BY DEF WalkSound
<1> QED
  BY <1>1, NextIsNew DEF NodeFinished, Placed

LEMMA PlacedAreNodes ==
  ASSUME NEW g, NEW w, WalkSound(g, w, <<>>), NEW t
  PROVE  Placed(w, t) \subseteq DOMAIN g.out
<1>1. w.order \in Seq(DOMAIN g.out)
  BY DEF WalkSound, Walks
<1>2. \A j \in DOMAIN w.order : w.order[j] \in DOMAIN g.out
  BY <1>1
<1> QED
  BY <1>2 DEF Placed, Ahead

LEMMA ThroughIsOfNodes ==
  ASSUME NEW g, NEW n \in Places(g)
  PROVE  Through(g, n) \subseteq DOMAIN g.out
  BY DEF Through, Places, OnEveryPath

(* A turn of the loop that leaves a cyclic node out.                         *)
LEMMA TreeSkips ==
  ASSUME NEW g, IsFlow(g), NEW w, WalkSound(g, w, <<>>), NEW t, TreeSound(g, w, t),
         t.at \in DOMAIN w.order, w.order[t.at] \in w.cyclic,
         NEW u, u = [t EXCEPT !.at = @ + 1]
  PROVE  TreeSound(g, w, u)
<1>1. /\ u.at = t.at + 1 /\ u.ipdom = t.ipdom /\ u.depth = t.depth /\ u.ends = t.ends
      /\ u \in Trees(g)
  <2>1. t \in Trees(g) /\ t.at \in Nat \ {0}
    BY NextIsNew DEF TreeSound
  <2>2. t.at + 1 \in Nat \ {0}
    BY <2>1
  <2> QED
    BY <2>1, <2>2 DEF Trees
<1>2. Ahead(w, u.at) = Ahead(w, t.at) \cup {w.order[t.at]}
  BY <1>1, NextIsNew
<1>3. Placed(w, u) = Placed(w, t)
  BY <1>2 DEF Placed
<1>4. \A n \in Placed(w, u) : NodePlaced(g, w, u, n)
  <2> SUFFICES ASSUME NEW n \in Placed(w, u) PROVE NodePlaced(g, w, u, n)
    OBVIOUS
  <2>1. NodePlaced(g, w, t, n)
    BY <1>3 DEF TreeSound
  <2> QED
    BY <1>1, <1>3, <2>1 DEF NodePlaced
<1> QED
  BY <1>1, <1>2, <1>4 DEF TreeSound

(* commonAncestor: the first two to meet, a turn of its loop, and the next   *)
(* successor.                                                                *)
LEMMA FirstMeets ==
  ASSUME NEW g, IsFlow(g), NEW w, WalkSound(g, w, <<>>), NEW t, TreeSound(g, w, t),
         t.at \in DOMAIN w.order, NEW next, next = w.succ[w.order[t.at]],
         NEW n, n = IF next = <<>> THEN Nowhere ELSE Head(next),
         NEW m, m = [a |-> n, b |-> n, at |-> 2]
  PROVE  m \in Meets(g) /\ (w.order[t.at] \notin w.cyclic => MeetSound(g, w, t, m))
<1>1. next \in Seq(DOMAIN g.out)
  BY NextIsNew
<1>2. m.a = n /\ m.b = n /\ m.at = 2
  OBVIOUS
<1>3. CASE next = <<>>
  <2>1. n = Nowhere
    BY <1>3
  <2>2. MeetSound(g, w, t, m)
    BY <1>2, <1>3, <2>1 DEF MeetSound
  <2> QED
    BY <2>1, <2>2 DEF Meets, Places
<1>4. CASE next # <<>>
  <2>1. n = next[1] /\ 1 \in DOMAIN next /\ n \in ToSet(next) /\ n \in DOMAIN g.out
    BY <1>1, <1>4, EmptySeq, HeadTailProperties DEF ToSet
  <2>2. m \in Meets(g)
    BY <2>1 DEF Meets, Places
  <2>3. ASSUME w.order[t.at] \notin w.cyclic PROVE MeetSound(g, w, t, m)
    <3>1. n \in Placed(w, t)
      BY <2>1, <2>3, SuccessorsArePlaced
    <3>2. DOMAIN next = 1..Len(next) /\ Len(next) \in Nat
      BY <1>1
    <3>3. \A k \in DOMAIN next : k < 2 => k = 1
      BY <3>2
    <3>4. Through(g, n) \subseteq DOMAIN g.out
      BY <2>1, ThroughIsOfNodes DEF Places
    <3>5. \A x : (\A k \in DOMAIN next : k < 2 => x \in Through(g, next[k])) <=> x \in Through(g, n)
      BY <2>1, <3>3
    <3>6. Through(g, n) =
            {x \in DOMAIN g.out : \A k \in DOMAIN next : k < 2 => x \in Through(g, next[k])}
      BY <3>4, <3>5
    <3>7. Through(g, m.a) \cap Through(g, m.b) = Through(g, n)
      BY <1>2
    <3>8. m.at - 1 \in DOMAIN next
      BY <1>2, <2>1
    <3> QED
      BY <1>2, <1>4, <3>1, <3>6, <3>7, <3>8 DEF MeetSound
  <2> QED
    BY <2>2, <2>3
<1> QED
  BY <1>3, <1>4

(* The deeper of two placed nodes is no ancestor of the other, so all that   *)
(* they share is beyond it.                                                  *)
LEMMA DeeperGoesUp ==
  ASSUME NEW g, NEW w, WalkSound(g, w, <<>>), NEW t, TreeSound(g, w, t),
         NEW a \in Placed(w, t) \cup {Nowhere}, NEW b \in Placed(w, t) \cup {Nowhere}, a # b,
         ~(t.depth[a] < t.depth[b])
  PROVE  /\ t.ipdom[a] \in Placed(w, t) \cup {Nowhere}
         /\ Through(g, t.ipdom[a]) \cap Through(g, b) = Through(g, a) \cap Through(g, b)
<1>1. \A n \in Placed(w, t) : NodePlaced(g, w, t, n)
  BY DEF TreeSound
<1>2. t.depth[Nowhere] = 0 /\ \A n \in Places(g) : t.depth[n] \in Nat
  BY DEF TreeSound, Trees, Places
<1>3. a \in Places(g) /\ b \in Places(g)
  BY PlacedAreNodes DEF Places
<1>4. a \in Placed(w, t)
  <2> SUFFICES ASSUME a = Nowhere PROVE FALSE
    OBVIOUS
  <2>1. t.depth[b] # 0
    BY <1>1 DEF NodePlaced
  <2> QED
    BY <1>2, <1>3, <2>1
<1>5. a \notin Through(g, b)
  <2> SUFFICES ASSUME a \in Through(g, b) PROVE FALSE
    OBVIOUS
  <2>1. b # Nowhere /\ a \in OnEveryPath(g, b)
    BY DEF Through
  <2>2. NodePlaced(g, w, t, b)
    BY <1>1, <2>1
  <2> QED
    BY <2>1, <2>2 DEF NodePlaced
<1>6. a # Nowhere
  BY <1>3, <1>4, PlacedAreNodes, <1>1, <1>2 DEF NodePlaced
<1>7. Through(g, a) = {a} \cup Through(g, t.ipdom[a]) /\ t.ipdom[a] \in Placed(w, t) \cup {Nowhere}
  BY <1>1, <1>4, <1>6 DEF NodePlaced, Through
<1> QED
  BY <1>5, <1>7

LEMMA MeetClimbs ==
  ASSUME NEW g, IsFlow(g), NEW w, WalkSound(g, w, <<>>), NEW t, TreeSound(g, w, t),
         t.at \in DOMAIN w.order, NEW m \in Meets(g), m.a # m.b,
         w.order[t.at] \notin w.cyclic => MeetSound(g, w, t, m),
         NEW v, v = IF t.depth[m.a] >= t.depth[m.b]
                    THEN [a |-> t.ipdom[m.a], b |-> m.b, at |-> m.at]
                    ELSE [a |-> m.a, b |-> t.ipdom[m.b], at |-> m.at]
  PROVE  /\ v \in Meets(g) /\ v.at = m.at
         /\ w.order[t.at] \notin w.cyclic => MeetSound(g, w, t, v)
<1>1. \A n \in Places(g) : t.depth[n] \in Nat /\ t.ipdom[n] \in Places(g)
  BY DEF TreeSound, Trees
<1>2. m.a \in Places(g) /\ m.b \in Places(g) /\ m.at \in Nat
  BY DEF Meets
<1>3. v \in Meets(g) /\ v.at = m.at
  BY <1>1, <1>2 DEF Meets
<1>4. ASSUME w.order[t.at] \notin w.cyclic PROVE MeetSound(g, w, t, v)
  <2>1. PICK next : next = w.succ[w.order[t.at]]
    OBVIOUS
  <2>2. /\ m.a \in Placed(w, t) \cup {Nowhere} /\ m.b \in Placed(w, t) \cup {Nowhere}
        /\ next = <<>> => m.a = Nowhere /\ m.b = Nowhere
        /\ next # <<>> => m.at - 1 \in DOMAIN next
    BY <1>4, <2>1 DEF MeetSound
  <2>3. next # <<>>
    BY <2>2
  <2>4. CASE t.depth[m.a] >= t.depth[m.b]
    <3>1. ~(t.depth[m.a] < t.depth[m.b])
      BY <1>1, <1>2, <2>4
    <3>2. /\ t.ipdom[m.a] \in Placed(w, t) \cup {Nowhere}
          /\ Through(g, t.ipdom[m.a]) \cap Through(g, m.b) = Through(g, m.a) \cap Through(g, m.b)
      BY <2>2, <3>1, DeeperGoesUp
    <3>3. v.a = t.ipdom[m.a] /\ v.b = m.b
      BY <2>4
    <3> QED
      BY <1>3, <1>4, <2>1, <2>2, <2>3, <3>2, <3>3 DEF MeetSound
  <2>5. CASE ~(t.depth[m.a] >= t.depth[m.b])
    <3>1. ~(t.depth[m.b] < t.depth[m.a])
      BY <1>1, <1>2, <2>5
    <3>2. /\ t.ipdom[m.b] \in Placed(w, t) \cup {Nowhere}
          /\ Through(g, t.ipdom[m.b]) \cap Through(g, m.a) = Through(g, m.b) \cap Through(g, m.a)
      BY <2>2, <3>1, DeeperGoesUp
    <3>3. v.a = m.a /\ v.b = t.ipdom[m.b]
      BY <2>5
    <3>4. Through(g, v.a) \cap Through(g, v.b) = Through(g, m.a) \cap Through(g, m.b)
      BY <3>2, <3>3
    <3> QED
      BY <1>3, <1>4, <2>1, <2>2, <2>3, <3>2, <3>3, <3>4 DEF MeetSound
  <2> QED
    BY <2>4, <2>5
<1> QED
  BY <1>3, <1>4

LEMMA NextMeets ==
  ASSUME NEW g, IsFlow(g), NEW w, WalkSound(g, w, <<>>), NEW t, TreeSound(g, w, t),
         t.at \in DOMAIN w.order, NEW next, next = w.succ[w.order[t.at]],
         NEW m \in Meets(g), m.a = m.b, m.at \in DOMAIN next,
         w.order[t.at] \notin w.cyclic => MeetSound(g, w, t, m),
         NEW v, v = [a |-> m.a, b |-> next[m.at], at |-> m.at + 1]
  PROVE  v \in Meets(g) /\ (w.order[t.at] \notin w.cyclic => MeetSound(g, w, t, v))
<1>1. next \in Seq(DOMAIN g.out)
  BY NextIsNew
<1>2. DOMAIN next = 1..Len(next) /\ Len(next) \in Nat /\ next[m.at] \in DOMAIN g.out
      /\ next[m.at] \in ToSet(next) /\ next # <<>>
  BY <1>1, SetOfSeq
<1>3. v \in Meets(g) /\ v.a = m.a /\ v.b = next[m.at] /\ v.at = m.at + 1 /\ m.at \in Nat
  BY <1>2 DEF Meets, Places
<1>4. ASSUME w.order[t.at] \notin w.cyclic PROVE MeetSound(g, w, t, v)
  <2>1. next[m.at] \in Placed(w, t)
    BY <1>2, <1>4, SuccessorsArePlaced
  <2>2. /\ m.a \in Placed(w, t) \cup {Nowhere}
        /\ Through(g, m.a) \cap Through(g, m.b) =
             {x \in DOMAIN g.out : \A k \in DOMAIN next : k < m.at => x \in Through(g, next[k])}
    BY <1>2, <1>4 DEF MeetSound
  <2>3. \A k \in DOMAIN next : k < v.at <=> k < m.at \/ k = m.at
    BY <1>2, <1>3
  <2>4. m.at + 1 - 1 = m.at
    BY <1>3
  <2>5. \A x : (\A k \in DOMAIN next : k < v.at => x \in Through(g, next[k])) <=>
               (\A k \in DOMAIN next : k < m.at => x \in Through(g, next[k]))
                 /\ x \in Through(g, next[m.at])
    BY <2>3
  <2>6. \A x : x \in Through(g, v.a) \cap Through(g, v.b) <=>
               x \in Through(g, m.a) \cap Through(g, m.b) /\ x \in Through(g, next[m.at])
    BY <1>3
  <2>7. Through(g, v.a) \cap Through(g, v.b) =
          {x \in DOMAIN g.out : \A k \in DOMAIN next : k < v.at => x \in Through(g, next[k])}
    BY <2>2, <2>5, <2>6
  <2>8. v.at - 1 \in DOMAIN next
    BY <1>3, <2>4
  <2>9. v.a \in Placed(w, t) \cup {Nowhere} /\ v.b \in Placed(w, t) \cup {Nowhere}
    BY <1>3, <2>1, <2>2
  <2> QED
    BY <1>2, <2>7, <2>8, <2>9, Zenon DEF MeetSound
<1> QED
  BY <1>3, <1>4

(* The common ancestor of all successors is the first node on every path.    *)
LEMMA MeetIsFirst ==
  ASSUME NEW g, IsFlow(g), NEW w, WalkSound(g, w, <<>>), NEW t, TreeSound(g, w, t),
         t.at \in DOMAIN w.order, NEW n, n = w.order[t.at], n \notin w.cyclic,
         NEW m \in Meets(g), m.a = m.b, m.at > 1, m.at \notin DOMAIN w.succ[n],
         MeetSound(g, w, t, m)
  PROVE  /\ m.a \in Placed(w, t) \cup {Nowhere}
         /\ OnEveryPath(g, n) = Through(g, m.a)
<1>1. PICK next : next = w.succ[n]
  OBVIOUS
<1>2. next \in Seq(DOMAIN g.out) /\ n \in DOMAIN g.out /\ n \notin Ahead(w, t.at)
  BY <1>1, NextIsNew
<1>3. ToSet(next) = ForwardTo(g, n) /\ ForwardTo(g, n) \subseteq Placed(w, t)
  BY <1>1, SuccessorsArePlaced
<1>4. /\ m.a \in Placed(w, t) \cup {Nowhere}
      /\ next = <<>> => m.a = Nowhere
      /\ next # <<>> =>
           /\ m.at - 1 \in DOMAIN next
           /\ Through(g, m.a) =
                {x \in DOMAIN g.out : \A k \in DOMAIN next : k < m.at => x \in Through(g, next[k])}
  BY <1>1 DEF MeetSound
<1>5. CASE next = <<>>
  <2>1. ForwardTo(g, n) = {}
    BY <1>3, <1>5 DEF ToSet
  <2>2. OnEveryPath(g, n) = {}
    BY <2>1, LeafGoesNowhere
  <2>3. Through(g, Nowhere) = {}
    BY DEF Through
  <2> QED
    BY <1>4, <1>5, <2>2, <2>3
<1>6. CASE next # <<>>
  <2>1. DOMAIN next = 1..Len(next) /\ Len(next) \in Nat /\ m.at \in Nat
    BY <1>2 DEF Meets
  <2>2. \A k \in DOMAIN next : k < m.at
    BY <1>1, <1>4, <1>6, <2>1
  <2>3. \A x \in DOMAIN g.out : x \in Through(g, m.a) <=> \A y \in ToSet(next) : x \in Through(g, y)
    <3>1. \A x : (\A k \in DOMAIN next : x \in Through(g, next[k])) <=>
                   \A y \in ToSet(next) : x \in Through(g, y)
      BY DEF ToSet
    <3> QED
      BY <1>4, <1>6, <2>2, <3>1
  <2>4. ForwardTo(g, n) # {}
    <3>1. m.at - 1 \in DOMAIN next
      BY <1>4, <1>6
    <3> QED
      BY <1>3, <3>1 DEF ToSet
  <2>5. n \notin Through(g, m.a)
    <3>1. m.a # Nowhere => m.a \in Placed(w, t)
      BY <1>4
    <3>2. m.a # Nowhere => NodePlaced(g, w, t, m.a)
      BY <3>1 DEF TreeSound
    <3>3. Through(g, m.a) \subseteq Placed(w, t)
      BY <3>1, <3>2 DEF Through, NodePlaced
    <3> QED
      BY <1>2, <3>3 DEF Placed
  <2>6. Through(g, m.a) \subseteq DOMAIN g.out
    BY ThroughIsOfNodes DEF Meets
  <2>7. n \notin OnEveryPath(g, n) /\ OnEveryPath(g, n) \subseteq DOMAIN g.out
    BY DEF OnEveryPath
  <2>8. \A x \in DOMAIN g.out \ {n} : x \in OnEveryPath(g, n) <=> x \in Through(g, m.a)
    BY <1>2, <1>3, <2>3, <2>4, PathsSplit
  <2>9. \A x : x \in OnEveryPath(g, n) <=> x \in Through(g, m.a)
    BY <2>5, <2>6, <2>7, <2>8
  <2>10. OnEveryPath(g, n) = Through(g, m.a)
    BY <2>9, Zenon
  <2> QED
    BY <1>4, <2>10
<1> QED
  BY <1>4, <1>5, <1>6

(* A node reaches an end event when it is one or a successor reaches one.    *)
LEMMA EndIsReached ==
  ASSUME NEW g, IsFlow(g), NEW n \in DOMAIN g.out
  PROVE  Reaches(g, n) \cap g.ends # {} <=>
           n \in g.ends \/ \E y \in ForwardTo(g, n) : Reaches(g, y) \cap g.ends # {}
<1>1. n \in Reaches(g, n)
  BY ReachesItself
<1>2. \A y \in ForwardTo(g, n) : Reaches(g, y) \subseteq Reaches(g, n)
  BY ReachesNext
<1>3. \A x \in Reaches(g, n) : x = n \/ \E y \in ForwardTo(g, n) : x \in Reaches(g, y)
  BY ReachesSplits
<1> QED
  BY <1>1, <1>2, <1>3

PlacedAt(g, w, t, m) ==
  LET n == w.order[t.at]
  IN [ipdom |-> [t.ipdom EXCEPT ![n] = m.a],
      depth |-> [t.depth EXCEPT ![n] = t.depth[m.a] + 1],
      ends  |-> t.ends \cup {x \in {n} : x \in g.ends \/ ToSet(w.succ[n]) \cap t.ends # {}},
      at    |-> t.at + 1]

LEMMA TreeGrows ==
  ASSUME NEW g, IsFlow(g), NEW w, WalkSound(g, w, <<>>), NEW t, TreeSound(g, w, t),
         t.at \in DOMAIN w.order, NEW m \in Meets(g), m.a = m.b, m.at > 1,
         m.at \notin DOMAIN w.succ[w.order[t.at]],
         w.order[t.at] \notin w.cyclic => MeetSound(g, w, t, m),
         NEW u, u = PlacedAt(g, w, t, m)
  PROVE  TreeSound(g, w, u)
<1>1. PICK n, a, p : n = w.order[t.at] /\ a = t.at /\ p = m.a
  OBVIOUS
<1>2. /\ a \in Nat \ {0} /\ n \in DOMAIN g.out /\ n \notin Ahead(w, a)
      /\ Ahead(w, a + 1) = Ahead(w, a) \cup {n}
  BY <1>1, NextIsNew
<1>3. /\ t.ipdom \in [Places(g) -> Places(g)] /\ t.depth \in [Places(g) -> Nat]
      /\ t.ends \subseteq DOMAIN g.out /\ t.ends \subseteq Ahead(w, a)
      /\ t.ipdom[Nowhere] = Nowhere /\ t.depth[Nowhere] = 0
      /\ \A x \in Placed(w, t) : NodePlaced(g, w, t, x)
  BY <1>1 DEF TreeSound, Trees
<1>4. p \in Places(g) /\ n \in Places(g) /\ n # Nowhere
  BY <1>1, <1>2 DEF Meets, Places, IsFlow
<1>5. PICK d : d = t.depth[p] + 1
  OBVIOUS
<1>6. d \in Nat \ {0}
  BY <1>3, <1>4, <1>5
<1>7. /\ u.ipdom = [t.ipdom EXCEPT ![n] = p] /\ u.depth = [t.depth EXCEPT ![n] = d] /\ u.at = a + 1
      /\ u.ends = t.ends \cup {x \in {n} : x \in g.ends \/ ToSet(w.succ[n]) \cap t.ends # {}}
      /\ DOMAIN u = {"ipdom", "depth", "ends", "at"}
      /\ u = [ipdom |-> u.ipdom, depth |-> u.depth, ends |-> u.ends, at |-> u.at]
  BY <1>1, <1>5 DEF PlacedAt
<1>8. /\ u.ipdom \in [Places(g) -> Places(g)] /\ u.depth \in [Places(g) -> Nat]
      /\ u.ipdom[n] = p /\ u.depth[n] = d
      /\ \A x \in Places(g) : x # n => u.ipdom[x] = t.ipdom[x] /\ u.depth[x] = t.depth[x]
  BY <1>3, <1>4, <1>6, <1>7
<1>9. /\ \A x : x # n => (x \in u.ends <=> x \in t.ends)
      /\ n \in u.ends <=> n \in g.ends \/ ToSet(w.succ[n]) \cap t.ends # {}
  BY <1>2, <1>3, <1>7
<1>10. u \in Trees(g)
  <2>1. u.ends \subseteq DOMAIN g.out
    BY <1>2, <1>3, <1>7
  <2>2. u.at \in Nat \ {0}
    BY <1>2, <1>7
  <2> QED
    BY <1>7, <1>8, <2>1, <2>2 DEF Trees
<1>11. u.ends \subseteq Ahead(w, u.at)
  BY <1>2, <1>3, <1>7, <1>9
<1>12. u.ipdom[Nowhere] = Nowhere /\ u.depth[Nowhere] = 0
  BY <1>3, <1>4, <1>8 DEF Places
<1>13. Placed(w, t) \subseteq Placed(w, u) /\ n \notin Placed(w, t)
       /\ \A x \in Placed(w, u) : x \in Placed(w, t) \/ (x = n /\ n \notin w.cyclic)
  BY <1>1, <1>2, <1>7 DEF Placed
<1>14. \A x \in Placed(w, t) : x \in Places(g) /\ x # n
  BY <1>13, PlacedAreNodes DEF Places
<1>15. ASSUME NEW x \in Placed(w, t) PROVE NodePlaced(g, w, u, x)
  <2>1. NodePlaced(g, w, t, x)
    BY <1>3
  <2>2. u.ipdom[x] = t.ipdom[x] /\ u.depth[x] = t.depth[x] /\ (x \in u.ends <=> x \in t.ends)
    BY <1>8, <1>9, <1>14
  <2>3. \A y \in OnEveryPath(g, x) : y \in Placed(w, t) /\ u.depth[y] = t.depth[y]
    BY <1>8, <1>14, <2>1 DEF NodePlaced
  <2> QED
    BY <1>13, <2>1, <2>2, <2>3 DEF NodePlaced
<1>16. ASSUME n \notin w.cyclic PROVE NodePlaced(g, w, u, n)
  <2>1. p \in Placed(w, t) \cup {Nowhere} /\ OnEveryPath(g, n) = Through(g, p)
    BY <1>1, <1>16, MeetIsFirst
  <2>2. ASSUME NEW x \in Through(g, p)
        PROVE  /\ x \in Placed(w, t) /\ u.depth[x] < d
               /\ Through(g, x) \subseteq Through(g, p)
    <3>1. p # Nowhere /\ p \in Placed(w, t) /\ NodePlaced(g, w, t, p)
      BY <1>3, <2>1, <2>2 DEF Through
    <3>2. CASE x = p
      <4>1. u.depth[p] = t.depth[p] /\ t.depth[p] \in Nat
        BY <1>3, <1>4, <1>8, <1>14, <3>1
      <4> QED
        BY <1>5, <3>1, <3>2, <4>1
    <3>3. CASE x # p
      <4>1. x \in OnEveryPath(g, p)
        BY <2>2, <3>1, <3>3 DEF Through
      <4>2. x \in Placed(w, t) /\ t.depth[x] < t.depth[p] /\ Through(g, x) \subseteq Through(g, p)
        BY <3>1, <4>1 DEF NodePlaced
      <4>3. u.depth[x] = t.depth[x] /\ t.depth[x] \in Nat /\ t.depth[p] \in Nat
        BY <1>3, <1>4, <1>8, <1>14, <4>2
      <4> QED
        BY <1>5, <4>2, <4>3
    <3> QED
      BY <3>2, <3>3
  <2>3. n \in u.ends <=> Reaches(g, n) \cap g.ends # {}
    <3>1. ToSet(w.succ[n]) = ForwardTo(g, n) /\ ForwardTo(g, n) \subseteq Placed(w, t)
      BY <1>1, <1>16, SuccessorsArePlaced
    <3>2. \A y \in ForwardTo(g, n) : y \in t.ends <=> Reaches(g, y) \cap g.ends # {}
      BY <1>3, <3>1 DEF NodePlaced
    <3>3. ToSet(w.succ[n]) \cap t.ends # {} <=>
            \E y \in ForwardTo(g, n) : Reaches(g, y) \cap g.ends # {}
      BY <3>1, <3>2
    <3> QED
      BY <1>2, <1>9, <3>3, EndIsReached
  <2>4. Through(g, p) \subseteq Through(g, n)
    BY <1>4, <2>1 DEF Through
  <2>5. u.ipdom[n] \in Placed(w, u) \cup {Nowhere} /\ u.depth[n] # 0
    BY <1>6, <1>8, <1>13, <2>1
  <2>6. \A x \in OnEveryPath(g, n) :
          x \in Placed(w, u) /\ u.depth[x] < u.depth[n] /\ Through(g, x) \subseteq Through(g, n)
    BY <1>8, <1>13, <2>1, <2>2, <2>4
  <2> QED
    BY <1>8, <2>1, <2>3, <2>5, <2>6 DEF NodePlaced
<1>17. \A x \in Placed(w, u) : NodePlaced(g, w, u, x)
  BY <1>13, <1>15, <1>16
<1> QED
  BY <1>10, <1>11, <1>12, <1>17 DEF TreeSound

(* Before the index begins nothing is placed.                                *)
LEMMA NothingPlaced ==
  ASSUME NEW g, IsFlow(g), NEW w \in Walks(g), NEW t, t = BareTree(g)
  PROVE  TreeSound(g, w, t)
<1>1. w.order \in Seq(DOMAIN g.out)
  BY DEF Walks
<1>2. DOMAIN w.order = 1..Len(w.order) /\ Len(w.order) \in Nat
  BY <1>1
<1>3. Ahead(w, 1) = {}
  BY <1>2 DEF Ahead
<1>4. /\ t.ipdom = [n \in Places(g) |-> Nowhere] /\ t.depth = [n \in Places(g) |-> 0]
      /\ t.ends = {} /\ t.at = 1 /\ t \in Trees(g)
  BY DEF BareTree, Places, Trees
<1>5. Placed(w, t) = {}
  BY <1>3, <1>4 DEF Placed
<1> QED
  BY <1>3, <1>4, <1>5 DEF TreeSound, Places

-----------------------------------------------------------------------------
(* What the finished walk says of cycles: what leads out of a node that is   *)
(* not cyclic finished before it and is not cyclic, so nothing leads back.   *)
LEMMA AheadIsClosed ==
  ASSUME NEW g, IsFlow(g), NEW w, WalkSound(g, w, <<>>), NEW i \in Nat,
         NEW y \in Ahead(w, i) \ w.cyclic
  PROVE  Reaches(g, y) \subseteq Ahead(w, i) \ w.cyclic
<1> DEFINE S == Ahead(w, i) \ w.cyclic
<1>1. w.order \in Seq(DOMAIN g.out)
  BY DEF WalkSound, Walks
<1>2. PICK m \in Nat : DOMAIN w.order = 1..m
  BY <1>1
<1>3. \A j \in DOMAIN w.order : w.order[j] \in DOMAIN g.out
  BY <1>1
<1>4. S \in SUBSET DOMAIN g.out
  BY <1>3 DEF Ahead
<1>5. ASSUME NEW z \in S PROVE ForwardTo(g, z) \subseteq S
  <2>1. PICK j \in DOMAIN w.order : j < i /\ z = w.order[j]
    BY <1>5 DEF Ahead
  <2>2. NodeFinished(g, w, j)
    BY DEF WalkSound
  <2>3. ForwardTo(g, z) \subseteq Ahead(w, j) /\ ForwardTo(g, z) \cap w.cyclic = {}
    BY <1>5, <2>1, <2>2 DEF NodeFinished
  <2>4. Ahead(w, j) \subseteq Ahead(w, i)
    <3>1. \A k \in DOMAIN w.order : k < j => k < i
      BY <1>2, <2>1
    <3> QED
      BY <3>1 DEF Ahead
  <2> QED
    BY <2>3, <2>4
<1>6. y \in S
  OBVIOUS
<1> HIDE DEF S
<1>7. Reaches(g, y) \subseteq S
  BY <1>4, <1>5, <1>6, ReachesLeast
<1> QED
  BY <1>7 DEF S

LEMMA AllAreAhead ==
  ASSUME NEW S, NEW w, w.order \in Seq(S), NEW i \in Nat \ {0}, i \notin DOMAIN w.order
  PROVE  Ahead(w, i) = ToSet(w.order)
<1>1. PICK m \in Nat : DOMAIN w.order = 1..m
  OBVIOUS
<1>2. \A k \in DOMAIN w.order : k < i
  BY <1>1
<1>3. ASSUME NEW x \in Ahead(w, i) PROVE x \in ToSet(w.order)
  <2>1. PICK k \in DOMAIN w.order : x = w.order[k]
    BY DEF Ahead
  <2> QED
    BY <2>1 DEF ToSet
<1>4. ASSUME NEW x \in ToSet(w.order) PROVE x \in Ahead(w, i)
  <2>1. PICK k \in DOMAIN w.order : x = w.order[k]
    BY DEF ToSet
  <2> QED
    BY <1>2, <2>1 DEF Ahead
<1> QED
  BY <1>3, <1>4

LEMMA NoCycleLeft ==
  ASSUME NEW g, IsFlow(g), NEW w, WalkSound(g, w, <<>>), NEW n \in ToSet(w.order) \ w.cyclic
  PROVE  ~Circles(g, n)
<1>1. w.order \in Seq(DOMAIN g.out)
  BY DEF WalkSound, Walks
<1>2. PICK m \in Nat : DOMAIN w.order = 1..m
  BY <1>1
<1>3. Ahead(w, m + 1) = ToSet(w.order)
  BY <1>1, <1>2, AllAreAhead
<1> SUFFICES ASSUME Circles(g, n) PROVE FALSE
  OBVIOUS
<1>4. PICK x \in Reaches(g, n) : \E y \in ForwardTo(g, x) : x \in Reaches(g, y)
  BY DEF Circles
<1>5. PICK y \in ForwardTo(g, x) : x \in Reaches(g, y)
  BY <1>4
<1>6. x \in Ahead(w, m + 1) \ w.cyclic
  BY <1>3, AheadIsClosed
<1>7. PICK j \in DOMAIN w.order : x = w.order[j]
  BY <1>6 DEF Ahead
<1>8. NodeFinished(g, w, j)
  BY DEF WalkSound
<1>9. y \in Ahead(w, j) \ w.cyclic
  BY <1>6, <1>7, <1>8, <1>5 DEF NodeFinished
<1>10. x \in Ahead(w, j)
  BY <1>9, <1>5, AheadIsClosed
<1>11. PICK k \in DOMAIN w.order : k < j /\ x = w.order[k]
  BY <1>10 DEF Ahead
<1>12. k = j
  BY <1>7, <1>11 DEF WalkSound
<1> QED
  BY <1>2, <1>11, <1>12

-----------------------------------------------------------------------------
(* One step at a time.                                                       *)
LEMMA LeastIsThere ==
  ASSUME NEW S, S \subseteq Nat, S # {}
  PROVE  Min(S) \in S
<1>1. PICK x \in S : \A y \in S : ~(<<y, x>> \in OpToRel(<, Nat))
  BY WFMin, NatLessThanWellFounded
<1>2. \A y \in S : ~(y < x)
  BY <1>1 DEF OpToRel
<1>3. \A y \in S : x =< y
  BY <1>2
<1> QED
  BY <1>3 DEF Min

LEMMA RootsAreNodes ==
  ASSUME IsFlow(flow), split \in Places(flow)
  PROVE  Roots \subseteq DOMAIN flow.out /\ Roots \subseteq Nat
  BY DEF Roots, Places, IsFlow

LEMMA WalkFromKeeps ==
  ASSUME IndexInv, WalkFrom
  PROVE  IndexInv'
<1>1. PICK n : n = Min(Unfinished)
  OBVIOUS
<1>2. n \in Unfinished
  <2>1. Unfinished \subseteq Nat
    BY RootsAreNodes DEF IndexInv, Unfinished
  <2> QED
    BY <1>1, <2>1, LeastIsThere DEF WalkFrom
<1>3. n \in DOMAIN flow.out \ ToSet(walk.order)
  BY <1>2, RootsAreNodes DEF IndexInv, Unfinished
<1>4. WalkSound(flow, walk, <<>>) /\ IsFlow(flow)
  BY DEF IndexInv, WalkFrom
<1>5. trail' = <<Entered(n)>>
  BY <1>1 DEF WalkFrom
<1>6. WalkSound(flow, walk, trail') /\ TrailSound(flow, walk, trail')
  BY <1>3, <1>4, <1>5, RootEntered
<1>7. meet.at = 0
  BY DEF IndexInv, WalkFrom, NoMeet
<1> QED
  BY <1>6, <1>7 DEF IndexInv, WalkFrom

(* What the walk's own actions have in common: the rest of the state is as   *)
(* it was before the index began.                                            *)
LEMMA WalkStep ==
  ASSUME IndexInv, step = "walk", step' = "walk", flow' = flow, split' = split, tree' = tree,
         meet' = meet, WalkSound(flow, walk', trail'), TrailSound(flow, walk', trail')
  PROVE  IndexInv'
<1>1. IsFlow(flow) /\ tree = BareTree(flow) /\ meet = NoMeet /\ meet.at = 0
  BY DEF IndexInv, NoMeet
<1>2. walk' \in Walks(flow)
  BY DEF WalkSound
<1>3. TreeSound(flow, walk', tree)
  BY <1>1, <1>2, NothingPlaced
<1>4. meet \in Meets(flow) /\ split \in Places(flow)
  BY DEF IndexInv
<1> QED
  BY <1>1, <1>3, <1>4 DEF IndexInv

LEMMA TopAtFlow ==
  ASSUME IndexInv, AtFlow
  PROVE  /\ trail # <<>> /\ Top = Last(trail) /\ Top.node \in DOMAIN flow.out
         /\ Top.at \in DOMAIN flow.out[Top.node] /\ Past = PastTop(trail)
         /\ TargetHere \in DOMAIN flow.out
         /\ ~IsBack => Top.at \in Forwards(flow, Top.node) /\ TargetHere \in ForwardTo(flow, Top.node)
         /\ IsBack => Top.at \notin Forwards(flow, Top.node)
<1>1. trail # <<>> /\ Top = Last(trail) /\ Top.at \in DOMAIN flow.out[Top.node]
  BY DEF AtFlow, Top
<1>2. Top.node \in DOMAIN flow.out
  BY <1>1, TopIsSound DEF IndexInv
<1>3. TargetHere \in DOMAIN flow.out
  BY <1>1, <1>2, ForwardStaysIn DEF IndexInv, TargetHere
<1>4. Past = PastTop(trail)
  BY <1>1 DEF Past, PastTop
<1>5. Top.at \in Forwards(flow, Top.node) <=> ~IsBack
  BY <1>1 DEF Forwards, IsBack, TargetHere
<1>6. Top.at \in Forwards(flow, Top.node) => TargetHere \in ForwardTo(flow, Top.node)
  BY DEF ForwardTo, TargetHere
<1> QED
  BY <1>1, <1>2, <1>3, <1>4, <1>5, <1>6

(* What was taken from the top so far are targets of its forward flows that  *)
(* have finished.                                                            *)
LEMMA TakenFromTop ==
  ASSUME IndexInv, trail # <<>>
  PROVE  /\ ToSet(walk.succ[Top.node]) \subseteq ForwardTo(flow, Top.node)
         /\ ToSet(walk.succ[Top.node]) \subseteq ToSet(walk.order)
         /\ walk \in Walks(flow) /\ Top.node \in DOMAIN flow.out
<1>1. FrameSound(flow, walk, trail, Len(trail)) /\ Top = trail[Len(trail)] /\ Top.node \in DOMAIN flow.out
  BY TopIsSound DEF IndexInv, Top
<1>2. Len(trail) \in Nat /\ DOMAIN trail = 1..Len(trail)
  BY TopIsThere DEF IndexInv, TrailSound
<1>3. Entering(trail, Len(trail)) = {}
  BY <1>2 DEF Entering
<1> QED
  BY <1>1, <1>3 DEF FrameSound, NodeWalked, IndexInv, WalkSound

LEMMA PassBackKeeps ==
  ASSUME IndexInv, PassBack
  PROVE  IndexInv'
<1>1. AtFlow /\ IsBack /\ trail' = Past
  BY DEF PassBack
<1>2. TopOnly(flow, walk, walk, Top.node)
  BY <1>1, TakenFromTop, TopAtFlow DEF TopOnly, IndexInv, WalkSound
<1>3. WalkSound(flow, walk, trail') /\ TrailSound(flow, walk, trail')
  BY <1>1, <1>2, TopAtFlow, TakenFromTop, FlowPassed DEF IndexInv, Top
<1> QED
  BY <1>3, WalkStep DEF PassBack

LEMMA CutFlowKeeps ==
  ASSUME IndexInv, CutFlow
  PROVE  IndexInv'
<1>1. AtFlow /\ ~IsBack /\ TargetHere \in OnTrail /\ trail' = Past
  BY DEF CutFlow
<1>2. PICK v, n : v = walk' /\ n = Top.node
  OBVIOUS
<1>3. walk \in Walks(flow) /\ n \in DOMAIN flow.out /\ IsFlow(flow)
  BY <1>1, <1>2, TopAtFlow, TakenFromTop DEF IndexInv
<1>4. /\ v \in Walks(flow) /\ v.order = walk.order /\ v.succ = walk.succ
      /\ v.cyclic = walk.cyclic \cup {n}
  BY <1>2, <1>3 DEF CutFlow, Walks
<1>5. Circles(flow, n)
  <2>1. PICK i \in DOMAIN trail : TargetHere = trail[i].node
    BY <1>1 DEF OnTrail
  <2>2. trail # <<>> /\ n = trail[Len(trail)].node /\ Len(trail) \in DOMAIN trail
    BY <1>1, <1>2, TopAtFlow, TopIsSound DEF IndexInv
  <2>3. i =< Len(trail)
    BY <2>2, TopIsThere DEF IndexInv, TrailSound
  <2>4. n \in Reaches(flow, TargetHere)
    BY <2>1, <2>2, <2>3 DEF IndexInv, TrailSound
  <2>5. TargetHere \in ForwardTo(flow, n)
    BY <1>1, <1>2, TopAtFlow
  <2> QED
    BY <1>3, <2>4, <2>5, CirclesHere
<1>6. TopOnly(flow, walk, v, n)
  BY <1>1, <1>2, <1>4, <1>5, TopAtFlow, TakenFromTop DEF TopOnly
<1>7. WalkSound(flow, v, trail') /\ TrailSound(flow, v, trail')
  BY <1>1, <1>2, <1>4, <1>6, TopAtFlow, TakenFromTop, FlowPassed DEF IndexInv, Top
<1> QED
  BY <1>2, <1>7, WalkStep DEF CutFlow

(* A target taken: the walk and what is known of the top's successors.       *)
LEMMA TargetTaken ==
  ASSUME IndexInv, AtFlow, ~IsBack
  PROVE  /\ TopOnly(flow, walk, Taken, Top.node)
         /\ ToSet(Taken.succ[Top.node]) = ToSet(walk.succ[Top.node]) \cup {TargetHere}
<1>1. PICK n, y, s : n = Top.node /\ y = TargetHere /\ s = Append(walk.succ[n], y)
  OBVIOUS
<1>2. PICK v : v = [walk EXCEPT !.succ = [walk.succ EXCEPT ![n] = s]]
  OBVIOUS
<1>3. v = Taken
  BY <1>1, <1>2 DEF Taken
<1>4. n \in DOMAIN flow.out /\ y \in DOMAIN flow.out /\ y \in ForwardTo(flow, n) /\ walk \in Walks(flow)
  BY <1>1, TopAtFlow, TakenFromTop
<1>5. walk.succ \in [DOMAIN flow.out -> Seq(DOMAIN flow.out)]
  BY <1>4 DEF Walks
<1>6. s \in Seq(DOMAIN flow.out) /\ ToSet(s) = ToSet(walk.succ[n]) \cup {y}
  <2>1. PICK q \in Seq(DOMAIN flow.out) : q = walk.succ[n]
    BY <1>4, <1>5
  <2>2. Append(q, y) \in Seq(DOMAIN flow.out) /\ ToSet(Append(q, y)) = ToSet(q) \cup {y}
    BY <1>4, Pushed
  <2> QED
    BY <1>1, <2>1, <2>2
<1>7. /\ v \in Walks(flow) /\ v.order = walk.order /\ v.cyclic = walk.cyclic
      /\ v.succ = [walk.succ EXCEPT ![n] = s]
  <2>1. [walk.succ EXCEPT ![n] = s] \in [DOMAIN flow.out -> Seq(DOMAIN flow.out)]
    BY <1>4, <1>5, <1>6
  <2> HIDE <1>6
  <2> QED
    BY <1>2, <1>4, <2>1 DEF Walks
<1>8. v.succ[n] = s /\ \A x \in DOMAIN flow.out \ {n} : v.succ[x] = walk.succ[x]
  BY <1>4, <1>5, <1>7
<1>9. n \in v.cyclic => Circles(flow, n)
  BY <1>7 DEF IndexInv, WalkSound
<1>10. trail # <<>>
  BY DEF AtFlow
<1>11. ToSet(walk.succ[n]) \subseteq ForwardTo(flow, n)
  BY <1>1, <1>10, TakenFromTop
<1> QED
  BY <1>1, <1>3, <1>4, <1>6, <1>7, <1>8, <1>9, <1>11 DEF TopOnly

LEMMA TakeFlowKeeps ==
  ASSUME IndexInv, TakeFlow
  PROVE  IndexInv'
<1>1. AtFlow /\ ~IsBack /\ TargetHere \in ToSet(walk.order) /\ trail' = Past /\ walk' = Taken
  BY DEF TakeFlow
<1>2. PICK v, n : v = Taken /\ n = Top.node
  OBVIOUS
<1>3. TopOnly(flow, walk, v, n) /\ ToSet(v.succ[n]) = ToSet(walk.succ[n]) \cup {TargetHere}
  BY <1>1, <1>2, TargetTaken
<1>4. ToSet(v.succ[n]) \subseteq ToSet(walk.order)
  BY <1>1, <1>2, <1>3, TopAtFlow, TakenFromTop
<1>5. flow.out[n][Top.at] \in ToSet(v.succ[n])
  BY <1>2, <1>3 DEF TargetHere
<1>6. WalkSound(flow, v, trail') /\ TrailSound(flow, v, trail')
  BY <1>1, <1>2, <1>3, <1>4, <1>5, TopAtFlow, FlowPassed DEF IndexInv, Top
<1> QED
  BY <1>1, <1>2, <1>6, WalkStep DEF TakeFlow

LEMMA EnterNodeKeeps ==
  ASSUME IndexInv, EnterNode
  PROVE  IndexInv'
<1>1. /\ AtFlow /\ ~IsBack /\ TargetHere \notin OnTrail \cup ToSet(walk.order)
      /\ trail' = Append(Past, Entered(TargetHere)) /\ walk' = Taken
  BY DEF EnterNode
<1>2. PICK v, n, y : v = Taken /\ n = Top.node /\ y = TargetHere
  OBVIOUS
<1>3. TopOnly(flow, walk, v, n) /\ ToSet(v.succ[n]) = ToSet(walk.succ[n]) \cup {y}
  BY <1>1, <1>2, TargetTaken
<1>4. y = flow.out[n][Top.at] /\ y \notin NodesOf(trail) \cup ToSet(walk.order)
  BY <1>1, <1>2 DEF TargetHere, OnTrail, NodesOf
<1>5. WalkSound(flow, v, trail') /\ TrailSound(flow, v, trail')
  BY <1>1, <1>2, <1>3, <1>4, TopAtFlow, NodeEntered DEF IndexInv, Top
<1> QED
  BY <1>1, <1>2, <1>5, WalkStep DEF EnterNode

LEMMA FinishNodeKeeps ==
  ASSUME IndexInv, FinishNode
  PROVE  IndexInv'
<1>1. trail # <<>> /\ Top.at \notin DOMAIN flow.out[Top.node] /\ trail' = Front(trail)
  BY DEF FinishNode, AtFlow
<1>2. PICK v, n : v = walk' /\ n = Top.node
  OBVIOUS
<1>3. walk \in Walks(flow) /\ n \in DOMAIN flow.out
  BY <1>1, <1>2, TakenFromTop
<1>4. /\ v.order = Append(walk.order, n) /\ v.succ = walk.succ
      /\ v.cyclic = walk.cyclic \cup {x \in {n} : ToSet(walk.succ[x]) \cap walk.cyclic # {}}
      /\ v = [order |-> v.order, succ |-> v.succ, cyclic |-> v.cyclic]
  BY <1>2 DEF FinishNode
<1>5. v \in Walks(flow)
  <2>1. v.order \in Seq(DOMAIN flow.out)
    BY <1>3, <1>4, AppendProperties DEF Walks
  <2>2. v.cyclic \subseteq DOMAIN flow.out
    BY <1>3, <1>4 DEF Walks
  <2>3. v.succ \in [DOMAIN flow.out -> Seq(DOMAIN flow.out)]
    BY <1>3, <1>4 DEF Walks
  <2> QED
    BY <1>4, <2>1, <2>2, <2>3 DEF Walks
<1>6. WalkSound(flow, v, trail') /\ TrailSound(flow, v, trail')
  BY <1>1, <1>2, <1>4, <1>5, NodeDone DEF IndexInv, Top
<1> QED
  BY <1>2, <1>6, WalkStep DEF FinishNode

LEMMA EndWalkKeeps ==
  ASSUME IndexInv, EndWalk
  PROVE  IndexInv'
<1>1. meet.at = 0 /\ Roots \subseteq ToSet(walk.order)
  BY DEF IndexInv, EndWalk, NoMeet, Unfinished
<1>2. Roots' = Roots
  BY DEF Roots, EndWalk
<1> QED
  BY <1>1, <1>2 DEF IndexInv, EndWalk

LEMMA SkipCyclicKeeps ==
  ASSUME IndexInv, SkipCyclic
  PROVE  IndexInv'
<1>1. /\ step = "index" /\ trail = <<>> /\ tree.at \in DOMAIN walk.order /\ Placing \in walk.cyclic
      /\ meet.at = 0 /\ WalkSound(flow, walk, <<>>)
  BY DEF IndexInv, SkipCyclic, ToPlace, Seeking
<1>2. TreeSound(flow, walk, tree')
  BY <1>1, TreeSkips DEF IndexInv, SkipCyclic, Placing
<1>3. Roots' = Roots
  BY DEF Roots, SkipCyclic
<1> QED
  BY <1>1, <1>2, <1>3 DEF IndexInv, SkipCyclic

(* What the turns of the loop that seek the common ancestor have in common.  *)
LEMMA MeetStep ==
  ASSUME IndexInv, step = "index", step' = "index", flow' = flow, split' = split, tree' = tree,
         trail' = trail, walk' = walk, tree.at \in DOMAIN walk.order, meet' \in Meets(flow),
         meet'.at > 1, Placing \notin walk.cyclic => MeetSound(flow, walk, tree, meet')
  PROVE  IndexInv'
<1>1. Roots' = Roots /\ Placing' = Placing /\ ToPlace'
  BY DEF Roots, Placing, ToPlace
<1> QED
  BY <1>1 DEF IndexInv

LEMMA FirstSuccessorKeeps ==
  ASSUME IndexInv, FirstSuccessor
  PROVE  IndexInv'
<1>1. /\ step = "index" /\ trail = <<>> /\ tree.at \in DOMAIN walk.order
      /\ WalkSound(flow, walk, <<>>) /\ TreeSound(flow, walk, tree) /\ IsFlow(flow)
  BY DEF IndexInv, FirstSuccessor, ToPlace
<1>2. PICK n, m : n = (IF Successors = <<>> THEN Nowhere ELSE Head(Successors))
                   /\ m = [a |-> n, b |-> n, at |-> 2] /\ m = meet'
  BY DEF FirstSuccessor
<1>3. m \in Meets(flow) /\ (Placing \notin walk.cyclic => MeetSound(flow, walk, tree, m))
  BY <1>1, <1>2, FirstMeets DEF Successors, Placing
<1>4. m.at > 1
  BY <1>2
<1> QED
  BY <1>1, <1>2, <1>3, <1>4, MeetStep DEF FirstSuccessor

LEMMA ClimbKeeps ==
  ASSUME IndexInv, Climb
  PROVE  IndexInv'
<1>1. /\ step = "index" /\ trail = <<>> /\ tree.at \in DOMAIN walk.order
      /\ WalkSound(flow, walk, <<>>) /\ TreeSound(flow, walk, tree) /\ IsFlow(flow)
      /\ meet \in Meets(flow) /\ meet.a # meet.b /\ meet.at > 1
      /\ Placing \notin walk.cyclic => MeetSound(flow, walk, tree, meet)
  BY DEF IndexInv, Climb, ToPlace, Seeking
<1>2. meet' = IF tree.depth[meet.a] >= tree.depth[meet.b]
              THEN [a |-> tree.ipdom[meet.a], b |-> meet.b, at |-> meet.at]
              ELSE [a |-> meet.a, b |-> tree.ipdom[meet.b], at |-> meet.at]
  BY DEF Climb, Deeper
<1>3. /\ meet' \in Meets(flow) /\ meet'.at = meet.at
      /\ Placing \notin walk.cyclic => MeetSound(flow, walk, tree, meet')
  BY <1>1, <1>2, MeetClimbs DEF Placing
<1> QED
  BY <1>1, <1>3, MeetStep DEF Climb

LEMMA NextSuccessorKeeps ==
  ASSUME IndexInv, NextSuccessor
  PROVE  IndexInv'
<1>1. /\ step = "index" /\ trail = <<>> /\ tree.at \in DOMAIN walk.order
      /\ WalkSound(flow, walk, <<>>) /\ TreeSound(flow, walk, tree) /\ IsFlow(flow)
      /\ meet \in Meets(flow) /\ meet.a = meet.b /\ meet.at > 1 /\ meet.at \in DOMAIN Successors
      /\ Placing \notin walk.cyclic => MeetSound(flow, walk, tree, meet)
  BY DEF IndexInv, NextSuccessor, ToPlace, Seeking
<1>2. meet' = [a |-> meet.a, b |-> Successors[meet.at], at |-> meet.at + 1]
  BY DEF NextSuccessor
<1>3. meet' \in Meets(flow) /\ (Placing \notin walk.cyclic => MeetSound(flow, walk, tree, meet'))
  BY <1>1, <1>2, NextMeets DEF Successors, Placing
<1>4. meet'.at > 1
  <2>1. meet'.at = meet.at + 1 /\ meet.at \in Nat
    BY <1>1, <1>2 DEF Meets
  <2> QED
    BY <1>1, <2>1
<1> QED
  BY <1>1, <1>3, <1>4, MeetStep DEF NextSuccessor

LEMMA PlaceNodeKeeps ==
  ASSUME IndexInv, PlaceNode
  PROVE  IndexInv'
<1>1. /\ step = "index" /\ trail = <<>> /\ tree.at \in DOMAIN walk.order
      /\ WalkSound(flow, walk, <<>>) /\ TreeSound(flow, walk, tree) /\ IsFlow(flow)
      /\ meet \in Meets(flow) /\ meet.a = meet.b /\ meet.at > 1 /\ meet.at \notin DOMAIN Successors
      /\ Placing \notin walk.cyclic => MeetSound(flow, walk, tree, meet)
  BY DEF IndexInv, PlaceNode, ToPlace, Seeking
<1>2. tree' = PlacedAt(flow, walk, tree, meet)
  BY DEF PlaceNode, PlacedAt, Placing, Successors
<1>3. TreeSound(flow, walk, tree')
  BY <1>1, <1>2, TreeGrows DEF Successors, Placing
<1>4. Roots' = Roots
  BY DEF Roots, PlaceNode
<1>5. meet' \in Meets(flow) /\ meet'.at = 0
  BY DEF PlaceNode, NoMeet, Meets, Places
<1> QED
  BY <1>1, <1>3, <1>4, <1>5 DEF IndexInv, PlaceNode

LEMMA EndIndexKeeps ==
  ASSUME IndexInv, EndIndex
  PROVE  IndexInv'
<1>1. meet.at = 0
  BY DEF IndexInv, EndIndex, ToPlace
<1>2. Roots' = Roots
  BY DEF Roots, EndIndex
<1> QED
  BY <1>1, <1>2 DEF IndexInv, EndIndex

LEMMA IndexStarts ==
  ASSUME IndexInit
  PROVE  IndexInv
<1>1. PICK g, n : IndexOf(g, n) /\ IsFlow(g) /\ n \in Places(g)
  BY FlowsAreGraphs DEF IndexInit, Places
<1>2. /\ flow = g /\ split = n /\ step = "walk" /\ trail = <<>> /\ tree = BareTree(g) /\ meet = NoMeet
      /\ walk = [order |-> <<>>, cyclic |-> {}, succ |-> [m \in DOMAIN g.out |-> <<>>]]
  BY <1>1 DEF IndexOf
<1>3. walk \in Walks(g)
  BY <1>2 DEF Walks
<1>4. TreeSound(g, walk, tree)
  BY <1>1, <1>2, <1>3, NothingPlaced
<1>5. TrailSound(g, walk, trail)
  BY <1>2 DEF TrailSound
<1>6. WalkSound(g, walk, trail)
  BY <1>2, <1>3 DEF WalkSound
<1>7. meet \in Meets(g) /\ meet.at = 0
  BY <1>2 DEF NoMeet, Meets, Places
<1> QED
  BY <1>1, <1>2, <1>4, <1>5, <1>6, <1>7 DEF IndexInv

-----------------------------------------------------------------------------
(* The walk and the tree are what the invariant says they are at every step. *)
THEOREM IndexKeeps == IndexSpec => []IndexInv
<1>1. IndexInit => IndexInv
  BY IndexStarts
<1>2. IndexInv /\ [IndexNext]_indexVars => IndexInv'
  <2> SUFFICES ASSUME IndexInv, [IndexNext]_indexVars PROVE IndexInv'
    OBVIOUS
  <2>1. CASE WalkFrom
    BY <2>1, WalkFromKeeps
  <2>2. CASE PassBack
    BY <2>2, PassBackKeeps
  <2>3. CASE CutFlow
    BY <2>3, CutFlowKeeps
  <2>4. CASE TakeFlow
    BY <2>4, TakeFlowKeeps
  <2>5. CASE EnterNode
    BY <2>5, EnterNodeKeeps
  <2>6. CASE FinishNode
    BY <2>6, FinishNodeKeeps
  <2>7. CASE EndWalk
    BY <2>7, EndWalkKeeps
  <2>8. CASE SkipCyclic
    BY <2>8, SkipCyclicKeeps
  <2>9. CASE FirstSuccessor
    BY <2>9, FirstSuccessorKeeps
  <2>10. CASE Climb
    BY <2>10, ClimbKeeps
  <2>11. CASE NextSuccessor
    BY <2>11, NextSuccessorKeeps
  <2>12. CASE PlaceNode
    BY <2>12, PlaceNodeKeeps
  <2>13. CASE EndIndex
    BY <2>13, EndIndexKeeps
  <2>14. CASE UNCHANGED indexVars
    BY <2>14 DEF indexVars, IndexInv, Roots, Placing, ToPlace
  <2> QED
    BY <2>1, <2>2, <2>3, <2>4, <2>5, <2>6, <2>7, <2>8, <2>9, <2>10, <2>11, <2>12, <2>13, <2>14
       DEF IndexNext
<1> QED
  BY <1>1, <1>2, PTL DEF IndexSpec

LEMMA IndexIsRight ==
  ASSUME IndexInv
  PROVE  JoinIsPostDominator
<1> SUFFICES ASSUME step = "indexed" PROVE JoinIsPostDominator
  BY DEF JoinIsPostDominator
<1>1. /\ IsFlow(flow) /\ trail = <<>> /\ WalkSound(flow, walk, <<>>) /\ TreeSound(flow, walk, tree)
      /\ Roots \subseteq ToSet(walk.order) /\ tree.at \notin DOMAIN walk.order
  BY DEF IndexInv
<1>2. walk.order \in Seq(DOMAIN flow.out) /\ tree.at \in Nat \ {0}
  BY <1>1 DEF WalkSound, Walks, TreeSound, Trees
<1>3. Placed(walk, tree) = ToSet(walk.order) \ walk.cyclic
  BY <1>2, <1>1, AllAreAhead DEF Placed
<1>4. ASSUME NEW n \in ToSet(walk.order)
      PROVE  /\ n \in walk.cyclic <=> Circles(flow, n)
             /\ ~Circles(flow, n) =>
                  /\ OnEveryPath(flow, n) = Through(flow, tree.ipdom[n])
                  /\ n \in tree.ends <=> Reaches(flow, n) \cap flow.ends # {}
  <2>1. n \in walk.cyclic => Circles(flow, n)
    BY <1>1 DEF WalkSound
  <2>2. n \notin walk.cyclic => ~Circles(flow, n)
    BY <1>1, NoCycleLeft
  <2>3. n \notin walk.cyclic => NodePlaced(flow, walk, tree, n)
    BY <1>1, <1>3 DEF TreeSound
  <2> QED
    BY <2>1, <2>2, <2>3 DEF NodePlaced
<1> QED
  BY <1>1, <1>4 DEF JoinIsPostDominator, Through

(* The parent the index gives a node is the nearest that all paths from it   *)
(* go through, the cyclic nodes are those that lead into a cycle, and an end *)
(* event is reached from the nodes it says, for every process.               *)
THEOREM JoinsArePostDominators == IndexSpec => []JoinIsPostDominator
<1>1. IndexInv => JoinIsPostDominator
  BY IndexIsRight
<1> QED
  BY <1>1, IndexKeeps, PTL

=============================================================================
