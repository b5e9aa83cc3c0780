--------------------------- MODULE CallGraphProofs ---------------------------
(* What the checks of a bundle's call graph promise, for every bundle and    *)
(* every task limit (CallGraph).                                             *)
(*                                                                           *)
(* Each promise speaks of all the ways calls lead (Ways, Leading), and the   *)
(* code of a few maps and a stack.  The invariant says what the maps mean    *)
(* half way: the walk's stack is a way from its first process to the one in  *)
(* hand, and what is done has, without a cycle found, no way back to what is *)
(* not.  In its parts:                                                       *)
(*   GraphInv     the size of a done process is the number of tasks its      *)
(*                expansion has, cut off above the limit;                    *)
(*   BodiesInv    the order holds what the queue's walk has reached, and the *)
(*                callers of a body are the calls of the bodies walked;      *)
(*   RoutesInv    the memo is exact, and a search on the stack has found     *)
(*                what is led to around the searches below it;               *)
(*   CompileInv   a plan is put when every plan its body calls is, and the   *)
(*                claimed ones without a plan are those on the stack.        *)
EXTENDS CallGraph, FunctionTheorems, FiniteSetTheorems, SequenceTheorems, WellFoundedInduction,
        TLAPS

-----------------------------------------------------------------------------
(* The calls a process makes in the graph, by their places: its Sites.  What *)
(* a part of the graph can be once it holds no cycle: every call of it stays *)
(* in it, and every part of it has a process that calls none of that part.   *)
SitesOf(b, id) ==
  {k \in DOMAIN ProcessOf(b, id).calls : Counted(b, id, ProcessOf(b, id).calls[k])}
Target(b, id, k) == ProcessOf(b, id).calls[k][2]

CallsStayIn(b, D) == \A id \in D : \A k \in SitesOf(b, id) : Target(b, id, k) \in D
HasNoCycle(b, D) ==
  \A S \in SUBSET D : S # {} => \E id \in S : \A k \in SitesOf(b, id) : Target(b, id, k) \notin S
WaysAreShort(b, D) == \A id \in D : \A w \in Ways(b, id) : Len(w) < Cardinality(D)

(* What a process expands to along its calls before the k-th.                *)
ExpandedTo(b, id, k) == {e \in Expansion(b, id) : e[1] # <<>> => e[1][1][2] < k}
Counts(set, n) == IsFiniteSet(set) /\ Cardinality(set) = n

(* What the walk keeps and what it found, as far as it went.                 *)
CallNames(b) == UNION {{c[1] : c \in ToSet(p.calls)} : p \in ToSet(b)}
Graphs(b) ==
  [done : SUBSET Ids(b), size : [Ids(b) -> Nat], called : SUBSET Ids(b),
   calls : SUBSET Ids(b), cycles : SUBSET CallNames(b)]

IsCalled(b, id) == \E p \in Ids(b) : \E k \in SitesOf(b, p) : id = Target(b, p, k)

GraphSound(b, g) ==
  /\ \A id \in g.called : IsCalled(b, id)
  /\ \A id \in g.done : SitesOf(b, id) # {} => id \in g.calls
  /\ g.cycles = {} =>
       /\ CallsStayIn(b, g.done) /\ HasNoCycle(b, g.done) /\ WaysAreShort(b, g.done)
       /\ \A id \in g.done : g.size[id] =< TaskLimit => Counts(Expansion(b, id), g.size[id])

(* A call of visit that has not returned: what it has counted so far.        *)
Visits(b) == [id : Ids(b), at : Nat \ {0}, size : Nat]
VisitSound(b, g, f) ==
  /\ f.id \notin g.done
  /\ f.at =< Len(ProcessOf(b, f.id).calls) + 1
  /\ \A k \in SitesOf(b, f.id) : k < f.at => f.id \in g.calls
  /\ g.cycles = {} =>
       /\ \A k \in SitesOf(b, f.id) : k < f.at => Target(b, f.id, k) \in g.done
       /\ f.size =< TaskLimit => Counts(ExpandedTo(b, f.id, f.at), f.size)

IsDistinct(s) == \A i, j \in DOMAIN s : s[i].id = s[j].id => i = j
GraphWalk(b, g, s) ==
  s \in Seq(Visits(b)) /\ IsDistinct(s) /\ \A i \in DOMAIN s : VisitSound(b, g, s[i])

-----------------------------------------------------------------------------
Rooted == verdict.root # 0

VerdictTyped ==
  verdict = [root |-> verdict.root, issues |-> verdict.issues, inside |-> verdict.inside]

RootChosen ==
  /\ pass = "graph" => verdict = Unread
  /\ pass \in {"graph", "bodies"} => routes = NoRoutes /\ verdict.inside = {}
  /\ pass \in {"bodies", "validated", "compiled"} => stack = <<>>
  /\ pass \in {"bodies", "routes", "compile", "compiled"} => Rooted
  /\ pass = "validated" /\ ~Rooted => verdict.issues # {}
  /\ Rooted =>
       /\ verdict.root \in DOMAIN bundle /\ verdict.root \in Runnable(bundle)
       /\ graph.done = Ids(bundle)
       /\ CallGraphIssues(bundle, graph) \subseteq verdict.issues
       /\ OwnIssues(bundle, bundle[verdict.root]) \subseteq verdict.issues

Passes == {"graph", "bodies", "routes", "validated", "compile", "compiled"}
GraphInv ==
  /\ IsBundle(bundle) /\ pass \in Passes
  /\ graph \in Graphs(bundle) /\ GraphSound(bundle, graph)
  /\ pass = "graph" => GraphWalk(bundle, graph, stack)
  /\ VerdictTyped /\ RootChosen

-----------------------------------------------------------------------------
(* The walk over the bodies: which calls of a process it has noted.          *)
ClosedFromRoot(S) == RootId \in S /\ \A e \in BodyEdges : e[1] \in S => e[2] \in S

BodyWalks(b) ==
  [queue : Seq(Ids(b)), at : Nat \ {0}, order : Seq(Ids(b)),
   callers : [Ids(b) -> Seq(Ids(b) \X CallNames(b))]]

VisitedBy(y) == {RootId} \cup ToSet(y.order)
Noted(y, id, c) == c[2] \in VisitedBy(y) /\ <<id, c[1]>> \in ToSet(y.callers[c[2]])

BodiesWalk(y) ==
  /\ ToSet(y.queue) \subseteq VisitedBy(y)
  /\ \A S \in SUBSET Ids(bundle) : ClosedFromRoot(S) => VisitedBy(y) \subseteq S
  /\ \A id \in VisitedBy(y) \ ToSet(y.queue) : \A c \in BodyCalls(id) : Noted(y, id, c)
  /\ y.queue # <<>> =>
       \A k \in DOMAIN Walked(Head(y.queue)).calls :
         k < y.at /\ Followed(Walked(Head(y.queue)).calls[k]) =>
           Noted(y, Head(y.queue), Walked(Head(y.queue)).calls[k])
  /\ \A x \in Ids(bundle) : \A n \in ToSet(y.callers[x]) :
       n[1] \in VisitedBy(y) /\ \E c \in BodyCalls(n[1]) : c[1] = n[2] /\ c[2] = x

BodiesInv ==
  Rooted => /\ bodies \in BodyWalks(bundle) /\ BodiesWalk(bodies)
            /\ pass # "bodies" => bodies.queue = <<>>

-----------------------------------------------------------------------------
(* The bodies that lead to id through bundled callers outside V, and the     *)
(* calls of the author's processes into them.                                *)
Asking(x, p) == \E n \in ToSet(bodies.callers[x]) : n[1] = p /\ Library(bundle, p)
ClosedBack(S, V) == \A x \in S : \A p \in Ids(bundle) : Asking(x, p) /\ p \notin V => p \in S
Back(id, V) ==
  {x \in Ids(bundle) : \A S \in SUBSET Ids(bundle) : id \in S /\ ClosedBack(S, V) => x \in S}
AuthorCallsInto(x) == {n[2] : n \in {m \in ToSet(bodies.callers[x]) : ~Library(bundle, m[1])}}
RoutesTo(id, V) == UNION {AuthorCallsInto(x) : x \in Back(id, V)}

(* A call of routes that has not returned.  What it found is enough for the  *)
(* callers it passed, but for what the searches below it will find; all of   *)
(* it when no cycle was cut.                                                 *)
Searches ==
  [id : Ids(bundle), at : Nat \ {0}, found : SUBSET CallNames(bundle), complete : BOOLEAN]
UpTo(s, i) == {s[j].id : j \in 1..i}
Passed(f, V, c) ==
  /\ ~Library(bundle, c[1]) => c[2] \in f.found
  /\ Library(bundle, c[1]) =>
       /\ c[1] \notin V => RoutesTo(c[1], V) \subseteq f.found
       /\ f.complete => RoutesTo(c[1], {}) \subseteq f.found
SearchSound(f, V) ==
  /\ Library(bundle, f.id) /\ f.at =< Len(bodies.callers[f.id]) + 1
  /\ f.found \subseteq RoutesTo(f.id, {})
  /\ \A k \in DOMAIN bodies.callers[f.id] : k < f.at => Passed(f, V, bodies.callers[f.id][k])

RoutesWalk(s) ==
  /\ s \in Seq(Searches) /\ IsDistinct(s)
  /\ \A i \in DOMAIN s : SearchSound(s[i], UpTo(s, i))
  /\ \A i \in 1..(Len(s) - 1) :
       /\ s[i].at \in DOMAIN bodies.callers[s[i].id]
       /\ bodies.callers[s[i].id][s[i].at][1] = s[i + 1].id

Memos == [turn : Nat \ {0}, memo : SUBSET (Ids(bundle) \X SUBSET CallNames(bundle))]
MemoSound(r) == \A m \in r.memo : m[2] = RoutesTo(m[1], {})
TurnsDone(turn, v) ==
  /\ \A t \in DOMAIN bodies.order : t < turn =>
       LET id == bodies.order[t]
           own == OwnIssues(bundle, ProcessOf(bundle, id))
       IN /\ ~Library(bundle, id) => own \subseteq v.issues
          /\ Library(bundle, id) => Attributed(id, RoutesTo(id, {})) \subseteq v.inside
  /\ \A j \in v.inside : j[3] \in ToSet(bodies.order) /\ j[2] \in RoutesTo(j[3], {})

RoutesInv ==
  Rooted /\ pass \notin {"graph", "bodies"} =>
    /\ routes \in Memos /\ MemoSound(routes) /\ TurnsDone(routes.turn, verdict)
    /\ pass = "routes" =>
         RoutesWalk(stack) /\ (stack # <<>> => routes.turn \in DOMAIN bodies.order /\ stack[1].id = Turn)
    /\ pass \in {"validated", "compile", "compiled"} => routes.turn > Len(bodies.order)

-----------------------------------------------------------------------------
(* The compilation of an accepted document of which a process of the author  *)
(* runs: what is claimed and not put is on the stack, and nothing that was   *)
(* passed is.                                                                *)
MainName ==
  IF bundle[verdict.root].name = "" THEN RootId ELSE bundle[verdict.root].name
Plannings ==
  [main : {MainName}, claimed : SUBSET Ids(bundle), put : Seq(Ids(bundle)), early : {{}}]
PlansSound(y) ==
  /\ \A i, j \in DOMAIN y.put : y.put[i] = y.put[j] => i = j
  /\ ToSet(y.put) \subseteq RunningBodies \ {RootId}
  /\ \A id \in ToSet(y.put) :
       \A k \in DOMAIN ProcessOf(bundle, id).calls : Target(bundle, id, k) \in ToSet(y.put)

Compilations == [id : Ids(bundle), at : Nat \ {0}]
CompileSound(y, f) ==
  /\ f.id \in RunningBodies \ ToSet(y.put)
  /\ \A k \in DOMAIN ProcessOf(bundle, f.id).calls :
       k < f.at => Target(bundle, f.id, k) \in ToSet(y.put)
Claimed(s) == {s[i].id : i \in 2..Len(s)}
CompileWalk(y, s) ==
  /\ s \in Seq(Compilations) /\ s # <<>> /\ IsDistinct(s) /\ s[1].id = RootId
  /\ \A i \in DOMAIN s : CompileSound(y, s[i])
  /\ \A i \in 1..(Len(s) - 1) :
       /\ s[i].at \in DOMAIN ProcessOf(bundle, s[i].id).calls
       /\ Target(bundle, s[i].id, s[i].at) = s[i + 1].id
  /\ y.claimed = ToSet(y.put) \cup Claimed(s)

CompileInv ==
  /\ pass \in {"graph", "bodies", "routes", "validated"} => plans = NoPlans
  /\ pass \in {"compile", "compiled"} => Accepted
  /\ pass \in {"compile", "compiled"} /\ ~Library(bundle, RootId) =>
       plans \in Plannings /\ PlansSound(plans)
  /\ pass = "compile" /\ ~Library(bundle, RootId) => CompileWalk(plans, stack)
  /\ pass = "compiled" /\ ~Library(bundle, RootId) =>
       \A k \in DOMAIN ProcessOf(bundle, RootId).calls : Target(bundle, RootId, k) \in ToSet(plans.put)

CallGraphInv == GraphInv /\ BodiesInv /\ RoutesInv /\ CompileInv
-----------------------------------------------------------------------------
(* The first process of an id is one of the document, with what the parser   *)
(* gives it.                                                                 *)
LEMMA LeastIsThere ==
  ASSUME NEW S, S \subseteq Nat, S # {}
  PROVE  Min(S) \in S /\ \A y \in S : Min(S) =< y
<1>1. PICK x \in S : \A y \in S : ~(<<y, x>> \in OpToRel(<, Nat))
  BY WFMin, NatLessThanWellFounded
<1>2. \A y \in S : ~(y < x)
  BY <1>1 DEF OpToRel
<1>3. \A y \in S : x =< y
  BY <1>2
<1> QED
  BY <1>3 DEF Min

LEMMA ProcessIsThere ==
  ASSUME NEW b, IsBundle(b), NEW id \in Ids(b)
  PROVE  \E i \in DOMAIN b : ProcessOf(b, id) = b[i] /\ b[i].id = id
<1> DEFINE places == {i \in DOMAIN b : b[i].id = id}
<1>1. DOMAIN b \subseteq Nat
  BY DEF IsBundle
<1>2. places \subseteq Nat /\ places # {}
  BY <1>1 DEF Ids
<1>3. Min(places) \in places
  BY <1>2, LeastIsThere
<1> QED
  BY <1>3 DEF ProcessOf

LEMMA ProcessTyped ==
  ASSUME NEW b, IsBundle(b), NEW id \in Ids(b)
  PROVE  /\ ProcessOf(b, id).id = id
         /\ ProcessOf(b, id).tasks \in Nat
         /\ ProcessOf(b, id).calls \in Seq(ToSet(ProcessOf(b, id).calls))
         /\ ProcessOf(b, id).ignored \in BOOLEAN
         /\ ProcessOf(b, id).started \in BOOLEAN
         /\ Library(b, id) \in BOOLEAN
<1>1. PICK i \in DOMAIN b : ProcessOf(b, id) = b[i] /\ b[i].id = id
  BY ProcessIsThere
<1>2. b[i].tasks \in Nat /\ b[i].calls \in Seq({b[i].calls[k] : k \in DOMAIN b[i].calls})
  BY DEF IsBundle
<1>3. {b[i].calls[k] : k \in DOMAIN b[i].calls} = ToSet(b[i].calls)
  BY DEF ToSet
<1>4. \A f \in {"started", "executable", "ignored", "library"} : b[i][f] \in BOOLEAN
  BY DEF IsBundle
<1>5. b[i].started \in BOOLEAN /\ b[i].ignored \in BOOLEAN /\ b[i].library \in BOOLEAN
  BY <1>4
<1> QED
  BY <1>1, <1>2, <1>3, <1>5 DEF Library

LEMMA OnlyProcess ==
  ASSUME NEW b, IsBundle(b), DuplicateIds(b) = {}
  PROVE  \A i \in DOMAIN b : ProcessOf(b, b[i].id) = b[i]
<1> SUFFICES ASSUME NEW i \in DOMAIN b PROVE ProcessOf(b, b[i].id) = b[i]
  OBVIOUS
<1>1. b[i].id \in Ids(b)
  BY DEF Ids
<1>2. PICK j \in DOMAIN b : ProcessOf(b, b[i].id) = b[j] /\ b[j].id = b[i].id
  BY <1>1, ProcessIsThere
<1>3. DOMAIN b = 1..Len(b) /\ Len(b) \in Nat
  BY DEF IsBundle
<1>4. ASSUME NEW x \in DOMAIN b, NEW y \in DOMAIN b, x < y PROVE b[x].id # b[y].id
  <2>1. x \in 1..(y - 1)
    BY <1>3, <1>4
  <2> QED
    BY <2>1 DEF DuplicateIds
<1>5. i = j
  BY <1>2, <1>3, <1>4
<1> QED
  BY <1>2, <1>5

(* Nothing else of the document has the id of a bundled process.             *)
LEMMA BundledIsOnly ==
  ASSUME NEW b, IsBundle(b), NEW i \in DOMAIN b, Library(b, b[i].id)
  PROVE  ProcessOf(b, b[i].id) = b[i]
<1>1. b[i].id \in Ids(b)
  BY DEF Ids
<1>2. PICK j \in DOMAIN b : ProcessOf(b, b[i].id) = b[j] /\ b[j].id = b[i].id
  BY <1>1, ProcessIsThere
<1>3. b[j].library
  BY <1>2 DEF Library
<1> QED
  BY <1>2, <1>3 DEF IsBundle

LEMMA SitesAreCalls ==
  ASSUME NEW b, IsBundle(b), NEW id \in Ids(b), NEW k \in SitesOf(b, id)
  PROVE  /\ k \in Nat \ {0} /\ k \in 1..Len(ProcessOf(b, id).calls)
         /\ Target(b, id, k) \in Ids(b)
<1>1. ProcessOf(b, id).calls \in Seq(ToSet(ProcessOf(b, id).calls))
  BY ProcessTyped
<1>2. k \in 1..Len(ProcessOf(b, id).calls) /\ Len(ProcessOf(b, id).calls) \in Nat
  BY <1>1 DEF SitesOf
<1>3. Target(b, id, k) \in Ids(b)
  BY DEF SitesOf, Target, Counted, IsCall
<1> QED
  BY <1>2, <1>3

LEMMA CallIsNamed ==
  ASSUME NEW b, NEW i \in DOMAIN b, NEW k \in DOMAIN b[i].calls
  PROVE  b[i].calls[k] \in ToSet(b[i].calls) /\ b[i].calls[k][1] \in CallNames(b)
  BY DEF CallNames, ToSet

LEMMA IdsAreFinite ==
  ASSUME NEW b, IsBundle(b)
  PROVE  IsFiniteSet(Ids(b))
<1>1. DOMAIN b = 1..Len(b) /\ Len(b) \in Nat
  BY DEF IsBundle
<1>2. IsFiniteSet(DOMAIN b)
  BY <1>1, FS_Interval
<1> DEFINE f == [i \in DOMAIN b |-> b[i].id]
<1>3. f \in Surjection(DOMAIN b, Ids(b))
  BY DEF Surjection, Ids
<1> QED
  BY <1>2, <1>3, FS_Surjection

-----------------------------------------------------------------------------
(* The calls of a function that have not returned, as a stack: its top, what *)
(* is below it, and what becomes of it in a step.                            *)
LEMMA Places ==
  ASSUME NEW n \in Nat \ {0}
  PROVE  /\ \A i \in 1..n : i = n \/ i \in 1..(n - 1)
         /\ \A i \in 1..(n - 1) : i \in 1..n /\ i # n
  OBVIOUS

LEMMA TopIsThere ==
  ASSUME NEW S, NEW s \in Seq(S), s # <<>>
  PROVE  /\ Len(s) \in Nat \ {0} /\ Len(s) \in DOMAIN s /\ DOMAIN s = 1..Len(s)
         /\ Last(s) = s[Len(s)] /\ Last(s) \in S
  BY EmptySeq DEF Last

LEMMA FrontIsRest ==
  ASSUME NEW S, NEW s \in Seq(S), s # <<>>
  PROVE  /\ Front(s) \in Seq(S) /\ Len(Front(s)) = Len(s) - 1
         /\ DOMAIN Front(s) = 1..(Len(s) - 1)
         /\ \A i \in 1..(Len(s) - 1) : Front(s)[i] = s[i]
<1>1. Len(s) \in Nat \ {0} /\ \A i \in 1..(Len(s) - 1) : s[i] \in S
  BY TopIsThere
<1>2. PICK t : t = Front(s)
  OBVIOUS
<1>3. t = SubSeq(s, 1, Len(s) - 1)
  BY <1>2 DEF Front
<1> DEFINE n == Len(s) - 1
<1>4. n \in Int /\ 1 \in Int /\ n \in Nat /\ \A i \in 1..n : s[i] \in S
  BY <1>1
<1> HIDE DEF n
<1>5. /\ SubSeq(s, 1, n) \in Seq(S)
      /\ Len(SubSeq(s, 1, n)) = IF 1 =< n THEN n - 1 + 1 ELSE 0
      /\ \A i \in 1..(n - 1 + 1) : SubSeq(s, 1, n)[i] = s[1 + i - 1]
  BY <1>4, SubSeqProperties
<1>6. n - 1 + 1 = n /\ (IF 1 =< n THEN n ELSE 0) = n
  BY <1>4
<1>7. \A i \in 1..n : 1 + i - 1 = i
  BY <1>4
<1>8. t \in Seq(S) /\ Len(t) = n
  BY <1>3, <1>5, <1>6, Zenon DEF n
<1>9. \A i \in 1..n : t[i] = s[i]
  BY <1>3, <1>5, <1>6, <1>7, Zenon DEF n
<1>10. DOMAIN t = 1..n
  BY <1>4, <1>8
<1> QED
  BY <1>2, <1>8, <1>9, <1>10 DEF n

LEMMA TopReplaced ==
  ASSUME NEW S, NEW s \in Seq(S), s # <<>>, NEW f \in S
  PROVE  LET t == [s EXCEPT ![Len(s)] = f]
         IN /\ t \in Seq(S) /\ Len(t) = Len(s) /\ DOMAIN t = 1..Len(s)
            /\ t[Len(s)] = f /\ Last(t) = f
            /\ \A i \in 1..(Len(s) - 1) : t[i] = s[i]
<1>1. Len(s) \in Nat \ {0} /\ Len(s) \in 1..Len(s)
  BY TopIsThere
<1> QED
  BY <1>1, ExceptSeq DEF Last

LEMMA Pushed ==
  ASSUME NEW S, NEW s \in Seq(S), NEW f \in S
  PROVE  /\ Append(s, f) \in Seq(S) /\ Len(Append(s, f)) = Len(s) + 1
         /\ DOMAIN Append(s, f) = 1..(Len(s) + 1)
         /\ Append(s, f)[Len(s) + 1] = f
         /\ \A i \in 1..Len(s) : Append(s, f)[i] = s[i]
  BY AppendProperties

-----------------------------------------------------------------------------
(* The ways of a process, as sequences of sites: each begins with a call of  *)
(* it, and goes on as a way of the process called.                           *)
Most(b) == Cardinality(Ids(b))

LEMMA WaysAre ==
  ASSUME NEW b, NEW id, NEW w, Most(b) \in Nat
  PROVE  w \in Ways(b, id) <=>
           /\ w \in Seq(Sites(b)) /\ Len(w) \in 1..Most(b) /\ w[1][1] = id
           /\ \A j \in 1..(Len(w) - 1) : TargetOf(b, w[j]) = w[j + 1][1]
<1> DEFINE some == UNION {[1..n -> Sites(b)] : n \in 1..Most(b)}
<1>1. w \in some => w \in Seq(Sites(b)) /\ Len(w) \in 1..Most(b)
  <2> SUFFICES ASSUME NEW n \in 1..Most(b), w \in [1..n -> Sites(b)]
               PROVE  w \in Seq(Sites(b)) /\ Len(w) \in 1..Most(b)
    OBVIOUS
  <2>1. n \in Nat
    OBVIOUS
  <2>2. w \in Seq(Sites(b))
    BY <2>1, SeqDef
  <2>3. Len(w) \in Nat /\ 1..Len(w) = 1..n
    BY <2>2, LenProperties
  <2>4. Len(w) = n
    BY <2>1, <2>3
  <2> QED
    BY <2>2, <2>4
<1>2. w \in Seq(Sites(b)) /\ Len(w) \in 1..Most(b) => w \in some
  <2> SUFFICES ASSUME w \in Seq(Sites(b)), Len(w) \in 1..Most(b) PROVE w \in some
    OBVIOUS
  <2>1. w \in [1..Len(w) -> Sites(b)]
    BY LenProperties
  <2> QED
    BY <2>1
<1>3. w \in Ways(b, id) <=> w \in some /\ w[1][1] = id
                              /\ \A j \in 1..(Len(w) - 1) : TargetOf(b, w[j]) = w[j + 1][1]
  BY Zenon DEF Ways, Most
<1> QED
  BY <1>1, <1>2, <1>3

LEMMA SitesAre ==
  ASSUME NEW b, NEW s
  PROVE  s \in Sites(b) <=> \E id \in Ids(b) : \E k \in SitesOf(b, id) : s = <<id, k>>
  BY DEF Sites, SitesOf

LEMMA TargetOfIs ==
  ASSUME NEW b, NEW id, NEW k
  PROVE  TargetOf(b, <<id, k>>) = Target(b, id, k)
  BY DEF TargetOf, Target

LEMMA Prefixed ==
  ASSUME NEW S, NEW x \in S, NEW w \in Seq(S)
  PROVE  /\ <<x>> \o w \in Seq(S) /\ Len(<<x>> \o w) = Len(w) + 1
         /\ (<<x>> \o w)[1] = x
         /\ \A i \in 1..Len(w) : (<<x>> \o w)[i + 1] = w[i]
<1> DEFINE s == <<x>>
           v == s \o w
<1>1. s \in Seq(S) /\ Len(s) = 1 /\ s[1] = x /\ Len(w) \in Nat
  OBVIOUS
<1> HIDE DEF s
<1>2. /\ v \in Seq(S) /\ Len(v) = Len(s) + Len(w)
      /\ \A i \in 1..(Len(s) + Len(w)) : v[i] = IF i <= Len(s) THEN s[i] ELSE w[i - Len(s)]
  BY <1>1, ConcatProperties
<1> HIDE DEF v
<1>3. Len(v) = Len(w) + 1 /\ 1 \in 1..(Len(s) + Len(w)) /\ 1 <= Len(s)
  BY <1>1, <1>2
<1>4. v[1] = x
  BY <1>1, <1>2, <1>3
<1>5. ASSUME NEW i \in 1..Len(w) PROVE v[i + 1] = w[i]
  <2>1. i + 1 \in 1..(Len(s) + Len(w)) /\ ~(i + 1 <= Len(s)) /\ i + 1 - Len(s) = i
    BY <1>1
  <2> QED
    BY <1>2, <2>1
<1> QED
  BY <1>2, <1>3, <1>4, <1>5 DEF v, s

LEMMA CallIsWay ==
  ASSUME NEW b, IsBundle(b), NEW id \in Ids(b), NEW k \in SitesOf(b, id)
  PROVE  <<<<id, k>>>> \in Ways(b, id)
<1>1. IsFiniteSet(Ids(b)) /\ Ids(b) # {}
  BY IdsAreFinite
<1>2. Most(b) \in Nat /\ Most(b) # 0
  BY <1>1, FS_CardinalityType, FS_EmptySet DEF Most
<1>3. <<id, k>> \in Sites(b)
  BY SitesAre
<1> DEFINE w == <<<<id, k>>>>
<1>4. w \in Seq(Sites(b)) /\ Len(w) = 1 /\ w[1] = <<id, k>>
  BY <1>3
<1>5. w[1][1] = id /\ Len(w) \in 1..Most(b) /\ 1..(Len(w) - 1) = {}
  BY <1>2, <1>4
<1> HIDE DEF w
<1>6. w \in Ways(b, id)
  BY <1>2, <1>4, <1>5, WaysAre
<1> QED
  BY <1>6 DEF w

LEMMA WayGrows ==
  ASSUME NEW b, IsBundle(b), NEW id \in Ids(b), NEW k \in SitesOf(b, id),
         NEW w \in Ways(b, Target(b, id, k)), Len(w) < Most(b)
  PROVE  /\ <<<<id, k>>>> \o w \in Ways(b, id)
         /\ (<<<<id, k>>>> \o w)[1] = <<id, k>>
         /\ LET v == <<<<id, k>>>> \o w IN v[Len(v)] = w[Len(w)] /\ Len(v) = Len(w) + 1
<1>1. Most(b) \in Nat
  BY IdsAreFinite, FS_CardinalityType DEF Most
<1> DEFINE v == <<<<id, k>>>> \o w
<1>2. <<id, k>> \in Sites(b)
  BY SitesAre
<1>3. /\ w \in Seq(Sites(b)) /\ Len(w) \in 1..Most(b) /\ w[1][1] = Target(b, id, k)
      /\ \A j \in 1..(Len(w) - 1) : TargetOf(b, w[j]) = w[j + 1][1]
  BY <1>1, WaysAre
<1>4. v \in Seq(Sites(b)) /\ Len(v) = 1 + Len(w)
  BY <1>2, <1>3, Prefixed
<1>5. v[1] = <<id, k>> /\ \A i \in 1..Len(w) : v[i + 1] = w[i]
  BY <1>2, <1>3, Prefixed
<1> HIDE DEF v
<1>6. ASSUME NEW j \in 1..(Len(v) - 1) PROVE TargetOf(b, v[j]) = v[j + 1][1]
  <2>1. CASE j = 1
    <3>1. TargetOf(b, v[1]) = Target(b, id, k)
      BY <1>5, TargetOfIs
    <3>2. 1 \in 1..Len(w)
      BY <1>3
    <3>3. v[1 + 1] = w[1]
      BY <1>5, <3>2
    <3> QED
      BY <1>3, <2>1, <3>1, <3>3
  <2>2. CASE j # 1
    <3>1. j - 1 \in 1..(Len(w) - 1) /\ j - 1 \in 1..Len(w) /\ j \in 1..Len(w) /\ j - 1 + 1 = j
      BY <1>3, <1>4, <2>2
    <3>2. v[j - 1 + 1] = w[j - 1] /\ v[j + 1] = w[j]
      BY <1>5, <3>1
    <3>3. TargetOf(b, w[j - 1]) = w[j - 1 + 1][1]
      BY <1>3, <3>1
    <3> QED
      BY <3>1, <3>2, <3>3
  <2> QED
    BY <2>1, <2>2
<1>7. Len(v) \in 1..Most(b) /\ v[1][1] = id
  BY <1>1, <1>3, <1>4, <1>5
<1>8. v \in Ways(b, id)
  BY <1>1, <1>4, <1>6, <1>7, WaysAre
<1>9. v[Len(v)] = w[Len(w)] /\ Len(v) = Len(w) + 1
  <2>1. Len(w) \in 1..Len(w) /\ Len(v) = Len(w) + 1
    BY <1>3, <1>4
  <2> QED
    BY <1>5, <2>1
<1> QED
  BY <1>5, <1>8, <1>9 DEF v

(* A way begins with a call of the process; the rest is a way of the called. *)
LEMMA WayStarts ==
  ASSUME NEW b, IsBundle(b), NEW id \in Ids(b), NEW w \in Ways(b, id)
  PROVE  \E k \in SitesOf(b, id) : w[1] = <<id, k>>
<1>1. Most(b) \in Nat
  BY IdsAreFinite, FS_CardinalityType DEF Most
<1>2. w \in Seq(Sites(b)) /\ Len(w) \in 1..Most(b) /\ w[1][1] = id
  BY <1>1, WaysAre
<1>3. w[1] \in Sites(b)
  BY <1>1, <1>2
<1>4. PICK p \in Ids(b) : \E k \in SitesOf(b, p) : w[1] = <<p, k>>
  BY <1>3, SitesAre
<1>5. PICK k \in SitesOf(b, p) : w[1] = <<p, k>>
  BY <1>4
<1> QED
  BY <1>2, <1>5

LEMMA WaySplits ==
  ASSUME NEW b, IsBundle(b), NEW id \in Ids(b), NEW w \in Ways(b, id),
         NEW k \in SitesOf(b, id), w[1] = <<id, k>>
  PROVE  \/ Len(w) = 1 /\ w = <<<<id, k>>>>
         \/ \E t \in Ways(b, Target(b, id, k)) :
              w = <<<<id, k>>>> \o t /\ Len(w) = Len(t) + 1 /\ w[Len(w)] = t[Len(t)]
<1>1. Most(b) \in Nat
  BY IdsAreFinite, FS_CardinalityType DEF Most
<1>2. /\ w \in Seq(Sites(b)) /\ Len(w) \in 1..Most(b) /\ w[1][1] = id
      /\ \A j \in 1..(Len(w) - 1) : TargetOf(b, w[j]) = w[j + 1][1]
  BY <1>1, WaysAre
<1>3. w[1] = <<id, k>> /\ <<id, k>> \in Sites(b)
  BY SitesAre
<1> DEFINE s == <<<<id, k>>>>
<1>4. s \in Seq(Sites(b)) /\ Len(s) = 1 /\ s[1] = <<id, k>>
  BY <1>3, SitesAre
<1> HIDE DEF s
<1>5. CASE Len(w) = 1
  <2>1. w = s
    BY <1>2, <1>3, <1>4, <1>5, SeqEqual
  <2> QED
    BY <1>3, <1>5, <2>1 DEF s
<1>6. CASE Len(w) # 1
  <2>1. Len(w) \in Nat /\ Len(w) - 1 \in 1..Most(b)
    <3>1. \A n \in 1..Most(b) : n # 1 => n \in Nat /\ n - 1 \in 1..Most(b)
      BY <1>1
    <3> QED
      BY <1>2, <1>6, <3>1
  <2>2. w # <<>>
    BY <1>2, <1>6, EmptySeq
  <2> DEFINE t == Tail(w)
  <2>3. /\ t \in Seq(Sites(b)) /\ Len(t) = Len(w) - 1
        /\ \A i \in 1..(Len(w) - 1) : t[i] = w[i + 1]
    BY <1>2, <2>2, HeadTailProperties
  <2> HIDE DEF t
  <2>4. /\ s \o t \in Seq(Sites(b)) /\ Len(s \o t) = Len(t) + 1
        /\ (s \o t)[1] = <<id, k>> /\ \A i \in 1..Len(t) : (s \o t)[i + 1] = t[i]
    BY <1>3, <2>3, Prefixed DEF s
  <2>5. Len(s \o t) = Len(w)
    BY <2>1, <2>3, <2>4
  <2>6. ASSUME NEW i \in 1..Len(w) PROVE w[i] = (s \o t)[i]
    <3>1. CASE i = 1
      BY <1>3, <2>4, <3>1
    <3>2. CASE i # 1
      <4>1. i - 1 \in 1..(Len(w) - 1) /\ i - 1 + 1 = i /\ i - 1 \in 1..Len(t)
        BY <2>1, <2>3, <3>2
      <4> QED
        BY <2>3, <2>4, <4>1
    <3> QED
      BY <3>1, <3>2
  <2>7. w = s \o t
    BY <1>2, <2>4, <2>5, <2>6, SeqEqual
  <2>8. ASSUME NEW j \in 1..(Len(t) - 1) PROVE TargetOf(b, t[j]) = t[j + 1][1]
    <3>1. j \in 1..(Len(w) - 1) /\ j + 1 \in 1..(Len(w) - 1)
      BY <2>1, <2>3
    <3> QED
      BY <1>2, <2>3, <3>1
  <2>9. t[1][1] = Target(b, id, k)
    <3>1. 1 \in 1..(Len(w) - 1)
      BY <1>1, <2>1
    <3>2. TargetOf(b, w[1]) = w[1 + 1][1] /\ t[1] = w[1 + 1]
      BY <1>2, <2>3, <3>1
    <3> QED
      BY <1>3, <3>2, TargetOfIs
  <2>10. t \in Ways(b, Target(b, id, k))
    BY <1>1, <2>1, <2>3, <2>8, <2>9, WaysAre
  <2>11. Len(w) = Len(t) + 1 /\ w[Len(w)] = t[Len(t)]
    <3>1. Len(w) - 1 \in 1..(Len(w) - 1) /\ Len(w) - 1 + 1 = Len(w)
      BY <1>1, <1>2, <2>1
    <3> QED
      BY <2>3, <3>1
  <2> QED
    BY <1>3, <2>7, <2>10, <2>11 DEF s
<1> QED
  BY <1>5, <1>6

-----------------------------------------------------------------------------
(* What a process expands to, call by call: a call adds itself and all that  *)
(* the process called expands to, under one more call.                       *)
LEMMA ExpansionIs ==
  ASSUME NEW b, NEW id, NEW e
  PROVE  e \in Expansion(b, id) <=>
           \/ \E n \in 1..ProcessOf(b, id).tasks : e = <<<<>>, n>>
           \/ \E w \in Ways(b, id) : \E n \in 0..ProcessOf(b, TargetOf(b, w[Len(w)])).tasks : e = <<w, n>>
<1> DEFINE own == {<<<<>>, n>> : n \in 1..ProcessOf(b, id).tasks}
           led(w) == {<<w, n>> : n \in 0..ProcessOf(b, TargetOf(b, w[Len(w)])).tasks}
<1>1. e \in Expansion(b, id) <=> e \in own \/ \E w \in Ways(b, id) : e \in led(w)
  BY DEF Expansion
<1> QED
  BY <1>1

LEMMA WaysAreNotEmpty ==
  ASSUME NEW b, IsBundle(b), NEW id, NEW w \in Ways(b, id)
  PROVE  w # <<>> /\ w \in Seq(Sites(b))
<1>1. Most(b) \in Nat
  BY IdsAreFinite, FS_CardinalityType DEF Most
<1>2. w \in Seq(Sites(b)) /\ Len(w) \in 1..Most(b)
  BY <1>1, WaysAre
<1>3. \A n \in 1..Most(b) : n # 0
  BY <1>1
<1> QED
  BY <1>2, <1>3, EmptySeq

LEMMA StartExpands ==
  ASSUME NEW b, IsBundle(b), NEW id \in Ids(b)
  PROVE  Counts(ExpandedTo(b, id, 1), ProcessOf(b, id).tasks)
<1> DEFINE T == 1..ProcessOf(b, id).tasks
           E == ExpandedTo(b, id, 1)
           f == [n \in T |-> <<<<>>, n>>]
<1>1. ProcessOf(b, id).tasks \in Nat
  BY ProcessTyped
<1>2. ASSUME NEW e \in E PROVE \E n \in T : e = <<<<>>, n>>
  <2>1. e \in Expansion(b, id) /\ (e[1] # <<>> => e[1][1][2] < 1)
    BY DEF ExpandedTo
  <2>2. ASSUME NEW w \in Ways(b, id), NEW n, e = <<w, n>> PROVE FALSE
    <3>1. PICK k \in SitesOf(b, id) : w[1] = <<id, k>>
      BY WayStarts
    <3>2. w # <<>> /\ k \in Nat \ {0}
      BY WaysAreNotEmpty, SitesAreCalls
    <3>3. e[1] = w /\ e[1][1][2] = k
      BY <2>2, <3>1
    <3> QED
      BY <2>1, <3>2, <3>3
  <2> QED
    BY <2>1, <2>2, ExpansionIs
<1>3. ASSUME NEW n \in T PROVE <<<<>>, n>> \in E
  BY ExpansionIs DEF ExpandedTo
<1>4. f \in Bijection(T, E)
  <2>1. f \in [T -> E]
    BY <1>3
  <2>2. \A x, y \in T : f[x] = f[y] => x = y
    OBVIOUS
  <2>3. \A e \in E : \E n \in T : f[n] = e
    BY <1>2
  <2> QED
    BY <2>1, <2>2, <2>3, Fun_IsBij
<1>5. IsFiniteSet(T) /\ Cardinality(T) = ProcessOf(b, id).tasks
  <2>1. PICK n \in Nat : n = ProcessOf(b, id).tasks
    BY <1>1
  <2>2. IsFiniteSet(1..n) /\ Cardinality(1..n) = IF 1 > n THEN 0 ELSE n - 1 + 1
    BY FS_Interval
  <2>3. Cardinality(1..n) = n
    BY <2>2
  <2> QED
    BY <2>1, <2>2, <2>3
<1>6. ExistsBijection(T, E)
  BY <1>4, Fun_ExistsBij
<1> QED
  BY <1>5, <1>6, FS_Bijection DEF Counts

LEMMA EndExpands ==
  ASSUME NEW b, IsBundle(b), NEW id \in Ids(b), NEW k \in Nat,
         k > Len(ProcessOf(b, id).calls)
  PROVE  ExpandedTo(b, id, k) = Expansion(b, id)
<1>1. ASSUME NEW e \in Expansion(b, id), e[1] # <<>> PROVE e[1][1][2] < k
  <2>1. PICK w \in Ways(b, id) : e[1] = w
    BY <1>1, ExpansionIs
  <2>2. PICK j \in SitesOf(b, id) : w[1] = <<id, j>>
    BY WayStarts
  <2>3. j \in 1..Len(ProcessOf(b, id).calls) /\ Len(ProcessOf(b, id).calls) \in Nat
    BY SitesAreCalls, ProcessTyped
  <2> QED
    BY <2>1, <2>2, <2>3
<1> QED
  BY <1>1 DEF ExpandedTo

LEMMA NoCallExpands ==
  ASSUME NEW b, IsBundle(b), NEW id \in Ids(b), NEW k \in Nat, k \notin SitesOf(b, id)
  PROVE  ExpandedTo(b, id, k + 1) = ExpandedTo(b, id, k)
<1>1. ASSUME NEW e \in Expansion(b, id), e[1] # <<>>
      PROVE  e[1][1][2] < k + 1 <=> e[1][1][2] < k
  <2>1. PICK w \in Ways(b, id) : e[1] = w
    BY <1>1, ExpansionIs
  <2>2. PICK j \in SitesOf(b, id) : w[1] = <<id, j>>
    BY WayStarts
  <2>3. j \in Nat /\ j # k
    BY SitesAreCalls
  <2> QED
    BY <2>1, <2>2, <2>3
<1> QED
  BY <1>1 DEF ExpandedTo

(* The elements under one more call.                                         *)
Under(s, e) == <<<<s>> \o e[1], e[2]>>
AllUnder(b, s, id) == {Under(s, e) : e \in Expansion(b, id)}

LEMMA UnderOneCall ==
  ASSUME NEW b, IsBundle(b), NEW id \in Ids(b), NEW k \in SitesOf(b, id),
         NEW n \in Nat, Counts(Expansion(b, Target(b, id, k)), n)
  PROVE  /\ Counts(AllUnder(b, <<id, k>>, Target(b, id, k)), n)
         /\ <<<<<<id, k>>>>, 0>> \notin AllUnder(b, <<id, k>>, Target(b, id, k))
         /\ \A e \in Expansion(b, Target(b, id, k)) :
              Under(<<id, k>>, e)[1] # <<>> /\ Under(<<id, k>>, e)[1][1] = <<id, k>>
<1> DEFINE s == <<id, k>>
           t == Target(b, id, k)
           E == Expansion(b, t)
           G == AllUnder(b, s, t)
           f == [e \in E |-> Under(s, e)]
<1>1. s \in Sites(b)
  BY SitesAre
<1>2. t \in Ids(b) /\ ProcessOf(b, t).tasks \in Nat
  BY SitesAreCalls, ProcessTyped
<1>3. ASSUME NEW e \in E
      PROVE  e = <<e[1], e[2]>> /\ e[1] \in Seq(Sites(b)) /\ (e[1] = <<>> => e[2] # 0)
  <2>1. CASE \E i \in 1..ProcessOf(b, t).tasks : e = <<<<>>, i>>
    <3>1. PICK i \in 1..ProcessOf(b, t).tasks : e = <<<<>>, i>>
      BY <2>1
    <3>2. e[1] = <<>> /\ e[2] = i /\ i # 0
      BY <1>2, <3>1
    <3> QED
      BY <3>1, <3>2, EmptySeq
  <2>2. CASE \E w \in Ways(b, t) : \E i \in 0..ProcessOf(b, TargetOf(b, w[Len(w)])).tasks : e = <<w, i>>
    <3>1. PICK w \in Ways(b, t) : \E i : e = <<w, i>>
      BY <2>2
    <3>2. PICK i : e = <<w, i>>
      BY <3>1
    <3>3. w # <<>> /\ w \in Seq(Sites(b)) /\ e[1] = w /\ e[2] = i
      BY <3>2, WaysAreNotEmpty
    <3> QED
      BY <3>2, <3>3
  <2> QED
    BY <2>1, <2>2, ExpansionIs
<1>4. ASSUME NEW e \in E
      PROVE  /\ Under(s, e)[1] = <<s>> \o e[1] /\ Under(s, e)[2] = e[2]
             /\ Len(<<s>> \o e[1]) = Len(e[1]) + 1 /\ (<<s>> \o e[1])[1] = s
             /\ \A i \in 1..Len(e[1]) : (<<s>> \o e[1])[i + 1] = e[1][i]
             /\ <<s>> \o e[1] \in Seq(Sites(b)) /\ Len(e[1]) \in Nat
  BY <1>1, <1>3, Prefixed DEF Under
<1>5. ASSUME NEW d \in E, NEW e \in E, Under(s, d) = Under(s, e) PROVE d = e
  <2>1. /\ Under(s, d)[1] = <<s>> \o d[1] /\ Under(s, d)[2] = d[2]
        /\ Under(s, e)[1] = <<s>> \o e[1] /\ Under(s, e)[2] = e[2]
    BY <1>4, Zenon
  <2>2. <<s>> \o d[1] = <<s>> \o e[1] /\ d[2] = e[2]
    BY <2>1, <1>5, Zenon
  <2>3. d[1] \in Seq(Sites(b)) /\ e[1] \in Seq(Sites(b)) /\ <<s>> \in Seq(Sites(b))
    BY <1>1, <1>3
  <2>4. d[1] = e[1]
    BY <2>2, <2>3, ConcatSimplifications
  <2> QED
    BY <1>3, <2>2, <2>4
<1>6. f \in Bijection(E, G)
  <2>1. f \in [E -> G]
    BY DEF AllUnder
  <2>2. \A d, e \in E : f[d] = f[e] => d = e
    BY <1>5
  <2>3. \A g \in G : \E e \in E : f[e] = g
    BY DEF AllUnder
  <2> QED
    BY <2>1, <2>2, <2>3, Fun_IsBij
<1>7. ExistsBijection(E, G)
  BY <1>6, Fun_ExistsBij
<1>8. Counts(G, n)
  BY <1>7, FS_Bijection DEF Counts
<1>9. ASSUME NEW e \in E, Under(s, e) = <<<<s>>, 0>> PROVE FALSE
  <2>1. Under(s, e)[1] = <<s>> \o e[1] /\ Under(s, e)[2] = e[2]
    BY <1>4, Zenon
  <2>2. <<<<s>>, 0>>[1] = <<s>> /\ <<<<s>>, 0>>[2] = 0
    OBVIOUS
  <2>3. <<s>> \o e[1] = <<s>> /\ e[2] = 0
    BY <2>1, <2>2, <1>9, Zenon
  <2>4. e[1] \in Seq(Sites(b)) /\ <<s>> \in Seq(Sites(b))
    BY <1>1, <1>3
  <2>5. e[1] = <<>>
    BY <2>3, <2>4, ConcatSimplifications
  <2> QED
    BY <1>3, <2>3, <2>5
<1>10. ASSUME NEW e \in E PROVE Under(s, e)[1] # <<>> /\ Under(s, e)[1][1] = s
  BY <1>4
<1> QED
  BY <1>8, <1>9, <1>10 DEF AllUnder

AlongCalls(b, id, k, e) ==
  \E w \in Ways(b, id) : \E j \in SitesOf(b, id) :
    /\ w[1] = <<id, j>> /\ j < k
    /\ \E n \in 0..ProcessOf(b, TargetOf(b, w[Len(w)])).tasks : e = <<w, n>>

LEMMA ExpandedIs ==
  ASSUME NEW b, IsBundle(b), NEW id \in Ids(b), NEW k, NEW e
  PROVE  e \in ExpandedTo(b, id, k) <=>
           (\E n \in 1..ProcessOf(b, id).tasks : e = <<<<>>, n>>) \/ AlongCalls(b, id, k, e)
<1>1. ASSUME NEW n \in 1..ProcessOf(b, id).tasks, e = <<<<>>, n>> PROVE e \in ExpandedTo(b, id, k)
  BY <1>1, ExpansionIs DEF ExpandedTo
<1>2. ASSUME NEW w \in Ways(b, id), NEW j \in SitesOf(b, id), w[1] = <<id, j>>, j < k,
             NEW n \in 0..ProcessOf(b, TargetOf(b, w[Len(w)])).tasks, e = <<w, n>>
      PROVE  e \in ExpandedTo(b, id, k)
  <2>1. e \in Expansion(b, id)
    BY <1>2, ExpansionIs
  <2>2. e[1][1][2] = j
    BY <1>2
  <2> QED
    BY <1>2, <2>1, <2>2 DEF ExpandedTo
<1>3. ASSUME e \in ExpandedTo(b, id, k),
             NEW w \in Ways(b, id),
             NEW n \in 0..ProcessOf(b, TargetOf(b, w[Len(w)])).tasks, e = <<w, n>>
      PROVE  \E j \in SitesOf(b, id) : w[1] = <<id, j>> /\ j < k
  <2>1. PICK j \in SitesOf(b, id) : w[1] = <<id, j>>
    BY WayStarts
  <2>2. w # <<>>
    BY WaysAreNotEmpty
  <2>3. e[1] = w /\ e[1][1][2] = j
    BY <1>3, <2>1
  <2> QED
    BY <1>3, <2>1, <2>2, <2>3 DEF ExpandedTo
<1>4. ASSUME e \in ExpandedTo(b, id, k) PROVE e \in Expansion(b, id)
  BY <1>4 DEF ExpandedTo
<1>5. ASSUME e \in ExpandedTo(b, id, k), ~\E n \in 1..ProcessOf(b, id).tasks : e = <<<<>>, n>>
      PROVE  AlongCalls(b, id, k, e)
  <2>1. PICK w \in Ways(b, id) :
          \E n \in 0..ProcessOf(b, TargetOf(b, w[Len(w)])).tasks : e = <<w, n>>
    BY <1>4, <1>5, ExpansionIs
  <2>2. PICK n \in 0..ProcessOf(b, TargetOf(b, w[Len(w)])).tasks : e = <<w, n>>
    BY <2>1
  <2> QED
    BY <1>3, <1>5, <2>1, <2>2 DEF AlongCalls
<1> QED
  BY <1>1, <1>2, <1>5 DEF AlongCalls

LEMMA CallAdds ==
  ASSUME NEW b, IsBundle(b), NEW D, D \subseteq Ids(b), WaysAreShort(b, D),
         NEW id \in Ids(b) \ D, NEW k \in SitesOf(b, id), Target(b, id, k) \in D
  PROVE  ExpandedTo(b, id, k + 1) =
           (ExpandedTo(b, id, k) \cup {<<<<<<id, k>>>>, 0>>})
             \cup AllUnder(b, <<id, k>>, Target(b, id, k))
<1> DEFINE s == <<id, k>>
           t == Target(b, id, k)
           G == AllUnder(b, s, t)
           e0 == <<<<s>>, 0>>
<1> id \in Ids(b)
  OBVIOUS
<1>1. k \in Nat /\ t \in Ids(b) /\ ProcessOf(b, t).tasks \in Nat /\ <<s>> \in Ways(b, id)
  BY SitesAreCalls, ProcessTyped, CallIsWay
<1>2. TargetOf(b, s) = t /\ <<s>>[Len(<<s>>)] = s /\ <<s>>[1] = s
  BY TargetOfIs
<1>3. Most(b) \in Nat /\ IsFiniteSet(Ids(b)) /\ Cardinality(D) \in Nat /\ Cardinality(D) < Most(b)
  <2>1. IsFiniteSet(Ids(b))
    BY IdsAreFinite
  <2>2. IsFiniteSet(D) /\ Cardinality(D) =< Most(b) /\ (Cardinality(D) = Most(b) => D = Ids(b))
    BY <2>1, FS_Subset DEF Most
  <2> QED
    BY <2>1, <2>2, FS_CardinalityType DEF Most
<1>4. ASSUME NEW w \in Ways(b, t)
      PROVE  /\ <<s>> \o w \in Ways(b, id) /\ (<<s>> \o w)[1] = s
             /\ (<<s>> \o w)[Len(<<s>> \o w)] = w[Len(w)]
  <2>1. w \in Seq(Sites(b)) /\ Len(w) \in Nat
    BY WaysAreNotEmpty
  <2>2. Len(w) < Most(b)
    BY <1>3, <2>1 DEF WaysAreShort
  <2> QED
    BY <2>2, WayGrows
<1>5. ASSUME NEW e \in ExpandedTo(b, id, k) PROVE e \in ExpandedTo(b, id, k + 1)
  <2>1. CASE \E n \in 1..ProcessOf(b, id).tasks : e = <<<<>>, n>>
    BY <2>1, ExpandedIs
  <2>2. CASE ~\E n \in 1..ProcessOf(b, id).tasks : e = <<<<>>, n>>
    <3>1. AlongCalls(b, id, k, e)
      BY <2>2, ExpandedIs
    <3>2. PICK w \in Ways(b, id) : \E j \in SitesOf(b, id) :
                /\ w[1] = <<id, j>> /\ j < k
                /\ \E n \in 0..ProcessOf(b, TargetOf(b, w[Len(w)])).tasks : e = <<w, n>>
      BY <3>1 DEF AlongCalls
    <3>3. PICK j \in SitesOf(b, id) :
                /\ w[1] = <<id, j>> /\ j < k
                /\ \E n \in 0..ProcessOf(b, TargetOf(b, w[Len(w)])).tasks : e = <<w, n>>
      BY <3>2
    <3>4. j < k + 1
      BY <1>1, <3>3, SitesAreCalls
    <3> QED
      BY <3>3, <3>4, ExpandedIs DEF AlongCalls
  <2> QED
    BY <2>1, <2>2
<1>6. e0 \in ExpandedTo(b, id, k + 1)
  <2>1. 0 \in 0..ProcessOf(b, TargetOf(b, <<s>>[Len(<<s>>)])).tasks /\ k < k + 1
    BY <1>1, <1>2
  <2> QED
    BY <1>1, <1>2, <2>1, ExpandedIs DEF AlongCalls
<1>7. ASSUME NEW g \in G PROVE g \in ExpandedTo(b, id, k + 1)
  <2>1. PICK e \in Expansion(b, t) : g = Under(s, e)
    BY DEF AllUnder
  <2>2. CASE \E n \in 1..ProcessOf(b, t).tasks : e = <<<<>>, n>>
    <3>1. PICK n \in 1..ProcessOf(b, t).tasks : e = <<<<>>, n>>
      BY <2>2
    <3>2. <<s>> \o <<>> = <<s>>
      OBVIOUS
    <3>3. g = <<<<s>>, n>>
      BY <2>1, <3>1, <3>2 DEF Under
    <3>4. n \in 0..ProcessOf(b, TargetOf(b, <<s>>[Len(<<s>>)])).tasks /\ k < k + 1
      BY <1>1, <1>2
    <3> QED
      BY <1>1, <1>2, <3>3, <3>4, ExpandedIs DEF AlongCalls
  <2>3. CASE \E w \in Ways(b, t) : \E n \in 0..ProcessOf(b, TargetOf(b, w[Len(w)])).tasks : e = <<w, n>>
    <3>1. PICK w \in Ways(b, t) : \E n \in 0..ProcessOf(b, TargetOf(b, w[Len(w)])).tasks : e = <<w, n>>
      BY <2>3
    <3>2. PICK n \in 0..ProcessOf(b, TargetOf(b, w[Len(w)])).tasks : e = <<w, n>>
      BY <3>1
    <3>3. g = <<<<s>> \o w, n>>
      BY <2>1, <3>2 DEF Under
    <3> DEFINE v == <<s>> \o w
    <3>4. v \in Ways(b, id) /\ v[1] = s /\ v[Len(v)] = w[Len(w)] /\ g = <<v, n>> /\ k < k + 1
      BY <1>1, <1>4, <3>3
    <3> HIDE DEF v
    <3>5. n \in 0..ProcessOf(b, TargetOf(b, v[Len(v)])).tasks
      BY <3>2, <3>4
    <3> QED
      BY <3>4, <3>5, ExpandedIs DEF AlongCalls
  <2> QED
    BY <2>1, <2>2, <2>3, ExpansionIs
<1>8. ASSUME NEW e \in ExpandedTo(b, id, k + 1), e \notin ExpandedTo(b, id, k), e # e0
      PROVE  e \in G
  <2>1. ~\E n \in 1..ProcessOf(b, id).tasks : e = <<<<>>, n>>
    BY <1>8, ExpandedIs
  <2>2. AlongCalls(b, id, k + 1, e)
    BY <2>1, <1>8, ExpandedIs
  <2>3. PICK w \in Ways(b, id) : \E j \in SitesOf(b, id) :
              /\ w[1] = <<id, j>> /\ j < k + 1
              /\ \E n \in 0..ProcessOf(b, TargetOf(b, w[Len(w)])).tasks : e = <<w, n>>
    BY <2>2 DEF AlongCalls
  <2>4. PICK j \in SitesOf(b, id) :
              /\ w[1] = <<id, j>> /\ j < k + 1
              /\ \E n \in 0..ProcessOf(b, TargetOf(b, w[Len(w)])).tasks : e = <<w, n>>
    BY <2>3
  <2>5. PICK n \in 0..ProcessOf(b, TargetOf(b, w[Len(w)])).tasks : e = <<w, n>>
    BY <2>4
  <2>6. j = k
    <3>1. ~(j < k)
      BY <1>8, <2>3, <2>4, <2>5, ExpandedIs DEF AlongCalls
    <3> QED
      BY <1>1, <2>4, <3>1, SitesAreCalls
  <2>7. w[1] = s
    BY <2>4, <2>6
  <2>8. CASE w = <<s>>
    <3>1. n \in 0..ProcessOf(b, t).tasks
      BY <1>2, <2>5, <2>8
    <3>2. n # 0
      BY <1>8, <2>5, <2>8
    <3>3. n \in 1..ProcessOf(b, t).tasks
      BY <1>1, <3>1, <3>2
    <3>4. <<<<>>, n>> \in Expansion(b, t)
      BY <3>3, ExpansionIs
    <3>5. <<s>> \o <<>> = <<s>>
      OBVIOUS
    <3>6. e = Under(s, <<<<>>, n>>)
      BY <2>5, <2>8, <3>5 DEF Under
    <3> QED
      BY <3>4, <3>6 DEF AllUnder
  <2>9. CASE w # <<s>>
    <3>1. PICK v \in Ways(b, t) : w = <<s>> \o v /\ w[Len(w)] = v[Len(v)]
      BY <2>7, <2>9, WaySplits
    <3>2. <<v, n>> \in Expansion(b, t)
      BY <2>5, <3>1, ExpansionIs
    <3>3. e = Under(s, <<v, n>>)
      BY <2>5, <3>1 DEF Under
    <3> QED
      BY <3>2, <3>3 DEF AllUnder
  <2> QED
    BY <2>8, <2>9
<1> QED
  BY <1>5, <1>6, <1>7, <1>8

LEMMA CallExpands ==
  ASSUME NEW b, IsBundle(b), NEW D, D \subseteq Ids(b), WaysAreShort(b, D),
         NEW id \in Ids(b) \ D, NEW k \in SitesOf(b, id), Target(b, id, k) \in D,
         NEW m \in Nat, NEW n \in Nat,
         Counts(ExpandedTo(b, id, k), m), Counts(Expansion(b, Target(b, id, k)), n)
  PROVE  Counts(ExpandedTo(b, id, k + 1), m + 1 + n)
<1> DEFINE s == <<id, k>>
           t == Target(b, id, k)
           G == AllUnder(b, s, t)
           E == ExpandedTo(b, id, k)
           e0 == <<<<s>>, 0>>
<1>1. ExpandedTo(b, id, k + 1) = (E \cup {e0}) \cup G
  BY CallAdds
<1>2. Counts(G, n) /\ e0 \notin G
  BY UnderOneCall
<1>3. ASSUME NEW e \in E, e[1] # <<>>, e[1][1] = s PROVE FALSE
  <2>1. e[1][1][2] < k
    BY <1>3 DEF ExpandedTo
  <2>2. k \in Nat /\ s[2] = k
    BY SitesAreCalls
  <2>3. e[1][1][2] = k
    BY <1>3, <2>2
  <2> QED
    BY <2>1, <2>2, <2>3
<1>4. e0 \notin E
  <2>1. e0[1] = <<s>> /\ <<s>> # <<>> /\ <<s>>[1] = s
    OBVIOUS
  <2>2. e0[1] # <<>> /\ e0[1][1] = s
    BY <2>1, Zenon
  <2> HIDE DEF e0, s
  <2> QED
    BY <1>3, <2>2
<1>5. G \cap E = {}
  <2>1. ASSUME NEW g \in G, g \in E PROVE FALSE
    <3>1. PICK e \in Expansion(b, t) : g = Under(s, e)
      BY DEF AllUnder
    <3>2. Under(s, e)[1] # <<>> /\ Under(s, e)[1][1] = s
      BY UnderOneCall
    <3> QED
      BY <1>3, <2>1, <3>1, <3>2
  <2> QED
    BY <2>1
<1> HIDE DEF G, E, e0
<1>6. Counts(E \cup {e0}, m + 1)
  BY <1>4, FS_AddElement DEF Counts, E
<1>7. (E \cup {e0}) \cap G = {}
  BY <1>2, <1>5
<1>8. /\ IsFiniteSet((E \cup {e0}) \cup G)
      /\ Cardinality((E \cup {e0}) \cup G)
           = Cardinality(E \cup {e0}) + Cardinality(G) - Cardinality((E \cup {e0}) \cap G)
  BY <1>2, <1>6, FS_Union DEF Counts
<1>9. Cardinality((E \cup {e0}) \cap G) = 0
  BY <1>7, FS_EmptySet
<1> QED
  BY <1>1, <1>2, <1>6, <1>8, <1>9 DEF Counts

-----------------------------------------------------------------------------
(* The walk of the call graph, a step at a time.  A process whose calls all  *)
(* are of processes that are done adds a longer way to the done part, and no *)
(* cycle.                                                                    *)
LEMMA WaysGrow ==
  ASSUME NEW b, IsBundle(b), NEW D, D \subseteq Ids(b), WaysAreShort(b, D),
         NEW id \in Ids(b) \ D, \A k \in SitesOf(b, id) : Target(b, id, k) \in D
  PROVE  WaysAreShort(b, D \cup {id})
<1>1. id \in Ids(b)
  OBVIOUS
<1>2. IsFiniteSet(D) /\ Cardinality(D) \in Nat /\ Cardinality(D \cup {id}) = Cardinality(D) + 1
  BY IdsAreFinite, FS_Subset, FS_AddElement, FS_CardinalityType
<1>3. ASSUME NEW x \in D, NEW w \in Ways(b, x) PROVE Len(w) < Cardinality(D \cup {id})
  <2>1. Len(w) < Cardinality(D) /\ Len(w) \in Nat
    BY WaysAreNotEmpty DEF WaysAreShort
  <2> QED
    BY <1>2, <2>1
<1>4. ASSUME NEW w \in Ways(b, id) PROVE Len(w) < Cardinality(D \cup {id})
  <2>1. PICK k \in SitesOf(b, id) : w[1] = <<id, k>>
    BY <1>1, WayStarts
  <2>2. Target(b, id, k) \in D
    OBVIOUS
  <2>3. Cardinality(D) # 0
    BY <1>2, <2>2, FS_EmptySet
  <2>4. CASE Len(w) = 1
    BY <1>2, <2>3, <2>4
  <2>5. CASE Len(w) # 1
    <3>1. \/ Len(w) = 1 /\ w = <<<<id, k>>>>
          \/ \E t \in Ways(b, Target(b, id, k)) :
               w = <<<<id, k>>>> \o t /\ Len(w) = Len(t) + 1 /\ w[Len(w)] = t[Len(t)]
      BY <1>1, <2>1, WaySplits, SMTT(60)
    <3>2. PICK t \in Ways(b, Target(b, id, k)) : Len(w) = Len(t) + 1
      BY <2>5, <3>1
    <3>3. Len(t) < Cardinality(D) /\ Len(t) \in Nat
      BY <2>2, WaysAreNotEmpty DEF WaysAreShort
    <3> QED
      BY <1>2, <3>2, <3>3
  <2> QED
    BY <2>4, <2>5
<1> QED
  BY <1>3, <1>4 DEF WaysAreShort

LEMMA CyclesStayOut ==
  ASSUME NEW b, NEW D, CallsStayIn(b, D), HasNoCycle(b, D),
         NEW id, id \notin D, \A k \in SitesOf(b, id) : Target(b, id, k) \in D
  PROVE  CallsStayIn(b, D \cup {id}) /\ HasNoCycle(b, D \cup {id})
<1>1. CallsStayIn(b, D \cup {id})
  BY DEF CallsStayIn
<1>2. ASSUME NEW S \in SUBSET (D \cup {id}), S # {}
      PROVE  \E x \in S : \A k \in SitesOf(b, x) : Target(b, x, k) \notin S
  <2>1. CASE S \ {id} = {}
    BY <1>2, <2>1
  <2>2. CASE S \ {id} # {}
    <3>1. S \ {id} \in SUBSET D
      OBVIOUS
    <3>2. PICK x \in S \ {id} : \A k \in SitesOf(b, x) : Target(b, x, k) \notin S \ {id}
      BY <2>2, <3>1 DEF HasNoCycle
    <3>3. \A k \in SitesOf(b, x) : Target(b, x, k) # id
      BY <3>1, <3>2 DEF CallsStayIn
    <3> QED
      BY <3>2, <3>3
  <2> QED
    BY <2>1, <2>2
<1> QED
  BY <1>1, <1>2 DEF HasNoCycle

(* A call of visit that begins, passes what is no call, and counts a call.   *)
LEMMA VisitBegins ==
  ASSUME NEW b, IsBundle(b), NEW g, NEW id \in Ids(b), id \notin g.done
  PROVE  Visiting(ProcessOf(b, id)) \in Visits(b) /\ VisitSound(b, g, Visiting(ProcessOf(b, id)))
<1> DEFINE p == ProcessOf(b, id)
           f == Visiting(p)
<1>1. p.id = id /\ p.tasks \in Nat /\ Len(p.calls) \in Nat
  BY ProcessTyped
<1>2. f.id = id /\ f.at = 1 /\ f.size = p.tasks /\ f \in Visits(b)
  BY <1>1 DEF Visiting, Visits
<1>3. \A k \in SitesOf(b, id) : ~(k < 1)
  BY SitesAreCalls
<1>4. Counts(ExpandedTo(b, id, 1), p.tasks)
  BY StartExpands
<1> HIDE DEF f, p
<1>5. VisitSound(b, g, f)
  BY <1>1, <1>2, <1>3, <1>4 DEF VisitSound, p
<1> QED
  BY <1>2, <1>5 DEF f, p

LEMMA VisitSkips ==
  ASSUME NEW b, IsBundle(b), NEW g, NEW f \in Visits(b), VisitSound(b, g, f),
         f.at \in DOMAIN ProcessOf(b, f.id).calls, f.at \notin SitesOf(b, f.id)
  PROVE  LET h == [f EXCEPT !.at = @ + 1] IN h \in Visits(b) /\ VisitSound(b, g, h)
<1> DEFINE h == [f EXCEPT !.at = @ + 1]
<1>1. f.id \in Ids(b) /\ f.at \in Nat \ {0} /\ f.size \in Nat
  BY DEF Visits
<1>2. h.id = f.id /\ h.at = f.at + 1 /\ h.size = f.size /\ h \in Visits(b)
  BY <1>1 DEF Visits
<1>3. ExpandedTo(b, f.id, f.at + 1) = ExpandedTo(b, f.id, f.at)
  BY <1>1, NoCallExpands
<1>4. \A k \in SitesOf(b, f.id) : k < f.at + 1 => k < f.at
  BY <1>1, SitesAreCalls
<1>5. f.at =< Len(ProcessOf(b, f.id).calls)
  BY <1>1, ProcessTyped
<1>6. f.at + 1 =< Len(ProcessOf(b, f.id).calls) + 1
  BY <1>1, <1>5, ProcessTyped
<1> HIDE DEF h
<1>7. VisitSound(b, g, h)
  BY <1>2, <1>3, <1>4, <1>6 DEF VisitSound
<1> QED
  BY <1>2, <1>7 DEF h

LEMMA VisitCounts ==
  ASSUME NEW b, IsBundle(b), NEW g, g \in Graphs(b), GraphSound(b, g),
         NEW f \in Visits(b), VisitSound(b, g, f), f.at \in SitesOf(b, f.id),
         NEW h, h.done = g.done, h.calls = g.calls \cup {f.id},
         h.cycles = {} => g.cycles = {} /\ Target(b, f.id, f.at) \in g.done
  PROVE  LET e == [id |-> f.id, at |-> f.at + 1,
                   size |-> SizeWithCall(f.size, g.size[Target(b, f.id, f.at)])]
         IN e \in Visits(b) /\ VisitSound(b, h, e)
<1> DEFINE t == Target(b, f.id, f.at)
           e == [id |-> f.id, at |-> f.at + 1, size |-> SizeWithCall(f.size, g.size[t])]
           n == f.size + 1 + g.size[t]
<1>1. f.id \in Ids(b) /\ f.at \in Nat \ {0} /\ f.size \in Nat
  BY DEF Visits
<1>2. t \in Ids(b) /\ f.at =< Len(ProcessOf(b, f.id).calls) /\ Len(ProcessOf(b, f.id).calls) \in Nat
  BY <1>1, SitesAreCalls, ProcessTyped
<1>3. g.size[t] \in Nat /\ TaskLimit \in Nat
  BY <1>2, BundlesAreBundles DEF Graphs
<1>4. n \in Nat /\ SizeWithCall(f.size, g.size[t]) \in Nat
      /\ (SizeWithCall(f.size, g.size[t]) =< TaskLimit =>
            SizeWithCall(f.size, g.size[t]) = n /\ f.size =< TaskLimit /\ g.size[t] =< TaskLimit)
  BY <1>1, <1>3 DEF SizeWithCall, AtMost
<1>5. e.id = f.id /\ e.at = f.at + 1 /\ e.size = SizeWithCall(f.size, g.size[t]) /\ e \in Visits(b)
  <2>1. f.at + 1 \in Nat \ {0}
    BY <1>1
  <2> QED
    BY <1>1, <1>4, <2>1 DEF Visits
<1>6. h.done = g.done /\ h.calls = g.calls \cup {f.id}
  OBVIOUS
<1>7. \A k \in SitesOf(b, f.id) : k < f.at + 1 => k < f.at \/ k = f.at
  BY <1>1, SitesAreCalls
<1>8. ASSUME h.cycles = {}, e.size =< TaskLimit PROVE Counts(ExpandedTo(b, e.id, e.at), e.size)
  <2>1. /\ g.cycles = {} /\ t \in g.done /\ e.size = n
        /\ f.size =< TaskLimit /\ g.size[t] =< TaskLimit
    BY <1>4, <1>5, <1>8
  <2>2. Counts(ExpandedTo(b, f.id, f.at), f.size) /\ f.id \notin g.done
    BY <2>1 DEF VisitSound
  <2>3. Counts(Expansion(b, t), g.size[t]) /\ WaysAreShort(b, g.done)
    BY <2>1 DEF GraphSound
  <2>4. g.done \subseteq Ids(b)
    BY DEF Graphs
  <2>5. Counts(ExpandedTo(b, f.id, f.at + 1), n)
    BY <1>1, <1>3, <2>1, <2>2, <2>3, <2>4, CallExpands
  <2> QED
    BY <1>5, <2>1, <2>5
<1> HIDE DEF e
<1>9. ASSUME NEW k \in SitesOf(b, e.id), k < e.at
      PROVE  e.id \in h.calls /\ (h.cycles = {} => Target(b, e.id, k) \in h.done)
  BY <1>5, <1>6, <1>7, <1>9 DEF VisitSound
<1>10. e.id \notin h.done /\ e.at =< Len(ProcessOf(b, e.id).calls) + 1
  BY <1>1, <1>2, <1>5, <1>6 DEF VisitSound
<1>11. VisitSound(b, h, e)
  BY <1>8, <1>9, <1>10 DEF VisitSound
<1> QED
  BY <1>5, <1>11 DEF e

(* What another call notes in the maps leaves a call of visit sound.         *)
LEMMA VisitLasts ==
  ASSUME NEW b, NEW g, NEW h, NEW f, VisitSound(b, g, f), f.id \notin h.done,
         g.done \subseteq h.done, g.calls \subseteq h.calls, h.cycles = {} => g.cycles = {}
  PROVE  VisitSound(b, h, f)
  BY DEF VisitSound

-----------------------------------------------------------------------------
(* The steps of the walk of the call graph.                                  *)
Graphed == graph \in Graphs(bundle) /\ GraphSound(bundle, graph)
GraphUnderWay ==
  IsBundle(bundle) /\ pass = "graph" /\ Graphed /\ GraphWalk(bundle, graph, stack)

LEMMA VisitHere ==
  ASSUME GraphUnderWay, stack # <<>>
  PROVE  /\ stack \in Seq(Visits(bundle)) /\ Len(stack) \in Nat \ {0} /\ DOMAIN stack = 1..Len(stack)
         /\ Here = stack[Len(stack)] /\ Here \in Visits(bundle) /\ VisitSound(bundle, graph, Here)
         /\ Here.id \in Ids(bundle) /\ Here.at \in Nat \ {0} /\ Here.id \in OnStack
         /\ CallsHere \in Seq(ToSet(CallsHere))
<1>1. stack \in Seq(Visits(bundle)) /\ stack # <<>>
  BY DEF GraphUnderWay, GraphWalk
<1>2. /\ Len(stack) \in Nat \ {0} /\ Len(stack) \in DOMAIN stack /\ DOMAIN stack = 1..Len(stack)
      /\ Here = stack[Len(stack)] /\ Here \in Visits(bundle)
  BY <1>1, TopIsThere DEF Here
<1>3. VisitSound(bundle, graph, stack[Len(stack)])
  BY <1>2 DEF GraphUnderWay, GraphWalk
<1>4. Here.id \in Ids(bundle) /\ Here.at \in Nat \ {0}
  BY <1>2 DEF Visits
<1>5. CallsHere \in Seq(ToSet(CallsHere))
  BY <1>4, ProcessTyped DEF CallsHere, GraphUnderWay
<1> QED
  BY <1>1, <1>2, <1>3, <1>4, <1>5 DEF OnStack

LEMMA SiteHere ==
  ASSUME GraphUnderWay, AtCall
  PROVE  /\ Here.at \in SitesOf(bundle, Here.id) <=> Counted(bundle, Here.id, CallHere)
         /\ CallHere[2] = Target(bundle, Here.id, Here.at)
         /\ Here.at \in DOMAIN ProcessOf(bundle, Here.id).calls
  BY DEF AtCall, CallHere, CallsHere, SitesOf, Target

(* The walk goes on with another top of its stack.                           *)
LEMMA WalkGoesOn ==
  ASSUME NEW b, NEW g, NEW h, NEW s, GraphWalk(b, g, s), s # <<>>,
         NEW f \in Visits(b), f.id = Last(s).id, VisitSound(b, h, f),
         h.done = g.done, g.calls \subseteq h.calls, h.cycles = {} => g.cycles = {}
  PROVE  GraphWalk(b, h, [s EXCEPT ![Len(s)] = f])
<1> DEFINE t == [s EXCEPT ![Len(s)] = f]
<1>1. s \in Seq(Visits(b)) /\ s # <<>>
  BY DEF GraphWalk
<1>2. /\ Len(s) \in Nat \ {0} /\ Len(s) \in DOMAIN s /\ DOMAIN s = 1..Len(s)
      /\ Last(s) = s[Len(s)]
  BY <1>1, TopIsThere
<1>3. /\ t \in Seq(Visits(b)) /\ Len(t) = Len(s) /\ DOMAIN t = 1..Len(s)
      /\ t[Len(s)] = f
      /\ \A i \in 1..(Len(s) - 1) : t[i] = s[i]
  BY <1>1, TopReplaced
<1> HIDE DEF t
<1>4. \A i \in 1..Len(s) : i = Len(s) \/ i \in 1..(Len(s) - 1)
  BY <1>2, Places
<1>5. \A i \in 1..Len(s) : t[i].id = s[i].id
  BY <1>2, <1>3, <1>4
<1>6. IsDistinct(t)
  BY <1>2, <1>3, <1>5 DEF GraphWalk, IsDistinct
<1>7. ASSUME NEW i \in 1..Len(s) PROVE VisitSound(b, h, t[i])
  <2>1. CASE i = Len(s)
    BY <1>3, <2>1
  <2>2. CASE i # Len(s)
    <3>1. t[i] = s[i] /\ VisitSound(b, g, s[i])
      BY <1>2, <1>3, <1>4, <2>2 DEF GraphWalk
    <3>2. s[i].id \notin h.done
      BY <3>1 DEF VisitSound
    <3> QED
      BY <3>1, <3>2, VisitLasts
  <2> QED
    BY <2>1, <2>2
<1> QED
  BY <1>3, <1>6, <1>7 DEF GraphWalk, t

LEMMA WalkGoesDown ==
  ASSUME NEW b, NEW g, NEW h, NEW s, GraphWalk(b, g, s),
         NEW f \in Visits(b), \A i \in DOMAIN s : s[i].id # f.id, VisitSound(b, h, f),
         h.done = g.done, g.calls \subseteq h.calls, h.cycles = {} => g.cycles = {}
  PROVE  GraphWalk(b, h, Append(s, f))
<1> DEFINE t == Append(s, f)
<1>1. s \in Seq(Visits(b)) /\ Len(s) \in Nat /\ DOMAIN s = 1..Len(s)
  BY DEF GraphWalk
<1>2. /\ t \in Seq(Visits(b)) /\ DOMAIN t = 1..(Len(s) + 1)
      /\ t[Len(s) + 1] = f /\ \A i \in 1..Len(s) : t[i] = s[i]
  BY <1>1, Pushed
<1> HIDE DEF t
<1>3. \A i \in 1..(Len(s) + 1) : i = Len(s) + 1 \/ i \in 1..Len(s)
  BY <1>1
<1>4. IsDistinct(t)
  BY <1>1, <1>2, <1>3 DEF GraphWalk, IsDistinct
<1>5. ASSUME NEW i \in 1..(Len(s) + 1) PROVE VisitSound(b, h, t[i])
  <2>1. CASE i = Len(s) + 1
    BY <1>2, <2>1
  <2>2. CASE i # Len(s) + 1
    <3>1. t[i] = s[i] /\ VisitSound(b, g, s[i])
      BY <1>1, <1>2, <1>3, <2>2 DEF GraphWalk
    <3>2. s[i].id \notin h.done
      BY <3>1 DEF VisitSound
    <3> QED
      BY <3>1, <3>2, VisitLasts
  <2> QED
    BY <2>1, <2>2
<1> QED
  BY <1>2, <1>4, <1>5 DEF GraphWalk, t

LEMMA WalkComesBack ==
  ASSUME NEW b, NEW g, NEW h, NEW s, GraphWalk(b, g, s), s # <<>>,
         h.done = g.done \cup {Last(s).id}, g.calls \subseteq h.calls,
         h.cycles = {} => g.cycles = {}
  PROVE  GraphWalk(b, h, Front(s))
<1> DEFINE t == Front(s)
<1>1. s \in Seq(Visits(b)) /\ s # <<>>
  BY DEF GraphWalk
<1>2. /\ Len(s) \in Nat \ {0} /\ Len(s) \in DOMAIN s /\ DOMAIN s = 1..Len(s)
      /\ Last(s) = s[Len(s)]
  BY <1>1, TopIsThere
<1>3. /\ t \in Seq(Visits(b)) /\ DOMAIN t = 1..(Len(s) - 1)
      /\ \A i \in 1..(Len(s) - 1) : t[i] = s[i]
  BY <1>1, FrontIsRest
<1> HIDE DEF t
<1>4. \A i \in 1..(Len(s) - 1) : i \in 1..Len(s) /\ i # Len(s)
  BY <1>2, Places
<1>5. IsDistinct(t)
  BY <1>2, <1>3, <1>4 DEF GraphWalk, IsDistinct
<1>6. ASSUME NEW i \in 1..(Len(s) - 1) PROVE VisitSound(b, h, t[i])
  <2>1. t[i] = s[i] /\ VisitSound(b, g, s[i])
    BY <1>2, <1>3, <1>4 DEF GraphWalk
  <2>2. s[i].id # Last(s).id
    BY <1>2, <1>4 DEF GraphWalk, IsDistinct
  <2>3. s[i].id \notin h.done
    BY <2>1, <2>2 DEF VisitSound
  <2> QED
    BY <2>1, <2>3, VisitLasts
<1> QED
  BY <1>3, <1>5, <1>6 DEF GraphWalk, t

LEMMA VisitNextKeeps ==
  ASSUME GraphUnderWay, VisitNext
  PROVE  graph' \in Graphs(bundle) /\ GraphSound(bundle, graph') /\ GraphWalk(bundle, graph', stack')
<1> DEFINE m == Min(Unvisited)
           p == bundle[m]
<1>1. DOMAIN bundle = 1..Len(bundle) /\ Len(bundle) \in Nat
  BY DEF GraphUnderWay, IsBundle
<1>2. Unvisited \subseteq Nat /\ Unvisited # {}
  BY <1>1 DEF Unvisited, VisitNext
<1>3. m \in Unvisited /\ \A y \in Unvisited : m =< y
  BY <1>2, LeastIsThere
<1>4. m \in DOMAIN bundle /\ p.id \notin graph.done /\ p.id \in Ids(bundle)
  BY <1>3 DEF Unvisited, Ids
<1> HIDE DEF m
<1>5. ProcessOf(bundle, p.id) = p
  <2> DEFINE places == {i \in DOMAIN bundle : bundle[i].id = p.id}
  <2>1. places \subseteq Unvisited /\ m \in places /\ places \subseteq Nat
    BY <1>1, <1>4 DEF Unvisited
  <2>2. Min(places) \in places /\ \A y \in places : Min(places) =< y
    BY <2>1, LeastIsThere
  <2>3. Min(places) =< m /\ m =< Min(places) /\ Min(places) \in Nat /\ m \in Nat
    BY <1>3, <2>1, <2>2
  <2>4. Min(places) = m
    BY <2>3
  <2> QED
    BY <2>4 DEF ProcessOf
<1> DEFINE f == Visiting(p)
<1>6. f \in Visits(bundle) /\ VisitSound(bundle, graph, f)
  BY <1>4, <1>5, VisitBegins DEF GraphUnderWay
<1> HIDE DEF p, f
<1>7. graph' = graph /\ stack' = <<f>>
  BY DEF VisitNext, f, p, m
<1>8. <<f>> \in Seq(Visits(bundle)) /\ DOMAIN <<f>> = {1} /\ <<f>>[1] = f
  BY <1>6
<1>9. GraphWalk(bundle, graph, <<f>>)
  BY <1>6, <1>8 DEF GraphWalk, IsDistinct
<1> QED
  BY <1>7, <1>9 DEF GraphUnderWay, Graphed

LEMMA SkipCallKeeps ==
  ASSUME GraphUnderWay, SkipCall
  PROVE  graph' \in Graphs(bundle) /\ GraphSound(bundle, graph') /\ GraphWalk(bundle, graph', stack')
<1> DEFINE f == [Here EXCEPT !.at = @ + 1]
<1>1. stack # <<>> /\ AtCall
  BY DEF SkipCall, AtCall
<1>2. Here \in Visits(bundle) /\ VisitSound(bundle, graph, Here)
  BY <1>1, VisitHere
<1>3. Here.at \notin SitesOf(bundle, Here.id) /\ Here.at \in DOMAIN ProcessOf(bundle, Here.id).calls
  BY <1>1, SiteHere DEF SkipCall
<1>4. f \in Visits(bundle) /\ VisitSound(bundle, graph, f)
  BY <1>2, <1>3, VisitSkips DEF GraphUnderWay
<1>5. f.id = Here.id
  BY <1>2 DEF Visits
<1> HIDE DEF f
<1>6. GraphWalk(bundle, graph, GoOnAs(f))
  BY <1>1, <1>4, <1>5, WalkGoesOn DEF GraphUnderWay, GoOnAs, Here
<1>7. graph' = graph /\ stack' = GoOnAs(f)
  BY DEF SkipCall, f
<1> QED
  BY <1>6, <1>7 DEF GraphUnderWay, Graphed

(* What a call notes in the maps.                                            *)
LEMMA CallIsNoted ==
  ASSUME GraphUnderWay, AtCall, Counted(bundle, Here.id, CallHere), NEW g \in Graphs(bundle),
         g.done = graph.done, g.size = graph.size, g.called = graph.called \cup {CallHere[2]},
         g.calls = graph.calls \cup {Here.id}, g.cycles = {} => graph.cycles = {}
  PROVE  GraphSound(bundle, g)
<1>1. Here.at \in SitesOf(bundle, Here.id) /\ CallHere[2] = Target(bundle, Here.id, Here.at)
  BY SiteHere
<1>2. Here.id \in Ids(bundle)
  BY VisitHere DEF AtCall
<1>3. IsCalled(bundle, CallHere[2])
  BY <1>1, <1>2 DEF IsCalled
<1> QED
  BY <1>3 DEF GraphUnderWay, Graphed, GraphSound

LEMMA MarkedIs ==
  ASSUME GraphUnderWay, AtCall, Counted(bundle, Here.id, CallHere)
  PROVE  LET g == Marked(Here.id, CallHere)
         IN /\ g \in Graphs(bundle) /\ g.done = graph.done /\ g.size = graph.size
            /\ g.called = graph.called \cup {CallHere[2]} /\ g.calls = graph.calls \cup {Here.id}
            /\ g.cycles = graph.cycles
<1>1. CallHere[2] \in Ids(bundle) /\ Here.id \in Ids(bundle) /\ graph \in Graphs(bundle)
  BY VisitHere DEF AtCall, Counted, IsCall, GraphUnderWay, Graphed
<1> QED
  BY <1>1 DEF Marked, Graphs

LEMMA VisitCalledKeeps ==
  ASSUME GraphUnderWay, VisitCalled
  PROVE  graph' \in Graphs(bundle) /\ GraphSound(bundle, graph') /\ GraphWalk(bundle, graph', stack')
<1> DEFINE t == CallHere[2]
           f == Visiting(ProcessOf(bundle, t))
<1>1. AtCall /\ Counted(bundle, Here.id, CallHere)
  BY DEF VisitCalled
<1>2. IsBundle(bundle) /\ GraphWalk(bundle, graph, stack)
  BY DEF GraphUnderWay
<1> PICK g : g = graph'
  OBVIOUS
<1>3. /\ g \in Graphs(bundle) /\ g.done = graph.done /\ g.size = graph.size
      /\ g.called = graph.called \cup {t} /\ g.calls = graph.calls \cup {Here.id}
      /\ g.cycles = graph.cycles
  BY <1>1, MarkedIs DEF VisitCalled
<1>4. GraphSound(bundle, g)
  BY <1>1, <1>3, CallIsNoted
<1>5. t \in Ids(bundle) /\ t \notin graph.done /\ t \notin OnStack
  BY <1>1 DEF VisitCalled, Counted, IsCall
<1>6. f \in Visits(bundle) /\ VisitSound(bundle, g, f) /\ f.id = t
  <2>1. f \in Visits(bundle) /\ VisitSound(bundle, g, f)
    BY <1>2, <1>3, <1>5, VisitBegins
  <2> QED
    BY <1>2, <1>5, <2>1, ProcessTyped DEF Visiting
<1>7. \A i \in DOMAIN stack : stack[i].id # f.id
  BY <1>5, <1>6 DEF OnStack
<1> HIDE DEF f, t
<1>8. stack' = Append(stack, f)
  BY DEF VisitCalled, f, t
<1>9. GraphWalk(bundle, g, Append(stack, f))
  BY <1>2, <1>3, <1>6, <1>7, WalkGoesDown
<1> QED
  BY <1>3, <1>4, <1>8, <1>9

LEMMA CountCallKeeps ==
  ASSUME GraphUnderWay, CountCall
  PROVE  graph' \in Graphs(bundle) /\ GraphSound(bundle, graph') /\ GraphWalk(bundle, graph', stack')
<1> DEFINE t == CallHere[2]
           f == [id |-> Here.id, at |-> Here.at + 1, size |-> SizeWithCall(Here.size, graph.size[t])]
           cycles == IF t \in OnStack THEN graph.cycles \cup {CallHere[1]} ELSE graph.cycles
           marked == Marked(Here.id, CallHere)
<1>1. AtCall /\ Counted(bundle, Here.id, CallHere) /\ t \in graph.done \cup OnStack
  BY DEF CountCall
<1>2. stack # <<>>
  BY <1>1 DEF AtCall
<1>3. /\ Here \in Visits(bundle) /\ VisitSound(bundle, graph, Here) /\ IsBundle(bundle)
      /\ Here.id \in Ids(bundle)
  BY <1>2, VisitHere DEF GraphUnderWay
<1>4. graph \in Graphs(bundle) /\ GraphSound(bundle, graph) /\ GraphWalk(bundle, graph, stack)
  BY DEF GraphUnderWay, Graphed
<1>5. /\ marked \in Graphs(bundle) /\ marked.done = graph.done /\ marked.size = graph.size
      /\ marked.called = graph.called \cup {t} /\ marked.calls = graph.calls \cup {Here.id}
      /\ marked.cycles = graph.cycles
  BY <1>1, MarkedIs
<1>6. CallHere[1] \in CallNames(bundle)
  <2>1. PICK i \in DOMAIN bundle : ProcessOf(bundle, Here.id) = bundle[i]
    BY <1>3, ProcessIsThere
  <2>2. Here.at \in DOMAIN bundle[i].calls /\ CallHere = bundle[i].calls[Here.at]
    BY <1>1, <2>1 DEF AtCall, CallHere, CallsHere
  <2> QED
    BY <2>2, CallIsNamed
<1>7. cycles = {} => graph.cycles = {} /\ t \in graph.done
  BY <1>1
<1>8. cycles \in SUBSET CallNames(bundle)
  BY <1>4, <1>6 DEF Graphs
<1> PICK g : g = graph'
  OBVIOUS
<1>9. g = [marked EXCEPT !.cycles = cycles]
  BY <1>5 DEF CountCall
<1> HIDE DEF cycles, marked
<1>10. /\ g \in Graphs(bundle) /\ g.done = graph.done /\ g.size = graph.size
       /\ g.called = graph.called \cup {t} /\ g.calls = graph.calls \cup {Here.id}
       /\ g.cycles = cycles
  BY <1>5, <1>8, <1>9 DEF Graphs
<1>11. GraphSound(bundle, g)
  BY <1>1, <1>7, <1>10, CallIsNoted
<1>12. Here.at \in SitesOf(bundle, Here.id) /\ t = Target(bundle, Here.id, Here.at)
  BY <1>1, SiteHere
<1> HIDE DEF t
<1>13. f \in Visits(bundle) /\ VisitSound(bundle, g, f)
  BY <1>3, <1>4, <1>7, <1>10, <1>12, VisitCounts
<1>14. f.id = Here.id
  OBVIOUS
<1> HIDE DEF f
<1>15. GraphWalk(bundle, g, GoOnAs(f))
  BY <1>2, <1>4, <1>7, <1>10, <1>13, <1>14, WalkGoesOn DEF GoOnAs, Here
<1>16. stack' = GoOnAs(f)
  BY DEF CountCall, f, t
<1> QED
  BY <1>10, <1>11, <1>15, <1>16

LEMMA EndVisitKeeps ==
  ASSUME GraphUnderWay, EndVisit
  PROVE  graph' \in Graphs(bundle) /\ GraphSound(bundle, graph') /\ GraphWalk(bundle, graph', stack')
<1> DEFINE id == Here.id
           g == [graph EXCEPT !.done = @ \cup {id}, !.size[id] = Here.size]
<1>1. stack # <<>> /\ Here.at \notin DOMAIN CallsHere
  BY DEF EndVisit, AtEnd
<1>2. /\ Here \in Visits(bundle) /\ VisitSound(bundle, graph, Here) /\ IsBundle(bundle)
      /\ id \in Ids(bundle) /\ Here.at \in Nat \ {0} /\ CallsHere \in Seq(ToSet(CallsHere))
  BY <1>1, VisitHere DEF GraphUnderWay
<1>3. graph \in Graphs(bundle) /\ GraphSound(bundle, graph) /\ GraphWalk(bundle, graph, stack)
  BY DEF GraphUnderWay, Graphed
<1>4. Here.size \in Nat
  BY <1>2 DEF Visits
<1>5. Here.at > Len(ProcessOf(bundle, id).calls) /\ Len(ProcessOf(bundle, id).calls) \in Nat
  BY <1>1, <1>2 DEF CallsHere
<1>6. \A k \in SitesOf(bundle, id) : k < Here.at
  BY <1>2, <1>5, SitesAreCalls
<1> HIDE DEF id
<1>7. /\ g \in Graphs(bundle)
      /\ g.done = graph.done \cup {id} /\ g.called = graph.called /\ g.calls = graph.calls
      /\ g.cycles = graph.cycles /\ g.size = [graph.size EXCEPT ![id] = Here.size]
  BY <1>2, <1>3, <1>4 DEF Graphs
<1> HIDE DEF g
<1>8. id \notin graph.done /\ (SitesOf(bundle, id) # {} => id \in graph.calls)
  BY <1>2, <1>6 DEF VisitSound, id
<1>9. ASSUME g.cycles = {}
      PROVE  /\ CallsStayIn(bundle, g.done) /\ HasNoCycle(bundle, g.done)
             /\ WaysAreShort(bundle, g.done)
             /\ \A x \in g.done : g.size[x] =< TaskLimit => Counts(Expansion(bundle, x), g.size[x])
  <2>1. /\ CallsStayIn(bundle, graph.done) /\ HasNoCycle(bundle, graph.done)
        /\ WaysAreShort(bundle, graph.done)
        /\ \A x \in graph.done :
             graph.size[x] =< TaskLimit => Counts(Expansion(bundle, x), graph.size[x])
    BY <1>3, <1>7, <1>9 DEF GraphSound
  <2>2. /\ \A k \in SitesOf(bundle, id) : Target(bundle, id, k) \in graph.done
        /\ Here.size =< TaskLimit => Counts(ExpandedTo(bundle, id, Here.at), Here.size)
    BY <1>2, <1>6, <1>7, <1>9 DEF VisitSound, id
  <2>3. ExpandedTo(bundle, id, Here.at) = Expansion(bundle, id)
    BY <1>2, <1>5, EndExpands
  <2>4. graph.done \subseteq Ids(bundle)
    BY <1>3 DEF Graphs
  <2>5. WaysAreShort(bundle, g.done)
    BY <1>2, <1>7, <1>8, <2>1, <2>2, <2>4, WaysGrow
  <2>6. CallsStayIn(bundle, g.done) /\ HasNoCycle(bundle, g.done)
    BY <1>7, <1>8, <2>1, <2>2, CyclesStayOut
  <2>7. \A x \in g.done : g.size[x] = IF x = id THEN Here.size ELSE graph.size[x]
    BY <1>2, <1>3, <1>7, <2>4 DEF Graphs
  <2>8. \A x \in g.done : g.size[x] =< TaskLimit => Counts(Expansion(bundle, x), g.size[x])
    BY <1>7, <2>1, <2>2, <2>3, <2>7
  <2> QED
    BY <2>5, <2>6, <2>8
<1>10. GraphSound(bundle, g)
  BY <1>3, <1>7, <1>8, <1>9 DEF GraphSound
<1>11. GraphWalk(bundle, g, Front(stack))
  BY <1>1, <1>3, <1>7, WalkComesBack DEF Here, id
<1>12. graph' = g /\ stack' = Front(stack)
  BY DEF EndVisit, g, id
<1> QED
  BY <1>7, <1>10, <1>11, <1>12

-----------------------------------------------------------------------------
(* The graph and the verdict in every step.                                  *)
LEMMA VerdictChanged ==
  ASSUME VerdictTyped
  PROVE  /\ \A x : LET v == [verdict EXCEPT !.issues = x]
                   IN v.root = verdict.root /\ v.issues = x /\ v.inside = verdict.inside
                      /\ v = [root |-> v.root, issues |-> v.issues, inside |-> v.inside]
         /\ \A x : LET v == [verdict EXCEPT !.inside = x]
                   IN v.root = verdict.root /\ v.issues = verdict.issues /\ v.inside = x
                      /\ v = [root |-> v.root, issues |-> v.issues, inside |-> v.inside]
<1>1. PICK r, i, n : verdict = [root |-> r, issues |-> i, inside |-> n]
  BY DEF VerdictTyped
<1>2. verdict.root = r /\ verdict.issues = i /\ verdict.inside = n
  BY <1>1
<1>3. \A x : [verdict EXCEPT !.issues = x] = [root |-> r, issues |-> x, inside |-> n]
  BY <1>1
<1>4. \A x : [verdict EXCEPT !.inside = x] = [root |-> r, issues |-> i, inside |-> x]
  BY <1>1
<1>5. ASSUME NEW x
      PROVE  LET v == [verdict EXCEPT !.issues = x]
             IN v.root = verdict.root /\ v.issues = x /\ v.inside = verdict.inside
                /\ v = [root |-> v.root, issues |-> v.issues, inside |-> v.inside]
  BY <1>2, <1>3
<1>6. ASSUME NEW x
      PROVE  LET v == [verdict EXCEPT !.inside = x]
             IN v.root = verdict.root /\ v.issues = verdict.issues /\ v.inside = x
                /\ v = [root |-> v.root, issues |-> v.issues, inside |-> v.inside]
  BY <1>2, <1>4
<1> QED
  BY <1>5, <1>6

(* Where the graph is done only issues are added to what is kept of it.      *)
LEMMA VerdictGrows ==
  ASSUME GraphInv, Rooted, pass # "graph", bundle' = bundle, graph' = graph, pass' \in Passes,
         pass' # "graph", pass' = "bodies" => pass = "bodies" /\ routes' = routes /\ verdict' = verdict,
         pass' \in {"bodies", "validated", "compiled"} => stack' = <<>>,
         verdict' = [root |-> verdict.root, issues |-> verdict'.issues, inside |-> verdict'.inside],
         verdict.issues \subseteq verdict'.issues
  PROVE  GraphInv'
<1>1. verdict'.root = verdict.root
  OBVIOUS
<1>2. VerdictTyped'
  BY <1>1 DEF VerdictTyped
<1>3. RootChosen'
  BY <1>1 DEF GraphInv, RootChosen, Rooted, Passes
<1> QED
  BY <1>2, <1>3 DEF GraphInv

LEMMA GraphInit == BundleInit => GraphInv
<1> SUFFICES ASSUME BundleInit PROVE GraphInv
  OBVIOUS
<1>1. IsBundle(bundle) /\ StartsWith(bundle)
  BY BundlesAreBundles DEF BundleInit, StartsWith
<1>2. graph \in Graphs(bundle)
  BY <1>1 DEF StartsWith, Unwalked, Graphs
<1>3. graph.done = {} /\ graph.called = {}
  BY <1>1 DEF StartsWith, Unwalked
<1>4. GraphSound(bundle, graph)
  BY <1>3 DEF GraphSound, CallsStayIn, HasNoCycle, WaysAreShort
<1>5. GraphWalk(bundle, graph, stack)
  BY <1>1 DEF StartsWith, GraphWalk, IsDistinct
<1>6. verdict = Unread /\ pass = "graph" /\ routes = NoRoutes
  BY <1>1 DEF StartsWith
<1>7. verdict.root = 0 /\ verdict.inside = {} /\ VerdictTyped
  BY <1>6 DEF Unread, VerdictTyped
<1>8. RootChosen
  BY <1>6, <1>7 DEF RootChosen, Rooted
<1> QED
  BY <1>1, <1>2, <1>4, <1>5, <1>6, <1>7, <1>8 DEF GraphInv, Passes

LEMMA GraphKeeps ==
  ASSUME GraphInv, pass = "graph", bundle' = bundle, pass' = pass, verdict' = verdict, routes' = routes,
         graph' \in Graphs(bundle), GraphSound(bundle, graph'), GraphWalk(bundle, graph', stack')
  PROVE  GraphInv'
<1>1. verdict = Unread /\ verdict.root = 0
  BY DEF GraphInv, RootChosen, Unread
<1>2. VerdictTyped'
  BY DEF GraphInv, VerdictTyped
<1>3. RootChosen'
  BY <1>1 DEF GraphInv, RootChosen, Rooted
<1> QED
  BY <1>2, <1>3 DEF GraphInv

LEMMA GraphEnds ==
  ASSUME GraphInv, pass = "graph", stack = <<>>, Unvisited = {}
  PROVE  graph.done = Ids(bundle) /\ verdict = Unread /\ verdict.root = 0
<1>1. graph.done \subseteq Ids(bundle)
  BY DEF GraphInv, Graphs
<1>2. Ids(bundle) \subseteq graph.done
  BY DEF Unvisited, Ids
<1>3. verdict = Unread
  BY DEF GraphInv, RootChosen
<1>4. verdict.root = 0
  BY <1>3 DEF Unread
<1> QED
  BY <1>1, <1>2, <1>3, <1>4

LEMMA RefuseBundleKeeps ==
  ASSUME GraphInv, RefuseBundle
  PROVE  GraphInv'
<1>1. /\ pass = "graph" /\ stack = <<>> /\ Unvisited = {} /\ bundle' = bundle /\ graph' = graph
      /\ stack' = stack /\ pass' = "validated" /\ routes' = routes
      /\ verdict' = [verdict EXCEPT !.issues = CallGraphIssues(bundle, graph)
                                                 \cup {<<"NO_SINGLE_ROOT", "">>}]
  BY DEF RefuseBundle
<1>2. verdict.root = 0 /\ VerdictTyped
  BY <1>1, GraphEnds DEF GraphInv
<1>3. /\ verdict'.root = 0
      /\ verdict'.issues = CallGraphIssues(bundle, graph) \cup {<<"NO_SINGLE_ROOT", "">>}
      /\ verdict' = [root |-> verdict'.root, issues |-> verdict'.issues, inside |-> verdict'.inside]
  BY <1>1, <1>2, VerdictChanged
<1>4. verdict'.issues # {}
  BY <1>3
<1>5. RootChosen' /\ VerdictTyped'
  BY <1>1, <1>3, <1>4 DEF RootChosen, Rooted, VerdictTyped
<1> QED
  BY <1>1, <1>5 DEF GraphInv, Passes

LEMMA ChooseRootIs ==
  ASSUME GraphInv, ChooseRoot
  PROVE  \E r \in Runnable(bundle) :
           /\ verdict'.root = r /\ r \in DOMAIN bundle /\ r # 0 /\ verdict'.inside = {}
           /\ verdict'.issues = CallGraphIssues(bundle, graph) \cup OwnIssues(bundle, bundle[r])
           /\ verdict' = [root |-> verdict'.root, issues |-> verdict'.issues, inside |-> verdict'.inside]
           /\ bodies' = [queue |-> <<bundle[r].id>>, at |-> 1, order |-> <<>>,
                         callers |-> [id \in Ids(bundle) |-> <<>>]]
<1>1. PICK r \in Runnable(bundle) :
        /\ verdict' = [root |-> r, inside |-> {},
                       issues |-> CallGraphIssues(bundle, graph) \cup OwnIssues(bundle, bundle[r])]
        /\ bodies' = [queue |-> <<bundle[r].id>>, at |-> 1, order |-> <<>>,
                      callers |-> [id \in Ids(bundle) |-> <<>>]]
  BY DEF ChooseRoot
<1>2. r \in DOMAIN bundle /\ r # 0
  <2>1. r \in DOMAIN bundle
    BY DEF Runnable
  <2> QED
    BY <2>1 DEF GraphInv, IsBundle
<1> QED
  BY <1>1, <1>2

LEMMA ChooseRootKeeps ==
  ASSUME GraphInv, ChooseRoot
  PROVE  GraphInv'
<1>1. PICK r \in Runnable(bundle) :
        /\ verdict'.root = r /\ r \in DOMAIN bundle /\ r # 0 /\ verdict'.inside = {}
        /\ verdict'.issues = CallGraphIssues(bundle, graph) \cup OwnIssues(bundle, bundle[r])
        /\ verdict' = [root |-> verdict'.root, issues |-> verdict'.issues, inside |-> verdict'.inside]
  BY ChooseRootIs
<1>2. /\ pass = "graph" /\ stack = <<>> /\ Unvisited = {} /\ bundle' = bundle /\ graph' = graph
      /\ stack' = stack /\ pass' = "bodies" /\ routes' = routes
  BY DEF ChooseRoot
<1>3. graph.done = Ids(bundle) /\ routes = NoRoutes
  BY <1>2, GraphEnds DEF GraphInv, RootChosen
<1>4. RootChosen'
  BY <1>1, <1>2, <1>3 DEF RootChosen, Rooted
<1> QED
  BY <1>1, <1>2, <1>4 DEF GraphInv, Passes, VerdictTyped

LEMMA GraphIsKept == GraphInv /\ [BundleNext]_bundleVars => GraphInv'
<1> SUFFICES ASSUME GraphInv, [BundleNext]_bundleVars PROVE GraphInv'
  OBVIOUS
<1> DEFINE Kept == graph' \in Graphs(bundle) /\ GraphSound(bundle, graph')
                     /\ GraphWalk(bundle, graph', stack')
<1>1. pass = "graph" => GraphUnderWay
  BY DEF GraphInv, GraphUnderWay, Graphed
<1>2. CASE VisitNext
  BY <1>1, <1>2, VisitNextKeeps, GraphKeeps DEF VisitNext
<1>3. CASE SkipCall
  BY <1>1, <1>3, SkipCallKeeps, GraphKeeps DEF SkipCall
<1>4. CASE VisitCalled
  BY <1>1, <1>4, VisitCalledKeeps, GraphKeeps DEF VisitCalled
<1>5. CASE CountCall
  BY <1>1, <1>5, CountCallKeeps, GraphKeeps DEF CountCall
<1>6. CASE EndVisit
  BY <1>1, <1>6, EndVisitKeeps, GraphKeeps DEF EndVisit
<1>7. CASE RefuseBundle
  BY <1>7, RefuseBundleKeeps
<1>8. CASE ChooseRoot
  BY <1>8, ChooseRootKeeps
<1>9. VerdictTyped /\ (pass \in {"bodies", "routes", "compile"} => Rooted)
      /\ (pass = "validated" /\ Accepted => Rooted)
      /\ (pass \in {"bodies", "validated", "compiled"} => stack = <<>>)
  BY DEF GraphInv, RootChosen, Accepted
<1>10. CASE BodiesStep
  <2>1. /\ pass = "bodies" /\ pass' \in {"bodies", "routes"}
        /\ UNCHANGED <<bundle, graph, routes, verdict, stack>>
    BY <1>10 DEF BodiesStep, PassBodyCall, NoteBodyCall, QueueBody, NextBody, EndBodies
  <2> QED
    BY <1>9, <2>1, VerdictGrows DEF VerdictTyped, Passes
<1>11. CASE RoutesStep
  <2>1. /\ pass = "routes" /\ UNCHANGED <<bundle, graph>>
        /\ pass' = "routes" \/ (pass' = "validated" /\ stack' = <<>>)
    BY <1>11 DEF RoutesStep, AttributeOwn, AttributeKnown, SeekRoutes, AuthorCalls, KnownCalls,
                 CutCycle, SeekCaller, ReturnRoutes, AttributeFound, EndRoutes
  <2>2. \/ verdict' = verdict
        \/ \E x : verdict' = [verdict EXCEPT !.issues = verdict.issues \cup x]
        \/ \E x : verdict' = [verdict EXCEPT !.inside = x]
    BY <1>11 DEF RoutesStep, AttributeOwn, AttributeKnown, SeekRoutes, AuthorCalls, KnownCalls,
                 CutCycle, SeekCaller, ReturnRoutes, AttributeFound, EndRoutes
  <2>3. /\ verdict'.root = verdict.root /\ verdict.issues \subseteq verdict'.issues
        /\ verdict' = [root |-> verdict'.root, issues |-> verdict'.issues, inside |-> verdict'.inside]
    <3>1. CASE verdict' = verdict
      BY <1>9, <3>1 DEF VerdictTyped
    <3>2. CASE \E x : verdict' = [verdict EXCEPT !.issues = verdict.issues \cup x]
      <4>1. PICK x : verdict' = [verdict EXCEPT !.issues = verdict.issues \cup x]
        BY <3>2
      <4> QED
        BY <1>9, <4>1, VerdictChanged
    <3>3. CASE \E x : verdict' = [verdict EXCEPT !.inside = x]
      <4>1. PICK x : verdict' = [verdict EXCEPT !.inside = x]
        BY <3>3
      <4> QED
        BY <1>9, <4>1, VerdictChanged
    <3> QED
      BY <2>2, <3>1, <3>2, <3>3
  <2> QED
    BY <1>9, <2>1, <2>3, VerdictGrows DEF Passes
<1>12. CASE CompileStep
  <2>1. /\ (pass = "validated" /\ Accepted) \/ pass = "compile"
        /\ UNCHANGED <<bundle, graph, verdict, routes>>
        /\ pass' = "compile" \/ (pass' = "compiled" /\ stack' = <<>>)
    BY <1>12 DEF CompileStep, BeginCompile, Claim, BindCall, PutPlan, EndCompile
  <2> QED
    BY <1>9, <2>1, VerdictGrows DEF VerdictTyped, Passes
<1>13. CASE UNCHANGED bundleVars
  BY <1>13 DEF bundleVars, GraphInv, VerdictTyped, RootChosen, Rooted, Passes
<1> QED
  BY <1>2, <1>3, <1>4, <1>5, <1>6, <1>7, <1>8, <1>10, <1>11, <1>12, <1>13
     DEF BundleNext, GraphStep

-----------------------------------------------------------------------------
(* The root of an accepted document: no process calls it, and every call of  *)
(* it is one the walk counted.                                               *)
LEMMA AcceptedRoot ==
  ASSUME GraphInv, pass \in {"validated", "compile", "compiled"}, Accepted
  PROVE  /\ Rooted /\ verdict.root \in DOMAIN bundle /\ verdict.root \in Runnable(bundle)
         /\ graph.done = Ids(bundle) /\ CallGraphIssues(bundle, graph) = {}
         /\ OwnIssues(bundle, bundle[verdict.root]) = {}
<1>1. Rooted
  BY DEF GraphInv, RootChosen, Accepted
<1>2. /\ verdict.root \in DOMAIN bundle /\ verdict.root \in Runnable(bundle)
      /\ graph.done = Ids(bundle) /\ CallGraphIssues(bundle, graph) \subseteq verdict.issues
      /\ OwnIssues(bundle, bundle[verdict.root]) \subseteq verdict.issues
  BY <1>1 DEF GraphInv, RootChosen
<1> QED
  BY <1>1, <1>2 DEF Accepted

LEMMA NoGraphIssues ==
  ASSUME NEW b, NEW g, CallGraphIssues(b, g) = {}
  PROVE  /\ DuplicateIds(b) = {} /\ NameClash(b, g) = {} /\ g.cycles = {} /\ TooLarge(g) = {}
  BY DEF CallGraphIssues

LEMMA NoOwnIssues ==
  ASSUME NEW b, NEW p, OwnIssues(b, p) = {}, NEW c \in ToSet(p.calls)
  PROVE  IsCall(b, c) /\ ~ProcessOf(b, c[2]).ignored /\ ProcessOf(b, c[2]).started
<1>1. CallIssues(b, p) = {}
  BY DEF OwnIssues
<1>2. IsCall(b, c) /\ ~ProcessOf(b, c[2]).ignored
  BY <1>1 DEF CallIssues
<1> QED
  BY <1>1, <1>2 DEF CallIssues

LEMMA RunnableIs ==
  ASSUME NEW b, IsBundle(b), NEW r \in Runnable(b)
  PROVE  /\ r \in DOMAIN b /\ ~b[r].ignored
         /\ Len(b) = 1 \/ \A p \in ToSet(b) : ~p.ignored => \A c \in ToSet(p.calls) : c[2] # b[r].id
<1> DEFINE called == UNION {{c[2] : c \in ToSet(p.calls)} : p \in {q \in ToSet(b) : ~q.ignored}}
<1>1. CASE Len(b) = 1
  BY <1>1 DEF Runnable
<1>2. CASE Len(b) # 1
  <2>1. r \in DOMAIN b /\ ~b[r].ignored /\ b[r].id \notin called
    BY <1>2 DEF Runnable
  <2> QED
    BY <2>1
<1> QED
  BY <1>1, <1>2

LEMMA RootIsNotCalled ==
  ASSUME GraphInv, pass \in {"validated", "compile", "compiled"}, Accepted
  PROVE  RootId \notin graph.called
<1> SUFFICES ASSUME RootId \in graph.called PROVE FALSE
  OBVIOUS
<1>1. /\ verdict.root \in Runnable(bundle) /\ graph.done = Ids(bundle)
      /\ CallGraphIssues(bundle, graph) = {} /\ IsBundle(bundle) /\ GraphSound(bundle, graph)
  BY AcceptedRoot DEF GraphInv
<1>2. graph.cycles = {}
  BY <1>1, NoGraphIssues
<1>3. HasNoCycle(bundle, Ids(bundle))
  BY <1>1, <1>2 DEF GraphSound
<1>4. IsCalled(bundle, RootId)
  BY <1>1 DEF GraphSound
<1>5. PICK p \in Ids(bundle) : \E k \in SitesOf(bundle, p) : RootId = Target(bundle, p, k)
  BY <1>4 DEF IsCalled
<1>6. PICK k \in SitesOf(bundle, p) : RootId = Target(bundle, p, k)
  BY <1>5
<1>7. PICK i \in DOMAIN bundle : ProcessOf(bundle, p) = bundle[i] /\ bundle[i].id = p
  BY <1>1, <1>5, ProcessIsThere
<1>8. ~bundle[i].ignored /\ k \in DOMAIN bundle[i].calls /\ bundle[i].calls[k][2] = RootId
  BY <1>6, <1>7 DEF SitesOf, Counted, Target
<1>9. bundle[i] \in ToSet(bundle) /\ bundle[i].calls[k] \in ToSet(bundle[i].calls)
  BY <1>8 DEF ToSet
<1>10. Len(bundle) = 1
  BY <1>1, <1>8, <1>9, RunnableIs DEF RootId
<1>11. DOMAIN bundle = {1}
  BY <1>1, <1>10 DEF IsBundle
<1>12. i = verdict.root /\ p = RootId /\ Ids(bundle) = {RootId}
  BY <1>1, <1>7, <1>11, RunnableIs DEF RootId, Ids
<1>13. \E id \in {RootId} : \A j \in SitesOf(bundle, id) : Target(bundle, id, j) \notin {RootId}
  BY <1>3, <1>12 DEF HasNoCycle
<1> QED
  BY <1>6, <1>12, <1>13

LEMMA AcceptedIsCounted ==
  ASSUME GraphInv
  PROVE  AcceptedFitsTheLimit
<1> SUFFICES ASSUME pass = "validated", Accepted, bundle[verdict.root].calls # <<>>
             PROVE  Cardinality(Expansion(bundle, RootId)) =< TaskLimit
  BY DEF AcceptedFitsTheLimit
<1>1. /\ verdict.root \in DOMAIN bundle /\ verdict.root \in Runnable(bundle)
      /\ graph.done = Ids(bundle) /\ CallGraphIssues(bundle, graph) = {}
      /\ OwnIssues(bundle, bundle[verdict.root]) = {} /\ IsBundle(bundle)
      /\ GraphSound(bundle, graph) /\ graph \in Graphs(bundle)
  BY AcceptedRoot DEF GraphInv
<1>2. DuplicateIds(bundle) = {} /\ graph.cycles = {} /\ TooLarge(graph) = {}
  BY <1>1, NoGraphIssues
<1>3. ProcessOf(bundle, RootId) = bundle[verdict.root] /\ RootId \in Ids(bundle)
  BY <1>1, <1>2, OnlyProcess DEF RootId, Ids
<1>4. 1 \in DOMAIN ProcessOf(bundle, RootId).calls
  <2>1. /\ ProcessOf(bundle, RootId).calls \in Seq(ToSet(ProcessOf(bundle, RootId).calls))
        /\ ProcessOf(bundle, RootId).calls # <<>>
    BY <1>1, <1>3, ProcessTyped
  <2> QED
    BY <2>1, TopIsThere
<1>5. 1 \in SitesOf(bundle, RootId)
  <2>1. ProcessOf(bundle, RootId).calls[1] \in ToSet(bundle[verdict.root].calls)
    BY <1>3, <1>4 DEF ToSet
  <2>2. IsCall(bundle, ProcessOf(bundle, RootId).calls[1])
    BY <1>1, <2>1, NoOwnIssues
  <2>3. ~ProcessOf(bundle, RootId).ignored
    BY <1>1, <1>3, RunnableIs
  <2> QED
    BY <1>4, <2>2, <2>3 DEF SitesOf, Counted
<1>6. RootId \in graph.calls \ graph.called
  BY <1>1, <1>3, <1>5, RootIsNotCalled DEF GraphSound
<1>7. graph.size[RootId] \in Nat /\ TaskLimit \in Nat
  BY <1>1, <1>3, BundlesAreBundles DEF Graphs
<1>8. graph.size[RootId] =< TaskLimit
  BY <1>2, <1>6, <1>7 DEF TooLarge
<1>9. Counts(Expansion(bundle, RootId), graph.size[RootId])
  BY <1>1, <1>2, <1>3, <1>8 DEF GraphSound
<1> QED
  BY <1>8, <1>9 DEF Counts

(* The root of a document that is accepted has, with every call of it        *)
(* expanded on every way, no more tasks than a workflow may have             *)
(* (ValidateCallGraph, validateExpandedSize).                                *)
THEOREM AcceptedFit == BundleSpec => []AcceptedFitsTheLimit
<1>1. BundleInit => GraphInv
  BY GraphInit
<1>2. GraphInv /\ [BundleNext]_bundleVars => GraphInv'
  BY GraphIsKept
<1>3. GraphInv => AcceptedFitsTheLimit
  BY AcceptedIsCounted
<1> QED
  BY <1>1, <1>2, <1>3, PTL DEF BundleSpec

-----------------------------------------------------------------------------
(* What a sequence holds, a queue that grows and shrinks.                    *)
LEMMA AppendHolds ==
  ASSUME NEW S, NEW s \in Seq(S), NEW x \in S
  PROVE  ToSet(Append(s, x)) = ToSet(s) \cup {x}
<1>1. /\ DOMAIN Append(s, x) = 1..(Len(s) + 1) /\ Append(s, x)[Len(s) + 1] = x
      /\ \A i \in 1..Len(s) : Append(s, x)[i] = s[i]
  BY Pushed
<1>2. DOMAIN s = 1..Len(s) /\ Len(s) \in Nat
  OBVIOUS
<1>3. \A i \in 1..(Len(s) + 1) : i = Len(s) + 1 \/ i \in 1..Len(s)
  BY <1>2
<1>4. Len(s) + 1 \in 1..(Len(s) + 1) /\ \A i \in 1..Len(s) : i \in 1..(Len(s) + 1)
  BY <1>2
<1> QED
  BY <1>1, <1>2, <1>3, <1>4 DEF ToSet

LEMMA TailHolds ==
  ASSUME NEW S, NEW s \in Seq(S), s # <<>>
  PROVE  ToSet(s) = {Head(s)} \cup ToSet(Tail(s)) /\ Tail(s) \in Seq(S) /\ Head(s) \in S
<1>1. /\ Tail(s) \in Seq(S) /\ Len(Tail(s)) = Len(s) - 1 /\ Head(s) \in S /\ Head(s) = s[1]
      /\ \A i \in 1..(Len(s) - 1) : Tail(s)[i] = s[i + 1]
  BY HeadTailProperties
<1>2. Len(s) \in Nat \ {0} /\ DOMAIN s = 1..Len(s)
  BY TopIsThere
<1> DEFINE t == Tail(s)
<1>3. DOMAIN t = 1..(Len(s) - 1)
  BY <1>1
<1> HIDE DEF t
<1>4. \A n \in Nat \ {0} : /\ 1 \in 1..n /\ \A i \in 1..(n - 1) : i + 1 \in 1..n
                           /\ \A i \in 1..n : i = 1 \/ (i - 1 \in 1..(n - 1) /\ i - 1 + 1 = i)
  OBVIOUS
<1>5. /\ 1 \in 1..Len(s) /\ \A i \in 1..(Len(s) - 1) : i + 1 \in 1..Len(s)
      /\ \A i \in 1..Len(s) : i = 1 \/ (i - 1 \in 1..(Len(s) - 1) /\ i - 1 + 1 = i)
  BY <1>2, <1>4
<1>6. ASSUME NEW i \in DOMAIN s PROVE s[i] = Head(s) \/ \E j \in DOMAIN t : s[i] = t[j]
  BY <1>1, <1>2, <1>3, <1>5 DEF t
<1>7. ASSUME NEW j \in DOMAIN t PROVE \E i \in DOMAIN s : t[j] = s[i]
  BY <1>1, <1>2, <1>3, <1>5 DEF t
<1>8. \E i \in DOMAIN s : Head(s) = s[i]
  BY <1>1, <1>2, <1>5
<1>9. ToSet(s) = {Head(s)} \cup ToSet(t)
  BY <1>6, <1>7, <1>8 DEF ToSet
<1> QED
  BY <1>1, <1>9 DEF t

(* The walk over the bodies, a step at a time.                               *)
LEMMA WalkedIs ==
  ASSUME GraphInv, Rooted, NEW id \in Ids(bundle)
  PROVE  /\ \E i \in DOMAIN bundle : Walked(id) = bundle[i] /\ bundle[i].id = id
         /\ Walked(id).calls \in Seq(ToSet(Walked(id).calls))
         /\ RootId \in Ids(bundle)
<1>1. verdict.root \in DOMAIN bundle /\ IsBundle(bundle)
  BY DEF GraphInv, RootChosen
<1>2. PICK i \in DOMAIN bundle : Walked(id) = bundle[i] /\ bundle[i].id = id
  BY <1>1, ProcessIsThere DEF Walked, RootId
<1>3. bundle[i].calls \in Seq({bundle[i].calls[k] : k \in DOMAIN bundle[i].calls})
  BY <1>1 DEF IsBundle
<1>4. RootId \in Ids(bundle)
  BY <1>1 DEF RootId, Ids
<1> QED
  BY <1>2, <1>3, <1>4 DEF ToSet

BodiesUnderWay ==
  GraphInv /\ Rooted /\ bodies \in BodyWalks(bundle) /\ BodiesWalk(bodies)

LEMMA BodyHere ==
  ASSUME BodiesUnderWay, AtBodyCall
  PROVE  LET id == Head(bodies.queue)
         IN /\ id \in Ids(bundle) /\ id \in VisitedBy(bodies)
            /\ BodyCall = Walked(id).calls[bodies.at] /\ bodies.at \in DOMAIN Walked(id).calls
            /\ BodyCall[1] \in CallNames(bundle) /\ BodyCall \in ToSet(Walked(id).calls)
            /\ Followed(BodyCall) => /\ BodyCall[2] \in Ids(bundle) /\ BodyCall \in BodyCalls(id)
                                     /\ <<id, BodyCall[2]>> \in BodyEdges
<1> DEFINE id == Head(bodies.queue)
<1>1. bodies.queue \in Seq(Ids(bundle)) /\ bodies.queue # <<>>
  BY DEF BodiesUnderWay, BodyWalks, AtBodyCall
<1>2. id \in Ids(bundle) /\ id \in ToSet(bodies.queue)
  BY <1>1, TailHolds
<1>3. id \in VisitedBy(bodies)
  BY <1>2 DEF BodiesUnderWay, BodiesWalk
<1>4. PICK i \in DOMAIN bundle : Walked(id) = bundle[i] /\ bundle[i].id = id
  BY <1>2, WalkedIs DEF BodiesUnderWay
<1> HIDE DEF id
<1>5. BodyCall = Walked(id).calls[bodies.at] /\ bodies.at \in DOMAIN Walked(id).calls
  BY DEF BodyCall, AtBodyCall, id
<1>6. BodyCall[1] \in CallNames(bundle) /\ BodyCall \in ToSet(Walked(id).calls)
  BY <1>4, <1>5, CallIsNamed
<1>7. ASSUME Followed(BodyCall)
      PROVE  /\ BodyCall[2] \in Ids(bundle) /\ BodyCall \in BodyCalls(id)
             /\ <<id, BodyCall[2]>> \in BodyEdges
  <2>1. BodyCall[2] \in Ids(bundle)
    BY <1>7 DEF Followed, IsCall
  <2>2. BodyCall \in BodyCalls(id)
    BY <1>6, <1>7 DEF BodyCalls
  <2>3. <<id, BodyCall[2]>> \in {<<id, c[2]>> : c \in BodyCalls(id)}
    BY <2>2
  <2> QED
    BY <1>2, <2>1, <2>2, <2>3 DEF BodyEdges
<1> QED
  BY <1>2, <1>3, <1>5, <1>6, <1>7 DEF id

LEMMA BodyWalkGoesOn ==
  ASSUME NEW b, NEW y \in BodyWalks(b), NEW n \in Nat \ {0}, NEW z, z = [y EXCEPT !.at = n]
  PROVE  z \in BodyWalks(b) /\ z.queue = y.queue /\ z.order = y.order
         /\ z.callers = y.callers /\ z.at = n
  BY DEF BodyWalks

LEMMA PassBodyCallKeeps ==
  ASSUME BodiesUnderWay, PassBodyCall
  PROVE  bodies' \in BodyWalks(bundle) /\ BodiesWalk(bodies')
<1>1. bodies \in BodyWalks(bundle) /\ BodiesWalk(bodies) /\ AtBodyCall /\ ~Followed(BodyCall)
      /\ bodies' = [bodies EXCEPT !.at = @ + 1]
  BY DEF BodiesUnderWay, PassBodyCall
<1> PICK y : y = bodies'
  OBVIOUS
<1>2. /\ y \in BodyWalks(bundle) /\ y.queue = bodies.queue /\ y.order = bodies.order
      /\ y.callers = bodies.callers /\ y.at = bodies.at + 1 /\ bodies.at \in Nat
  <2>1. bodies.at \in Nat \ {0} /\ bodies.queue \in Seq(Ids(bundle))
    BY <1>1 DEF BodyWalks
  <2>2. bodies.at + 1 \in Nat \ {0}
    BY <2>1
  <2> QED
    BY <1>1, <2>1, <2>2, BodyWalkGoesOn
<1>3. VisitedBy(y) = VisitedBy(bodies) /\ \A id, c : Noted(y, id, c) <=> Noted(bodies, id, c)
  BY <1>2 DEF VisitedBy, Noted
<1> DEFINE id == Head(bodies.queue)
<1>4. ASSUME NEW k \in DOMAIN Walked(id).calls, k < y.at, Followed(Walked(id).calls[k])
      PROVE  Noted(y, id, Walked(id).calls[k])
  <2>1. id \in Ids(bundle) /\ BodyCall = Walked(id).calls[bodies.at] /\ bodies.queue # <<>>
    BY <1>1, BodyHere DEF AtBodyCall
  <2>2. k # bodies.at
    BY <1>1, <1>4, <2>1
  <2>3. k \in Nat
    BY <2>1, WalkedIs DEF BodiesUnderWay
  <2>4. k < bodies.at
    BY <1>2, <1>4, <2>2, <2>3
  <2> QED
    BY <1>1, <1>3, <1>4, <2>1, <2>4 DEF BodiesWalk
<1> HIDE DEF id
<1>5. BodiesWalk(y)
  BY <1>1, <1>2, <1>3, <1>4 DEF BodiesWalk, id
<1> QED
  BY <1>2, <1>5

LEMMA NextBodyKeeps ==
  ASSUME BodiesUnderWay, NextBody
  PROVE  bodies' \in BodyWalks(bundle) /\ BodiesWalk(bodies')
<1>1. bodies \in BodyWalks(bundle) /\ BodiesWalk(bodies) /\ bodies.queue # <<>> /\ ~AtBodyCall
      /\ bodies' = [queue |-> Tail(bodies.queue), at |-> 1,
                    order |-> bodies.order, callers |-> bodies.callers]
  BY DEF BodiesUnderWay, NextBody
<1> PICK y : y = bodies'
  OBVIOUS
<1> DEFINE id == Head(bodies.queue)
<1>2. /\ bodies.queue \in Seq(Ids(bundle)) /\ bodies.at \in Nat \ {0}
      /\ ToSet(bodies.queue) = {id} \cup ToSet(Tail(bodies.queue))
      /\ Tail(bodies.queue) \in Seq(Ids(bundle)) /\ id \in Ids(bundle)
  BY <1>1, TailHolds DEF BodyWalks
<1>3. /\ y \in BodyWalks(bundle) /\ y.queue = Tail(bodies.queue) /\ y.order = bodies.order
      /\ y.callers = bodies.callers /\ y.at = 1
  <2>1. PICK q \in Seq(Ids(bundle)) : q = Tail(bodies.queue)
    BY <1>2
  <2>2. y = [queue |-> q, at |-> 1, order |-> bodies.order, callers |-> bodies.callers]
    BY <1>1, <2>1
  <2>3. bodies.order \in Seq(Ids(bundle)) /\ 1 \in Nat \ {0}
        /\ bodies.callers \in [Ids(bundle) -> Seq(Ids(bundle) \X CallNames(bundle))]
    BY <1>1 DEF BodyWalks
  <2>4. y \in BodyWalks(bundle)
    BY <2>1, <2>2, <2>3 DEF BodyWalks
  <2> QED
    BY <2>1, <2>2, <2>4
<1>4. VisitedBy(y) = VisitedBy(bodies) /\ \A x, c : Noted(y, x, c) <=> Noted(bodies, x, c)
  BY <1>3 DEF VisitedBy, Noted
<1>5. ASSUME NEW c \in BodyCalls(id) PROVE Noted(bodies, id, c)
  <2>1. PICK k \in DOMAIN Walked(id).calls : c = Walked(id).calls[k] /\ Followed(c)
    BY DEF BodyCalls, ToSet
  <2>2. /\ Walked(id).calls \in Seq(ToSet(Walked(id).calls))
        /\ bodies.at \notin DOMAIN Walked(id).calls
    BY <1>1, <1>2, WalkedIs DEF BodiesUnderWay, AtBodyCall
  <2>3. k < bodies.at
    BY <1>2, <2>1, <2>2
  <2> QED
    BY <1>1, <2>1, <2>3 DEF BodiesWalk
<1> HIDE DEF id
<1>6. ASSUME NEW x \in VisitedBy(y) \ ToSet(y.queue), NEW c \in BodyCalls(x) PROVE Noted(y, x, c)
  <2>1. CASE x = id
    BY <1>4, <1>5, <2>1
  <2>2. CASE x # id
    BY <1>1, <1>2, <1>3, <1>4, <2>2 DEF BodiesWalk
  <2> QED
    BY <2>1, <2>2
<1>7. \A k : k < y.at => k \notin DOMAIN Walked(Head(y.queue)).calls \/ y.queue = <<>>
  <2> SUFFICES ASSUME NEW k, k < y.at, y.queue # <<>>
               PROVE  k \notin DOMAIN Walked(Head(y.queue)).calls
    OBVIOUS
  <2>1. Head(y.queue) \in Ids(bundle)
    BY <1>2, <1>3, TailHolds
  <2> QED
    BY <1>3, <2>1, WalkedIs DEF BodiesUnderWay
<1>8. BodiesWalk(y)
  BY <1>1, <1>2, <1>3, <1>4, <1>6, <1>7 DEF BodiesWalk
<1> QED
  BY <1>3, <1>8

LEMMA NoteCallerIs ==
  ASSUME BodiesUnderWay, AtBodyCall, Followed(BodyCall),
         NEW q \in Seq(Ids(bundle)), NEW o \in Seq(Ids(bundle)), NEW y, y = NoteCaller(q, o)
  PROVE  /\ y \in BodyWalks(bundle) /\ y.queue = q /\ y.order = o /\ y.at = bodies.at + 1
         /\ bodies.at \in Nat
         /\ \A x \in Ids(bundle) :
              ToSet(y.callers[x]) = ToSet(bodies.callers[x]) \cup
                (IF x = BodyCall[2] THEN {<<Head(bodies.queue), BodyCall[1]>>} ELSE {})
<1> DEFINE n == <<Head(bodies.queue), BodyCall[1]>>
           x == BodyCall[2]
           Callers == Ids(bundle) \X CallNames(bundle)
<1>1. n \in Callers /\ x \in Ids(bundle)
  BY BodyHere
<1>2. bodies.at \in Nat \ {0} /\ bodies.callers \in [Ids(bundle) -> Seq(Callers)]
  BY DEF BodiesUnderWay, BodyWalks
<1> HIDE DEF n, x, Callers
<1>3. bodies.callers[x] \in Seq(Callers)
  BY <1>1, <1>2
<1>4. PICK m \in Seq(Callers) : m = Append(bodies.callers[x], n) /\ ToSet(m) = ToSet(bodies.callers[x]) \cup {n}
  <2>1. Append(bodies.callers[x], n) \in Seq(Callers)
    BY <1>1, <1>3, Pushed
  <2>2. ToSet(Append(bodies.callers[x], n)) = ToSet(bodies.callers[x]) \cup {n}
    BY <1>1, <1>3, AppendHolds
  <2> QED
    BY <2>1, <2>2
<1>5. PICK g \in [Ids(bundle) -> Seq(Callers)] : g = [bodies.callers EXCEPT ![x] = m]
  BY <1>1, <1>2
<1>6. y = [queue |-> q, order |-> o, at |-> bodies.at + 1, callers |-> g]
  BY <1>4, <1>5 DEF NoteCaller, n, x
<1>7. bodies.at + 1 \in Nat \ {0}
  BY <1>2
<1>8. y \in BodyWalks(bundle)
  BY <1>5, <1>6, <1>7 DEF BodyWalks, Callers
<1>9. y.queue = q /\ y.order = o /\ y.at = bodies.at + 1 /\ y.callers = g
  BY <1>6
<1>10. ASSUME NEW z \in Ids(bundle)
       PROVE  ToSet(y.callers[z]) = ToSet(bodies.callers[z]) \cup (IF z = x THEN {n} ELSE {})
  <2>1. CASE z = x
    <3>1. y.callers[z] = m
      BY <1>1, <1>2, <1>5, <1>9, <2>1
    <3> QED
      BY <1>4, <2>1, <3>1
  <2>2. CASE z # x
    <3>1. y.callers[z] = bodies.callers[z]
      BY <1>2, <1>5, <1>9, <2>2
    <3> QED
      BY <2>2, <3>1
  <2> QED
    BY <2>1, <2>2
<1> QED
  BY <1>2, <1>8, <1>9, <1>10 DEF n, x

LEMMA WalkNotes ==
  ASSUME BodiesUnderWay, AtBodyCall, Followed(BodyCall),
         NEW q \in Seq(Ids(bundle)), NEW o \in Seq(Ids(bundle)), NEW y, y = NoteCaller(q, o),
         q # <<>>, Head(q) = Head(bodies.queue),
         VisitedBy(y) = VisitedBy(bodies) \cup {BodyCall[2]},
         ToSet(q) \subseteq VisitedBy(y),
         VisitedBy(y) \ ToSet(q) \subseteq VisitedBy(bodies) \ ToSet(bodies.queue)
  PROVE  BodiesWalk(y)
<1> DEFINE id == Head(bodies.queue)
           x == BodyCall[2]
<1>1. /\ y \in BodyWalks(bundle) /\ y.queue = q /\ y.order = o /\ y.at = bodies.at + 1
      /\ bodies.at \in Nat
      /\ \A z \in Ids(bundle) :
           ToSet(y.callers[z]) = ToSet(bodies.callers[z]) \cup
             (IF z = x THEN {<<id, BodyCall[1]>>} ELSE {})
  BY NoteCallerIs
<1>2. /\ id \in Ids(bundle) /\ id \in VisitedBy(bodies)
      /\ BodyCall = Walked(id).calls[bodies.at] /\ bodies.at \in DOMAIN Walked(id).calls
      /\ x \in Ids(bundle) /\ BodyCall \in BodyCalls(id) /\ <<id, x>> \in BodyEdges
  BY BodyHere
<1>3. BodiesWalk(bodies) /\ bodies.queue # <<>>
  BY DEF BodiesUnderWay, AtBodyCall
<1>4. ASSUME NEW S \in SUBSET Ids(bundle), ClosedFromRoot(S) PROVE VisitedBy(y) \subseteq S
  <2>1. VisitedBy(bodies) \subseteq S
    BY <1>3, <1>4 DEF BodiesWalk
  <2>2. <<id, x>>[1] \in S
    BY <1>2, <2>1
  <2>3. <<id, x>>[2] \in S
    BY <1>2, <1>4, <2>2, Zenon DEF ClosedFromRoot
  <2> QED
    BY <2>1, <2>3
<1>5. ASSUME NEW z, NEW c, c[2] \in Ids(bundle), Noted(bodies, z, c) PROVE Noted(y, z, c)
  BY <1>1, <1>5 DEF Noted
<1>6. Noted(y, id, BodyCall)
  <2>1. <<id, BodyCall[1]>> \in ToSet(y.callers[x])
    BY <1>1, <1>2
  <2> QED
    BY <2>1 DEF Noted
<1>7. \A z : \A c \in BodyCalls(z) : c[2] \in Ids(bundle)
  BY DEF BodyCalls, Followed, IsCall
<1>8. ASSUME NEW z \in VisitedBy(y) \ ToSet(q), NEW c \in BodyCalls(z) PROVE Noted(y, z, c)
  BY <1>3, <1>5, <1>7 DEF BodiesWalk
<1>9. ASSUME NEW k \in DOMAIN Walked(id).calls, k < y.at, Followed(Walked(id).calls[k])
      PROVE  Noted(y, id, Walked(id).calls[k])
  <2>1. k \in Nat
    BY <1>2, WalkedIs DEF BodiesUnderWay
  <2>2. CASE k = bodies.at
    BY <1>2, <1>6, <2>2
  <2>3. CASE k # bodies.at
    <3>1. k < bodies.at
      BY <1>1, <1>9, <2>1, <2>3
    <3>2. Noted(bodies, id, Walked(id).calls[k])
      BY <1>3, <1>9, <3>1 DEF BodiesWalk
    <3>3. Walked(id).calls[k][2] \in Ids(bundle)
      BY <1>9 DEF Followed, IsCall
    <3> QED
      BY <1>5, <3>2, <3>3
  <2> QED
    BY <2>2, <2>3
<1>10. ASSUME NEW z \in Ids(bundle), NEW n \in ToSet(y.callers[z])
       PROVE  n[1] \in VisitedBy(y) /\ \E c \in BodyCalls(n[1]) : c[1] = n[2] /\ c[2] = z
  <2>1. CASE n \in ToSet(bodies.callers[z])
    BY <1>3, <2>1 DEF BodiesWalk
  <2>2. CASE n \notin ToSet(bodies.callers[z])
    <3>1. z = x /\ n = <<id, BodyCall[1]>>
      BY <1>1, <2>2
    <3> QED
      BY <1>2, <3>1
  <2> QED
    BY <2>1, <2>2
<1> HIDE DEF id, x
<1> QED
  BY <1>1, <1>4, <1>8, <1>9, <1>10 DEF BodiesWalk, id

LEMMA NoteBodyCallKeeps ==
  ASSUME BodiesUnderWay, NoteBodyCall
  PROVE  bodies' \in BodyWalks(bundle) /\ BodiesWalk(bodies')
<1>1. AtBodyCall /\ Followed(BodyCall) /\ BodyCall[2] \in VisitedBy(bodies)
      /\ bodies' = NoteCaller(bodies.queue, bodies.order) /\ bodies.queue # <<>>
  BY DEF NoteBodyCall, VisitedBodies, VisitedBy, AtBodyCall
<1>2. bodies.queue \in Seq(Ids(bundle)) /\ bodies.order \in Seq(Ids(bundle))
  BY DEF BodiesUnderWay, BodyWalks
<1> PICK y : y = bodies'
  OBVIOUS
<1>3. y \in BodyWalks(bundle) /\ y.queue = bodies.queue /\ y.order = bodies.order
  BY <1>1, <1>2, NoteCallerIs
<1>4. VisitedBy(y) = VisitedBy(bodies) \cup {BodyCall[2]}
  BY <1>1, <1>3 DEF VisitedBy
<1>5. ToSet(bodies.queue) \subseteq VisitedBy(y)
  BY <1>4 DEF BodiesUnderWay, BodiesWalk
<1>6. VisitedBy(y) \ ToSet(bodies.queue) \subseteq VisitedBy(bodies) \ ToSet(bodies.queue)
  BY <1>1, <1>4
<1> QED
  BY <1>1, <1>2, <1>3, <1>4, <1>5, <1>6, WalkNotes

LEMMA QueueBodyKeeps ==
  ASSUME BodiesUnderWay, QueueBody
  PROVE  bodies' \in BodyWalks(bundle) /\ BodiesWalk(bodies')
<1> DEFINE x == BodyCall[2]
           q == Append(bodies.queue, x)
           o == Append(bodies.order, x)
<1>1. AtBodyCall /\ Followed(BodyCall) /\ bodies' = NoteCaller(q, o) /\ bodies.queue # <<>>
  BY DEF QueueBody, AtBodyCall, Queued
<1>2. bodies.queue \in Seq(Ids(bundle)) /\ bodies.order \in Seq(Ids(bundle)) /\ x \in Ids(bundle)
  BY <1>1, BodyHere DEF BodiesUnderWay, BodyWalks
<1> HIDE DEF x
<1>3. /\ q \in Seq(Ids(bundle)) /\ o \in Seq(Ids(bundle)) /\ q # <<>> /\ Head(q) = Head(bodies.queue)
      /\ ToSet(q) = ToSet(bodies.queue) \cup {x} /\ ToSet(o) = ToSet(bodies.order) \cup {x}
  <2>1. ToSet(q) = ToSet(bodies.queue) \cup {x} /\ ToSet(o) = ToSet(bodies.order) \cup {x}
    BY <1>2, AppendHolds
  <2>2. /\ q \in Seq(Ids(bundle)) /\ o \in Seq(Ids(bundle)) /\ Len(q) = Len(bodies.queue) + 1
        /\ \A i \in 1..Len(bodies.queue) : q[i] = bodies.queue[i]
    BY <1>2, Pushed
  <2>3. Len(bodies.queue) \in Nat \ {0} /\ bodies.queue[1] = Head(bodies.queue)
    BY <1>1, <1>2, HeadTailProperties, TopIsThere
  <2>4. \A n \in Nat \ {0} : 1 \in 1..n /\ n + 1 # 0
    OBVIOUS
  <2>5. q[1] = bodies.queue[1] /\ Len(q) # 0
    BY <2>2, <2>3, <2>4
  <2> HIDE DEF q
  <2>6. q # <<>>
    BY <2>2, <2>5, EmptySeq
  <2>7. Head(q) = q[1]
    BY <2>2, <2>6, HeadTailProperties
  <2> QED
    BY <2>1, <2>2, <2>3, <2>5, <2>6, <2>7
<1> HIDE DEF q, o
<1> PICK y : y = bodies'
  OBVIOUS
<1>4. y \in BodyWalks(bundle) /\ y.queue = q /\ y.order = o
  BY <1>1, <1>3, NoteCallerIs
<1>5. VisitedBy(y) = VisitedBy(bodies) \cup {x}
  BY <1>3, <1>4 DEF VisitedBy
<1>6. ToSet(q) \subseteq VisitedBy(y)
  BY <1>3, <1>5 DEF BodiesUnderWay, BodiesWalk
<1>7. VisitedBy(y) \ ToSet(q) \subseteq VisitedBy(bodies) \ ToSet(bodies.queue)
  BY <1>3, <1>5
<1>8. BodiesWalk(y)
  BY <1>1, <1>3, <1>4, <1>5, <1>6, <1>7, WalkNotes DEF x
<1> QED
  BY <1>4, <1>8

(* While the document and the process that runs stay, what they lead to does.*)
LEMMA BodiesFrame ==
  ASSUME bundle' = bundle, verdict'.root = verdict.root, BodiesWalk(bodies')
  PROVE  BodiesWalk(bodies)'
<1>1. RootId' = RootId
  BY DEF RootId
<1>2. \A id : Walked(id)' = Walked(id)
  BY <1>1 DEF Walked
<1>3. (\A id : BodyCalls(id)' = BodyCalls(id)) /\ Ids(bundle)' = Ids(bundle)
  BY <1>2 DEF BodyCalls, Followed
<1>4. BodyEdges' = BodyEdges
  BY <1>3 DEF BodyEdges
<1>5. \A S : ClosedFromRoot(S)' <=> ClosedFromRoot(S)
  BY <1>1, <1>4 DEF ClosedFromRoot
<1>6. VisitedBy(bodies)' = VisitedBy(bodies') /\ \A id, c : Noted(bodies, id, c)' <=> Noted(bodies', id, c)
  BY <1>1 DEF VisitedBy, Noted
<1>7. \A c : Followed(c)' <=> Followed(c)
  BY DEF Followed
<1> QED
  BY <1>2, <1>3, <1>5, <1>6, <1>7 DEF BodiesWalk

LEMMA BodiesKept ==
  ASSUME bundle' = bundle, verdict'.root = verdict.root,
         bodies' \in BodyWalks(bundle), BodiesWalk(bodies'),
         pass' # "bodies" => bodies'.queue = <<>>
  PROVE  BodiesInv'
  BY BodiesFrame DEF BodiesInv

LEMMA BodiesBegin ==
  ASSUME GraphInv, ChooseRoot
  PROVE  BodiesInv'
<1>1. PICK r \in Runnable(bundle) :
        /\ verdict'.root = r /\ r \in DOMAIN bundle
        /\ bodies' = [queue |-> <<bundle[r].id>>, at |-> 1, order |-> <<>>,
                      callers |-> [id \in Ids(bundle) |-> <<>>]]
  BY ChooseRootIs
<1>2. bundle' = bundle /\ pass' = "bodies"
  BY DEF ChooseRoot
<1> DEFINE root == bundle[r].id
<1>3. root \in Ids(bundle) /\ RootId' = root
  BY <1>1, <1>2 DEF Ids, RootId
<1> HIDE DEF root
<1>4. bodies' = [queue |-> <<root>>, at |-> 1, order |-> <<>>, callers |-> [id \in Ids(bundle) |-> <<>>]]
  BY <1>1 DEF root
<1>5. bodies' \in BodyWalks(bundle)
  <2>1. <<root>> \in Seq(Ids(bundle)) /\ <<>> \in Seq(Ids(bundle)) /\ 1 \in Nat \ {0}
        /\ [id \in Ids(bundle) |-> <<>>] \in [Ids(bundle) -> Seq(Ids(bundle) \X CallNames(bundle))]
    BY <1>3
  <2> QED
    BY <1>4, <2>1 DEF BodyWalks
<1>6. /\ bodies'.queue = <<root>> /\ bodies'.order = <<>> /\ bodies'.at = 1
      /\ \A x \in Ids(bundle) : bodies'.callers[x] = <<>>
  BY <1>4
<1>7. ToSet(bodies'.queue) = {root} /\ ToSet(bodies'.order) = {} /\ Head(bodies'.queue) = root
  BY <1>6 DEF ToSet
<1>8. \A x \in Ids(bundle) : ToSet(bodies'.callers[x]) = {}
  BY <1>6 DEF ToSet
<1>9. (VisitedBy(bodies))' = {root}
  BY <1>3, <1>7 DEF VisitedBy
<1>10. /\ (ToSet(bodies.queue) \subseteq VisitedBy(bodies))'
       /\ (\A S \in SUBSET Ids(bundle) : ClosedFromRoot(S) => VisitedBy(bodies) \subseteq S)'
  BY <1>3, <1>7, <1>9 DEF ClosedFromRoot
<1>11. (\A id \in VisitedBy(bodies) \ ToSet(bodies.queue) :
          \A c \in BodyCalls(id) : Noted(bodies, id, c))'
  BY <1>7, <1>9
<1>12. ASSUME NEW k \in DOMAIN (Walked(Head(bodies.queue)).calls)', k < bodies'.at
       PROVE  FALSE
  <2>1. Walked(Head(bodies.queue))' = bundle[r]
    BY <1>1, <1>2, <1>3, <1>7 DEF Walked
  <2>2. bundle[r].calls \in Seq({bundle[r].calls[j] : j \in DOMAIN bundle[r].calls})
    BY <1>1 DEF GraphInv, IsBundle
  <2> QED
    BY <1>6, <1>12, <2>1, <2>2
<1>13. (\A x \in Ids(bundle) : \A n \in ToSet(bodies.callers[x]) :
          n[1] \in VisitedBy(bodies) /\ \E c \in BodyCalls(n[1]) : c[1] = n[2] /\ c[2] = x)'
  BY <1>2, <1>8
<1>14. BodiesWalk(bodies)'
  BY <1>10, <1>11, <1>12, <1>13 DEF BodiesWalk
<1> QED
  BY <1>2, <1>5, <1>14 DEF BodiesInv

LEMMA BodiesIsKept == GraphInv /\ BodiesInv /\ [BundleNext]_bundleVars => BodiesInv'
<1> SUFFICES ASSUME GraphInv, BodiesInv, [BundleNext]_bundleVars PROVE BodiesInv'
  OBVIOUS
<1>1. pass = "graph" => ~Rooted
  BY DEF GraphInv, RootChosen, Rooted, Unread
<1>2. pass = "bodies" => BodiesUnderWay
  BY DEF GraphInv, RootChosen, BodiesInv, BodiesUnderWay
<1>3. CASE GraphStep /\ ~ChooseRoot
  <2>1. pass = "graph" /\ (verdict' = verdict \/ RefuseBundle)
    BY <1>3 DEF GraphStep, VisitNext, SkipCall, VisitCalled, CountCall, EndVisit, RefuseBundle
  <2>2. verdict'.root = verdict.root
    BY <2>1, VerdictChanged DEF GraphInv, RefuseBundle
  <2>3. ~Rooted'
    BY <1>1, <2>1, <2>2 DEF Rooted
  <2> QED
    BY <2>3 DEF BodiesInv
<1>4. CASE ChooseRoot
  BY <1>4, BodiesBegin
<1>5. CASE BodiesStep
  <2>1. UNCHANGED <<bundle, verdict>> /\ pass = "bodies"
    BY <1>5 DEF BodiesStep, PassBodyCall, NoteBodyCall, QueueBody, NextBody, EndBodies
  <2>2. pass' # "bodies" => bodies'.queue = <<>>
    BY <1>5, <2>1 DEF BodiesStep, PassBodyCall, NoteBodyCall, QueueBody, NextBody, EndBodies
  <2>3. bodies' \in BodyWalks(bundle) /\ BodiesWalk(bodies')
    <3>1. CASE PassBodyCall
      BY <1>2, <2>1, <3>1, PassBodyCallKeeps
    <3>2. CASE NoteBodyCall
      BY <1>2, <2>1, <3>2, NoteBodyCallKeeps
    <3>3. CASE QueueBody
      BY <1>2, <2>1, <3>3, QueueBodyKeeps
    <3>4. CASE NextBody
      BY <1>2, <2>1, <3>4, NextBodyKeeps
    <3>5. CASE EndBodies
      BY <1>2, <2>1, <3>5 DEF EndBodies, BodiesUnderWay
    <3> QED
      BY <1>5, <3>1, <3>2, <3>3, <3>4, <3>5 DEF BodiesStep
  <2> QED
    BY <2>1, <2>2, <2>3, BodiesKept
<1>6. CASE RoutesStep \/ CompileStep \/ UNCHANGED bundleVars
  <2>1. /\ UNCHANGED <<bundle, bodies>> /\ (pass' # "bodies" => pass # "bodies")
        /\ (verdict' = verdict
              \/ (\E x : verdict' = [verdict EXCEPT !.issues = x])
              \/ (\E x : verdict' = [verdict EXCEPT !.inside = x]))
    BY <1>6 DEF bundleVars, RoutesStep, AttributeOwn, AttributeKnown, SeekRoutes, AuthorCalls,
       KnownCalls, CutCycle, SeekCaller, ReturnRoutes, AttributeFound, EndRoutes,
       CompileStep, BeginCompile, Claim, BindCall, PutPlan, EndCompile
  <2>2. verdict'.root = verdict.root
    <3>1. VerdictTyped
      BY DEF GraphInv
    <3> QED
      BY <2>1, <3>1, VerdictChanged
  <2>3. CASE Rooted
    BY <2>1, <2>2, <2>3, BodiesKept DEF BodiesInv
  <2>4. CASE ~Rooted
    BY <2>2, <2>4 DEF BodiesInv, Rooted
  <2> QED
    BY <2>3, <2>4
<1> QED
  BY <1>3, <1>4, <1>5, <1>6 DEF BundleNext

LEMMA BodiesInit == BundleInit => BodiesInv
  BY DEF BundleInit, StartsWith, Unread, BodiesInv, Rooted

(* Past the walk, the bodies it visited are those the root's calls lead to,  *)
(* and the callers of each are noted.                                        *)
LEMMA VisitedAreRunning ==
  ASSUME GraphInv, Rooted, BodiesInv, pass # "bodies"
  PROVE  /\ VisitedBy(bodies) = RunningBodies /\ RunningBodies \subseteq Ids(bundle)
         /\ ClosedFromRoot(RunningBodies)
         /\ \A S \in SUBSET Ids(bundle) : ClosedFromRoot(S) => RunningBodies \subseteq S
         /\ \A id \in RunningBodies : \A c \in BodyCalls(id) : <<id, c[1]>> \in ToSet(bodies.callers[c[2]])
         /\ \A x \in Ids(bundle) : \A n \in ToSet(bodies.callers[x]) :
              n[1] \in RunningBodies /\ \E c \in BodyCalls(n[1]) : c[1] = n[2] /\ c[2] = x
<1>1. bodies \in BodyWalks(bundle) /\ BodiesWalk(bodies) /\ ToSet(bodies.queue) = {}
  BY DEF BodiesInv, ToSet
<1> DEFINE V == VisitedBy(bodies)
<1>2. V \subseteq Ids(bundle)
  <2>1. bodies.order \in Seq(Ids(bundle)) /\ RootId \in Ids(bundle)
    BY <1>1, WalkedIs DEF BodyWalks, GraphInv, RootChosen, RootId, Ids
  <2>2. ToSet(bodies.order) \subseteq Ids(bundle)
    BY <2>1 DEF ToSet
  <2> QED
    BY <2>1, <2>2 DEF VisitedBy
<1>3. \A id \in V : \A c \in BodyCalls(id) : Noted(bodies, id, c)
  BY <1>1 DEF BodiesWalk
<1>4. ClosedFromRoot(V)
  <2>1. RootId \in V
    BY DEF VisitedBy
  <2>2. ASSUME NEW e \in BodyEdges, e[1] \in V PROVE e[2] \in V
    <3>1. PICK id \in Ids(bundle) : e \in {<<id, c[2]>> : c \in BodyCalls(id)}
      BY DEF BodyEdges
    <3>2. PICK c \in BodyCalls(id) : e = <<id, c[2]>>
      BY <3>1
    <3> QED
      BY <1>3, <2>2, <3>2 DEF Noted
  <2> QED
    BY <2>1, <2>2 DEF ClosedFromRoot
<1>5. \A S \in SUBSET Ids(bundle) : ClosedFromRoot(S) => V \subseteq S
  BY <1>1 DEF BodiesWalk
<1>6. \A x : x \in RunningBodies <=>
        x \in Ids(bundle) /\ \A S \in SUBSET Ids(bundle) : ClosedFromRoot(S) => x \in S
  BY DEF RunningBodies, Leading, ClosedFromRoot
<1>7. V = RunningBodies
  BY <1>2, <1>4, <1>5, <1>6
<1>8. \A x \in Ids(bundle) : \A n \in ToSet(bodies.callers[x]) :
        n[1] \in V /\ \E c \in BodyCalls(n[1]) : c[1] = n[2] /\ c[2] = x
  BY <1>1 DEF BodiesWalk
<1> QED
  BY <1>2, <1>3, <1>4, <1>5, <1>7, <1>8 DEF Noted

-----------------------------------------------------------------------------
(* Walking back over the callers.                                            *)
LEMMA BackIsLeast ==
  ASSUME NEW id, NEW V, NEW S \in SUBSET Ids(bundle), id \in S, ClosedBack(S, V)
  PROVE  Back(id, V) \subseteq S
  BY DEF Back

LEMMA BackIsClosed ==
  ASSUME NEW id \in Ids(bundle), NEW V
  PROVE  id \in Back(id, V) /\ ClosedBack(Back(id, V), V) /\ Back(id, V) \subseteq Ids(bundle)
<1>1. id \in Back(id, V) /\ Back(id, V) \subseteq Ids(bundle)
  BY DEF Back
<1>2. ASSUME NEW x \in Back(id, V), NEW p \in Ids(bundle), Asking(x, p), p \notin V
      PROVE  p \in Back(id, V)
  <2>1. ASSUME NEW S \in SUBSET Ids(bundle), id \in S, ClosedBack(S, V) PROVE p \in S
    <3>1. x \in S
      BY <1>2, <2>1 DEF Back
    <3> QED
      BY <1>2, <2>1, <3>1 DEF ClosedBack
  <2> QED
    BY <2>1 DEF Back
<1> QED
  BY <1>1, <1>2 DEF ClosedBack

LEMMA RoutesShrink ==
  ASSUME NEW id \in Ids(bundle), NEW V
  PROVE  RoutesTo(id, V) \subseteq RoutesTo(id, {})
<1>1. ClosedBack(Back(id, {}), V)
  BY BackIsClosed DEF ClosedBack
<1>2. Back(id, V) \subseteq Back(id, {})
  BY <1>1, BackIsClosed, BackIsLeast
<1> QED
  BY <1>2 DEF RoutesTo

LEMMA RoutesOfCaller ==
  ASSUME NEW x \in Ids(bundle), NEW p \in Ids(bundle), Asking(x, p)
  PROVE  RoutesTo(p, {}) \subseteq RoutesTo(x, {})
<1>1. p \in Back(x, {}) /\ ClosedBack(Back(x, {}), {})
  BY BackIsClosed DEF ClosedBack
<1>2. Back(p, {}) \subseteq Back(x, {})
  BY <1>1, BackIsClosed, BackIsLeast
<1> QED
  BY <1>2 DEF RoutesTo

LEMMA OwnRoutes ==
  ASSUME NEW x \in Ids(bundle), NEW V
  PROVE  AuthorCallsInto(x) \subseteq RoutesTo(x, V)
  BY BackIsClosed DEF RoutesTo

(* What leads to x is x, and what leads to its callers without it.           *)
LEMMA RoutesUnroll ==
  ASSUME NEW x \in Ids(bundle), NEW V, NEW found, AuthorCallsInto(x) \subseteq found,
         \A p \in Ids(bundle) :
           Asking(x, p) /\ p \notin V \cup {x} => RoutesTo(p, V \cup {x}) \subseteq found
  PROVE  RoutesTo(x, V) \subseteq found
<1> DEFINE W == V \cup {x}
           callers == {p \in Ids(bundle) : Asking(x, p) /\ p \notin W}
           R == {x} \cup UNION {Back(p, W) : p \in callers}
<1>1. R \in SUBSET Ids(bundle) /\ x \in R
  BY DEF Back
<1>2. ASSUME NEW y \in R, NEW p \in Ids(bundle), Asking(y, p), p \notin V PROVE p \in R
  <2>1. CASE p = x
    BY <2>1
  <2>2. CASE p # x /\ y = x
    <3>1. p \in callers
      BY <1>2, <2>2
    <3>2. p \in Back(p, W)
      BY BackIsClosed
    <3> QED
      BY <3>1, <3>2
  <2>3. CASE p # x /\ y # x
    <3>1. PICK q \in callers : y \in Back(q, W)
      BY <2>3
    <3>2. ClosedBack(Back(q, W), W)
      BY BackIsClosed
    <3>3. p \in Back(q, W)
      BY <1>2, <2>3, <3>1, <3>2 DEF ClosedBack
    <3> QED
      BY <3>1, <3>3
  <2> QED
    BY <2>1, <2>2, <2>3
<1>3. ClosedBack(R, V)
  BY <1>2 DEF ClosedBack
<1>4. Back(x, V) \subseteq R
  BY <1>1, <1>3, BackIsLeast
<1>5. ASSUME NEW y \in R PROVE AuthorCallsInto(y) \subseteq found
  <2>1. CASE y = x
    BY <2>1
  <2>2. CASE y # x
    <3>1. PICK q \in callers : y \in Back(q, W)
      BY <2>2
    <3>2. AuthorCallsInto(y) \subseteq RoutesTo(q, W)
      BY <3>1 DEF RoutesTo
    <3> QED
      BY <3>1, <3>2
  <2> QED
    BY <2>1, <2>2
<1> HIDE DEF R
<1> QED
  BY <1>4, <1>5 DEF RoutesTo

(* The callers of a body, as routes goes through them.                       *)
RoutesReady == GraphInv /\ Rooted /\ bodies \in BodyWalks(bundle)

LEMMA CallersTyped ==
  ASSUME RoutesReady, NEW x \in Ids(bundle)
  PROVE  /\ bodies.callers[x] \in Seq(Ids(bundle) \X CallNames(bundle))
         /\ \A k \in DOMAIN bodies.callers[x] :
              LET c == bodies.callers[x][k]
              IN /\ c[1] \in Ids(bundle) /\ c[2] \in CallNames(bundle)
                 /\ c \in ToSet(bodies.callers[x]) /\ Library(bundle, c[1]) \in BOOLEAN
                 /\ (~Library(bundle, c[1]) => c[2] \in AuthorCallsInto(x))
                 /\ (Library(bundle, c[1]) => Asking(x, c[1]))
<1>1. bodies.callers[x] \in Seq(Ids(bundle) \X CallNames(bundle)) /\ IsBundle(bundle)
  BY DEF RoutesReady, BodyWalks, GraphInv
<1>2. ASSUME NEW k \in DOMAIN bodies.callers[x]
      PROVE  LET c == bodies.callers[x][k]
             IN /\ c[1] \in Ids(bundle) /\ c[2] \in CallNames(bundle)
                /\ c \in ToSet(bodies.callers[x]) /\ Library(bundle, c[1]) \in BOOLEAN
                /\ (~Library(bundle, c[1]) => c[2] \in AuthorCallsInto(x))
                /\ (Library(bundle, c[1]) => Asking(x, c[1]))
  <2> DEFINE c == bodies.callers[x][k]
  <2>1. c \in Ids(bundle) \X CallNames(bundle) /\ c \in ToSet(bodies.callers[x])
    BY <1>1 DEF ToSet
  <2>2. c[1] \in Ids(bundle) /\ c[2] \in CallNames(bundle)
    BY <2>1
  <2>3. Library(bundle, c[1]) \in BOOLEAN
    BY <1>1, <2>2, ProcessTyped
  <2> HIDE DEF c
  <2>4. (~Library(bundle, c[1]) => c[2] \in AuthorCallsInto(x))
        /\ (Library(bundle, c[1]) => Asking(x, c[1]))
    BY <2>1 DEF AuthorCallsInto, Asking
  <2> QED
    BY <2>1, <2>2, <2>3, <2>4 DEF c
<1> QED
  BY <1>1, <1>2

LEMMA RoutesAreNames ==
  ASSUME RoutesReady, NEW x \in Ids(bundle), NEW V
  PROVE  RoutesTo(x, V) \subseteq CallNames(bundle)
<1>1. ASSUME NEW y \in Ids(bundle), NEW n \in AuthorCallsInto(y) PROVE n \in CallNames(bundle)
  <2>1. PICK m \in ToSet(bodies.callers[y]) : n = m[2]
    BY DEF AuthorCallsInto
  <2>2. PICK k \in DOMAIN bodies.callers[y] : m = bodies.callers[y][k]
    BY DEF ToSet
  <2> QED
    BY <2>1, <2>2, CallersTyped
<1>2. Back(x, V) \subseteq Ids(bundle)
  BY DEF Back
<1> QED
  BY <1>1, <1>2 DEF RoutesTo

(* A search that went through every caller has found what leads to its body, *)
(* all of it when it cut no cycle or stands alone.                           *)
LEMMA SearchEnds ==
  ASSUME RoutesReady, NEW f \in Searches, NEW V, SearchSound(f, V \cup {f.id}),
         f.at \notin DOMAIN bodies.callers[f.id]
  PROVE  RoutesTo(f.id, V) \subseteq f.found /\ (f.complete => f.found = RoutesTo(f.id, {}))
<1> DEFINE x == f.id
           cs == bodies.callers[x]
<1>1. x \in Ids(bundle) /\ f.at \in Nat \ {0} /\ cs \in Seq(Ids(bundle) \X CallNames(bundle))
  BY CallersTyped DEF Searches
<1>2. ASSUME NEW k \in DOMAIN cs PROVE Passed(f, V \cup {x}, cs[k])
  <2>1. k < f.at
    BY <1>1
  <2> QED
    BY <2>1 DEF SearchSound
<1>3. AuthorCallsInto(x) \subseteq f.found
  <2> SUFFICES ASSUME NEW n \in AuthorCallsInto(x) PROVE n \in f.found
    OBVIOUS
  <2>1. PICK m \in ToSet(cs) : n = m[2] /\ ~Library(bundle, m[1])
    BY DEF AuthorCallsInto
  <2>2. PICK k \in DOMAIN cs : m = cs[k]
    BY DEF ToSet
  <2> QED
    BY <1>2, <2>1, <2>2 DEF Passed
<1>4. ASSUME NEW p \in Ids(bundle), Asking(x, p)
      PROVE  /\ p \notin V \cup {x} => RoutesTo(p, V \cup {x}) \subseteq f.found
             /\ f.complete => RoutesTo(p, {}) \subseteq f.found
  <2>1. PICK m \in ToSet(cs) : m[1] = p /\ Library(bundle, p)
    BY <1>4 DEF Asking
  <2>2. PICK k \in DOMAIN cs : m = cs[k]
    BY DEF ToSet
  <2> QED
    BY <1>2, <2>1, <2>2 DEF Passed
<1>5. RoutesTo(x, V) \subseteq f.found
  BY <1>1, <1>3, <1>4, RoutesUnroll
<1>6. ASSUME f.complete PROVE f.found = RoutesTo(x, {})
  <2>1. ASSUME NEW p \in Ids(bundle), Asking(x, p), p \notin {} \cup {x}
        PROVE  RoutesTo(p, {} \cup {x}) \subseteq f.found
    <3>1. RoutesTo(p, {} \cup {x}) \subseteq RoutesTo(p, {})
      BY RoutesShrink
    <3> QED
      BY <1>4, <1>6, <2>1, <3>1
  <2>2. RoutesTo(x, {}) \subseteq f.found
    BY <1>1, <1>3, <2>1, RoutesUnroll
  <2> QED
    BY <2>2 DEF SearchSound
<1> QED
  BY <1>5, <1>6

-----------------------------------------------------------------------------
(* The searches on the stack, a step at a time.                              *)
LEMMA PushedIsDistinct ==
  ASSUME NEW S, NEW s \in Seq(S), IsDistinct(s), NEW f \in S, \A i \in DOMAIN s : s[i].id # f.id
  PROVE  IsDistinct(Append(s, f))
<1> DEFINE t == Append(s, f)
<1> PICK n \in Nat : n = Len(s)
  OBVIOUS
<1>1. /\ DOMAIN t = 1..(n + 1) /\ t[n + 1] = f /\ DOMAIN s = 1..n
      /\ \A i \in 1..n : t[i] = s[i]
  BY Pushed
<1> HIDE DEF t
<1>2. ASSUME NEW i \in 1..(n + 1), NEW j \in 1..(n + 1), t[i].id = t[j].id PROVE i = j
  <2>1. (i = n + 1 \/ i \in 1..n) /\ (j = n + 1 \/ j \in 1..n)
    OBVIOUS
  <2>2. CASE i \in 1..n /\ j = n + 1
    BY <1>1, <1>2, <2>2
  <2>3. CASE i = n + 1 /\ j \in 1..n
    BY <1>1, <1>2, <2>3
  <2>4. CASE i \in 1..n /\ j \in 1..n
    BY <1>1, <1>2, <2>4 DEF IsDistinct
  <2> QED
    BY <2>1, <2>2, <2>3, <2>4
<1>3. IsDistinct(t)
  BY <1>1, <1>2 DEF IsDistinct
<1> QED
  BY <1>3 DEF t

LEMMA SearchPasses ==
  ASSUME RoutesReady, NEW f \in Searches, NEW V, SearchSound(f, V),
         f.at \in DOMAIN bodies.callers[f.id], NEW more, more \subseteq RoutesTo(f.id, {}),
         NEW whole \in BOOLEAN, NEW g,
         g = [id |-> f.id, at |-> f.at + 1, found |-> f.found \cup more,
              complete |-> f.complete /\ whole],
         Passed(g, V, bodies.callers[f.id][f.at])
  PROVE  g \in Searches /\ g.id = f.id /\ SearchSound(g, V)
<1> DEFINE cs == bodies.callers[f.id]
<1>1. /\ f.id \in Ids(bundle) /\ f.at \in Nat \ {0} /\ f.complete \in BOOLEAN
      /\ f.found \subseteq CallNames(bundle) /\ more \subseteq CallNames(bundle)
  BY RoutesAreNames DEF Searches
<1>2. /\ g.id = f.id /\ g.at = f.at + 1 /\ g.found = f.found \cup more
      /\ g.complete = (f.complete /\ whole)
  OBVIOUS
<1>3. g \in Searches
  <2>1. f.at + 1 \in Nat \ {0} /\ f.found \cup more \in SUBSET CallNames(bundle)
        /\ (f.complete /\ whole) \in BOOLEAN
    BY <1>1
  <2> QED
    BY <1>1, <2>1 DEF Searches
<1>4. cs \in Seq(Ids(bundle) \X CallNames(bundle))
  BY <1>1, CallersTyped
<1>5. f.at =< Len(cs) /\ Len(cs) \in Nat
  BY <1>4
<1> HIDE DEF cs
<1>6. g.at =< Len(cs) + 1
  BY <1>1, <1>2, <1>5
<1>7. ASSUME NEW k \in DOMAIN cs, k < g.at PROVE Passed(g, V, cs[k])
  <2>1. k \in Nat
    BY <1>4
  <2>2. CASE k = f.at
    BY <2>2 DEF cs
  <2>3. CASE k # f.at
    <3>1. k < f.at
      BY <1>1, <1>2, <1>7, <2>1, <2>3
    <3>2. Passed(f, V, cs[k])
      BY <1>7, <3>1 DEF SearchSound, cs
    <3>3. f.found \subseteq g.found /\ (g.complete => f.complete)
      BY <1>2
    <3> HIDE <1>2
    <3> QED
      BY <3>2, <3>3 DEF Passed
  <2> QED
    BY <2>2, <2>3
<1>8. g.found \subseteq RoutesTo(g.id, {}) /\ Library(bundle, g.id)
  BY <1>2 DEF SearchSound
<1>9. SearchSound(g, V)
  BY <1>2, <1>6, <1>7, <1>8 DEF SearchSound, cs
<1> QED
  BY <1>2, <1>3, <1>9

LEMMA SearchBegins ==
  ASSUME RoutesReady, NEW id \in Ids(bundle), Library(bundle, id), NEW V
  PROVE  Seek(id) \in Searches /\ Seek(id).id = id /\ SearchSound(Seek(id), V)
<1>1. /\ Seek(id).id = id /\ Seek(id).at = 1 /\ Seek(id).found = {} /\ Seek(id) \in Searches
  BY DEF Seek, Searches
<1>2. bodies.callers[id] \in Seq(Ids(bundle) \X CallNames(bundle))
  BY CallersTyped
<1>3. 1 =< Len(bodies.callers[id]) + 1 /\ \A k \in DOMAIN bodies.callers[id] : ~(k < 1)
  BY <1>2
<1> QED
  BY <1>1, <1>3 DEF SearchSound

LEMMA RoutesGoOn ==
  ASSUME NEW s, RoutesWalk(s), s # <<>>, NEW f \in Searches, f.id = Last(s).id,
         SearchSound(f, UpTo(s, Len(s)))
  PROVE  RoutesWalk([s EXCEPT ![Len(s)] = f]) /\ [s EXCEPT ![Len(s)] = f] # <<>>
         /\ [s EXCEPT ![Len(s)] = f][1].id = s[1].id
<1> DEFINE t == [s EXCEPT ![Len(s)] = f]
<1>1. s \in Seq(Searches) /\ s # <<>>
  BY DEF RoutesWalk
<1>2. /\ Len(s) \in Nat \ {0} /\ Len(s) \in DOMAIN s /\ DOMAIN s = 1..Len(s)
      /\ Last(s) = s[Len(s)]
  BY <1>1, TopIsThere
<1>3. /\ t \in Seq(Searches) /\ Len(t) = Len(s) /\ DOMAIN t = 1..Len(s)
      /\ t[Len(s)] = f
      /\ \A i \in 1..(Len(s) - 1) : t[i] = s[i]
  BY <1>1, TopReplaced
<1> HIDE DEF t
<1>4. /\ \A i \in 1..Len(s) : i = Len(s) \/ i \in 1..(Len(s) - 1)
      /\ \A i \in 1..(Len(s) - 1) : i \in 1..Len(s) /\ i + 1 \in 1..Len(s)
      /\ \A i \in 1..Len(s) : \A j \in 1..i : j \in 1..Len(s)
      /\ 1 \in 1..Len(s)
  <2>1. \A n \in Nat \ {0} : /\ \A i \in 1..(n - 1) : i + 1 \in 1..n
                             /\ \A i \in 1..n : \A j \in 1..i : j \in 1..n
                             /\ 1 \in 1..n
    OBVIOUS
  <2> QED
    BY <1>2, <2>1, Places
<1>5. \A i \in 1..Len(s) : t[i].id = s[i].id
  BY <1>2, <1>3, <1>4
<1>6. IsDistinct(t)
  BY <1>2, <1>3, <1>5 DEF RoutesWalk, IsDistinct
<1>7. \A i \in 1..Len(s) : UpTo(t, i) = UpTo(s, i)
  BY <1>4, <1>5 DEF UpTo
<1>8. ASSUME NEW i \in 1..Len(s) PROVE SearchSound(t[i], UpTo(t, i))
  BY <1>2, <1>3, <1>4, <1>7 DEF RoutesWalk
<1>9. ASSUME NEW i \in 1..(Len(t) - 1)
      PROVE  /\ t[i].at \in DOMAIN bodies.callers[t[i].id]
             /\ bodies.callers[t[i].id][t[i].at][1] = t[i + 1].id
  <2>1. i \in 1..(Len(s) - 1)
    BY <1>3
  <2>2. t[i] = s[i] /\ t[i + 1].id = s[i + 1].id
    BY <2>1, <1>3, <1>4, <1>5
  <2> QED
    BY <2>1, <2>2 DEF RoutesWalk
<1>10. t # <<>> /\ t[1].id = s[1].id
  <2>1. Len(t) # 0
    BY <1>2, <1>3
  <2> QED
    BY <1>3, <1>4, <1>5, <2>1, EmptySeq
<1>11. RoutesWalk(t)
  BY <1>3, <1>6, <1>8, <1>9 DEF RoutesWalk
<1> QED
  BY <1>10, <1>11 DEF t

LEMMA RoutesGoDown ==
  ASSUME RoutesReady, NEW s, RoutesWalk(s), s # <<>>, NEW id \in Ids(bundle), Library(bundle, id),
         \A i \in DOMAIN s : s[i].id # id,
         Last(s).at \in DOMAIN bodies.callers[Last(s).id],
         bodies.callers[Last(s).id][Last(s).at][1] = id
  PROVE  RoutesWalk(Append(s, Seek(id))) /\ Append(s, Seek(id)) # <<>>
         /\ Append(s, Seek(id))[1].id = s[1].id
<1> DEFINE f == Seek(id)
           t == Append(s, f)
<1>1. f \in Searches /\ f.id = id /\ \A V : SearchSound(f, V)
  BY SearchBegins
<1> HIDE DEF f
<1>2. s \in Seq(Searches) /\ s # <<>>
  BY DEF RoutesWalk
<1>3. /\ Len(s) \in Nat \ {0} /\ Len(s) \in DOMAIN s /\ DOMAIN s = 1..Len(s)
      /\ Last(s) = s[Len(s)]
  BY <1>2, TopIsThere
<1>4. /\ t \in Seq(Searches) /\ Len(t) = Len(s) + 1 /\ DOMAIN t = 1..(Len(s) + 1)
      /\ t[Len(s) + 1] = f /\ \A i \in 1..Len(s) : t[i] = s[i]
  BY <1>1, <1>2, Pushed
<1> HIDE DEF t
<1>5. /\ \A i \in 1..(Len(s) + 1) : i = Len(s) + 1 \/ i \in 1..Len(s)
      /\ \A i \in 1..Len(s) : \A j \in 1..i : j \in 1..Len(s)
      /\ \A i \in 1..(Len(s) + 1 - 1) : i \in 1..Len(s) /\ (i = Len(s) \/ i \in 1..(Len(s) - 1))
      /\ \A i \in 1..(Len(s) - 1) : i + 1 \in 1..Len(s)
      /\ 1 \in 1..Len(s)
  <2>1. \A n \in Nat \ {0} :
          /\ \A i \in 1..(n + 1) : i = n + 1 \/ i \in 1..n
          /\ \A i \in 1..n : \A j \in 1..i : j \in 1..n
          /\ \A i \in 1..(n + 1 - 1) : i \in 1..n /\ (i = n \/ i \in 1..(n - 1))
          /\ \A i \in 1..(n - 1) : i + 1 \in 1..n
          /\ 1 \in 1..n
    OBVIOUS
  <2> QED
    BY <1>3, <2>1
<1>6. IsDistinct(t)
  BY <1>1, <1>2, PushedIsDistinct DEF RoutesWalk, t
<1>7. \A i \in 1..Len(s) : UpTo(t, i) = UpTo(s, i)
  BY <1>4, <1>5 DEF UpTo
<1>8. ASSUME NEW i \in 1..(Len(s) + 1) PROVE SearchSound(t[i], UpTo(t, i))
  <2>1. CASE i = Len(s) + 1
    BY <1>1, <1>4, <2>1
  <2>2. CASE i \in 1..Len(s)
    BY <1>3, <1>4, <1>7, <2>2 DEF RoutesWalk
  <2> QED
    BY <1>5, <2>1, <2>2
<1>9. ASSUME NEW i \in 1..(Len(t) - 1)
      PROVE  /\ t[i].at \in DOMAIN bodies.callers[t[i].id]
             /\ bodies.callers[t[i].id][t[i].at][1] = t[i + 1].id
  <2>1. i \in 1..Len(s) /\ (i = Len(s) \/ i \in 1..(Len(s) - 1)) /\ t[i] = s[i]
    BY <1>4, <1>5
  <2>2. CASE i = Len(s)
    BY <1>1, <1>3, <1>4, <2>1, <2>2
  <2>3. CASE i \in 1..(Len(s) - 1)
    <3>1. t[i + 1] = s[i + 1]
      BY <1>4, <1>5, <2>3
    <3> QED
      BY <2>1, <2>3, <3>1 DEF RoutesWalk
  <2> QED
    BY <2>1, <2>2, <2>3
<1>10. t # <<>> /\ t[1].id = s[1].id
  <2>1. Len(t) # 0
    BY <1>3, <1>4
  <2> QED
    BY <1>4, <1>5, <2>1, EmptySeq
<1>11. RoutesWalk(t)
  BY <1>4, <1>6, <1>8, <1>9 DEF RoutesWalk
<1> QED
  BY <1>10, <1>11 DEF t, f

LEMMA RoutesComeBack ==
  ASSUME NEW s, RoutesWalk(s), Len(s) > 1
  PROVE  LET t == Front(s)
         IN /\ RoutesWalk(t) /\ t # <<>> /\ t[1].id = s[1].id /\ Last(t) \in Searches
            /\ SearchSound(Last(t), UpTo(t, Len(t)))
            /\ Last(t).at \in DOMAIN bodies.callers[Last(t).id]
            /\ bodies.callers[Last(t).id][Last(t).at][1] = Last(s).id
            /\ Last(s) \in Searches /\ Last(s).id \notin UpTo(t, Len(t))
            /\ SearchSound(Last(s), UpTo(t, Len(t)) \cup {Last(s).id})
<1> DEFINE t == Front(s)
           n == Len(s)
<1>1. s \in Seq(Searches) /\ s # <<>> /\ n \in Nat
  <2>1. s \in Seq(Searches)
    BY DEF RoutesWalk
  <2>2. s # <<>>
    BY <2>1, EmptySeq
  <2> QED
    BY <2>1, <2>2
<1>2. /\ n \in Nat \ {0} /\ n \in DOMAIN s /\ DOMAIN s = 1..n /\ Last(s) = s[n] /\ Last(s) \in Searches
  BY <1>1, TopIsThere
<1>3. /\ t \in Seq(Searches) /\ Len(t) = n - 1 /\ DOMAIN t = 1..(n - 1)
      /\ \A i \in 1..(n - 1) : t[i] = s[i]
  BY <1>1, FrontIsRest
<1> HIDE DEF t
<1>4. n > 1
  OBVIOUS
<1> HIDE DEF n
<1>5. /\ \A i \in 1..(n - 1) : i \in 1..n /\ i # n /\ \A j \in 1..i : j \in 1..(n - 1)
      /\ \A i \in 1..(n - 1 - 1) : i \in 1..(n - 1) /\ i + 1 \in 1..(n - 1)
      /\ n - 1 # 0 /\ n - 1 \in 1..(n - 1) /\ 1 \in 1..(n - 1) /\ n - 1 + 1 = n
      /\ \A j \in 1..n : j = n \/ j \in 1..(n - 1)
  BY <1>2, <1>4
<1>6. IsDistinct(t)
  BY <1>2, <1>3, <1>5 DEF RoutesWalk, IsDistinct
<1>7. ASSUME NEW i \in 1..(n - 1) PROVE UpTo(t, i) = UpTo(s, i)
  <2>1. \A j \in 1..i : t[j].id = s[j].id
    BY <1>3, <1>5
  <2> QED
    BY <2>1 DEF UpTo
<1>8. ASSUME NEW i \in 1..(n - 1) PROVE SearchSound(t[i], UpTo(t, i))
  BY <1>2, <1>3, <1>5, <1>7 DEF RoutesWalk
<1>9. ASSUME NEW i \in 1..(n - 1)
      PROVE  /\ t[i].at \in DOMAIN bodies.callers[t[i].id]
             /\ bodies.callers[t[i].id][t[i].at][1] = s[i + 1].id
  <2>1. i \in 1..(Len(s) - 1)
    BY DEF n
  <2> QED
    BY <1>3, <2>1 DEF RoutesWalk
<1>10. RoutesWalk(t)
  <2>1. ASSUME NEW i \in 1..(Len(t) - 1)
        PROVE  /\ t[i].at \in DOMAIN bodies.callers[t[i].id]
               /\ bodies.callers[t[i].id][t[i].at][1] = t[i + 1].id
    <3>1. i \in 1..(n - 1 - 1)
      BY <1>3
    <3>2. i \in 1..(n - 1) /\ t[i + 1] = s[i + 1]
      BY <1>3, <1>5, <3>1
    <3> QED
      BY <1>9, <3>2
  <2> QED
    BY <1>3, <1>6, <1>8, <2>1 DEF RoutesWalk
<1>11. t # <<>>
  BY <1>3, <1>5, EmptySeq
<1>12. Last(t) = t[n - 1] /\ Last(t) \in Searches
  BY <1>3, <1>11, TopIsThere
<1>13. /\ SearchSound(Last(t), UpTo(t, Len(t)))
       /\ Last(t).at \in DOMAIN bodies.callers[Last(t).id]
       /\ bodies.callers[Last(t).id][Last(t).at][1] = Last(s).id
  BY <1>2, <1>3, <1>5, <1>8, <1>9, <1>12
<1>14. UpTo(s, n) = UpTo(t, n - 1) \cup {Last(s).id}
  <2>1. UpTo(t, n - 1) = UpTo(s, n - 1)
    BY <1>5, <1>7
  <2>2. \A j \in 1..(n - 1) : j \in 1..n
    BY <1>5
  <2>3. n \in 1..n
    BY <1>2
  <2>4. UpTo(s, n) = UpTo(s, n - 1) \cup {s[n].id}
    BY <1>5, <2>2, <2>3 DEF UpTo
  <2> QED
    BY <1>2, <2>1, <2>4
<1>15. Last(s).id \notin UpTo(t, n - 1)
  <2>1. ASSUME NEW j \in 1..(n - 1), t[j].id = Last(s).id PROVE FALSE
    BY <1>2, <1>3, <1>5, <2>1 DEF RoutesWalk, IsDistinct
  <2> QED
    BY <2>1 DEF UpTo
<1>16. SearchSound(Last(s), UpTo(s, n))
  BY <1>2 DEF RoutesWalk, n
<1>17. t[1].id = s[1].id
  BY <1>3, <1>5
<1> QED
  BY <1>2, <1>3, <1>10, <1>11, <1>12, <1>13, <1>14, <1>15, <1>16, <1>17 DEF t

-----------------------------------------------------------------------------
(* The routes in every step.  While the document and the callers stay, what  *)
(* leads to a body does.                                                     *)
LEMMA RoutesStay ==
  ASSUME bundle' = bundle, bodies' = bodies
  PROVE  /\ \A id, V : RoutesTo(id, V)' = RoutesTo(id, V)
         /\ Memos' = Memos /\ Searches' = Searches
<1>1. ASSUME NEW id, NEW V PROVE RoutesTo(id, V)' = RoutesTo(id, V)
  <2>1. \A S : ClosedBack(S, V)' <=> ClosedBack(S, V)
    BY DEF ClosedBack, Asking, Library, ProcessOf
  <2>2. Back(id, V)' = Back(id, V)
    BY <2>1 DEF Back
  <2>3. \A x : AuthorCallsInto(x)' = AuthorCallsInto(x)
    BY DEF AuthorCallsInto, Library, ProcessOf
  <2> QED
    BY <2>2, <2>3 DEF RoutesTo
<1>2. Memos' = Memos
  BY DEF Memos
<1>3. Searches' = Searches
  BY DEF Searches
<1> QED
  BY <1>1, <1>2, <1>3

LEMMA RoutesFrame ==
  ASSUME bundle' = bundle, bodies' = bodies,
         routes' \in Memos, MemoSound(routes'), TurnsDone(routes'.turn, verdict'),
         pass' = "routes" =>
           RoutesWalk(stack') /\ (stack' # <<>> => routes'.turn \in DOMAIN bodies.order
                                                   /\ stack'[1].id = bodies.order[routes'.turn]),
         pass' \in {"validated", "compile", "compiled"} => routes'.turn > Len(bodies.order)
  PROVE  RoutesInv'
<1>1. /\ \A id, V : RoutesTo(id, V)' = RoutesTo(id, V)
      /\ Memos' = Memos /\ Searches' = Searches
  BY RoutesStay
<1>2. MemoSound(routes)'
  BY <1>1 DEF MemoSound
<1>3. TurnsDone(routes.turn, verdict)'
  BY <1>1 DEF TurnsDone, Attributed, Library
<1>4. ASSUME RoutesWalk(stack') PROVE RoutesWalk(stack)'
  <2>1. ASSUME NEW f, NEW V, SearchSound(f, V) PROVE SearchSound(f, V)'
    BY <1>1, <2>1 DEF SearchSound, Passed, Library
  <2> QED
    BY <1>1, <1>4, <2>1 DEF RoutesWalk, IsDistinct, UpTo
<1>5. pass' = "routes" =>
        (RoutesWalk(stack) /\ (stack # <<>> => routes.turn \in DOMAIN bodies.order /\ stack[1].id = Turn))'
  BY <1>4 DEF Turn
<1> QED
  BY <1>1, <1>2, <1>3, <1>5 DEF RoutesInv

LEMMA KnownAreRoutes ==
  ASSUME MemoSound(routes), NEW id, KnownBody(id)
  PROVE  KnownRoutes(id) = RoutesTo(id, {})
  BY DEF MemoSound, KnownBody, KnownRoutes

LEMMA MemoGrows ==
  ASSUME routes \in Memos, MemoSound(routes), NEW f \in Searches,
         f.complete => f.found = RoutesTo(f.id, {})
  PROVE  /\ Remember(routes.memo, f) \in SUBSET (Ids(bundle) \X SUBSET CallNames(bundle))
         /\ \A m \in Remember(routes.memo, f) : m[2] = RoutesTo(m[1], {})
<1>1. <<f.id, f.found>> \in Ids(bundle) \X SUBSET CallNames(bundle)
  BY DEF Searches
<1>2. routes.memo \in SUBSET (Ids(bundle) \X SUBSET CallNames(bundle))
  BY DEF Memos
<1> QED
  BY <1>1, <1>2 DEF Remember, MemoSound

LEMMA TurnTaken ==
  ASSUME RoutesReady, routes \in Memos, TurnsDone(routes.turn, verdict),
         routes.turn \in DOMAIN bodies.order, NEW w,
         verdict.issues \subseteq w.issues, verdict.inside \subseteq w.inside,
         ~Library(bundle, Turn) => OwnIssues(bundle, ProcessOf(bundle, Turn)) \subseteq w.issues,
         Library(bundle, Turn) => Attributed(Turn, RoutesTo(Turn, {})) \subseteq w.inside,
         \A j \in w.inside : j \in verdict.inside \/ (j[3] = Turn /\ j[2] \in RoutesTo(Turn, {}))
  PROVE  TurnsDone(routes.turn + 1, w) /\ routes.turn + 1 \in Nat \ {0}
<1>1. routes.turn \in Nat \ {0} /\ bodies.order \in Seq(Ids(bundle))
  BY DEF Memos, RoutesReady, BodyWalks
<1>2. ASSUME NEW t \in DOMAIN bodies.order, t < routes.turn + 1
      PROVE  t < routes.turn \/ t = routes.turn
  <2>1. t \in Nat
    BY <1>1
  <2> QED
    BY <1>1, <1>2, <2>1
<1>3. ASSUME NEW t \in DOMAIN bodies.order, t < routes.turn + 1
      PROVE  LET id == bodies.order[t]
                 own == OwnIssues(bundle, ProcessOf(bundle, id))
             IN /\ ~Library(bundle, id) => own \subseteq w.issues
                /\ Library(bundle, id) => Attributed(id, RoutesTo(id, {})) \subseteq w.inside
  <2>1. CASE t = routes.turn
    BY <2>1 DEF Turn
  <2>2. CASE t < routes.turn
    <3>1. LET id == bodies.order[t]
              own == OwnIssues(bundle, ProcessOf(bundle, id))
          IN /\ ~Library(bundle, id) => own \subseteq verdict.issues
             /\ Library(bundle, id) => Attributed(id, RoutesTo(id, {})) \subseteq verdict.inside
      BY <2>2 DEF TurnsDone
    <3> QED
      BY <3>1
  <2> QED
    BY <1>2, <1>3, <2>1, <2>2
<1>4. Turn \in ToSet(bodies.order)
  BY DEF Turn, ToSet
<1>5. \A j \in w.inside : j[3] \in ToSet(bodies.order) /\ j[2] \in RoutesTo(j[3], {})
  BY <1>4 DEF TurnsDone
<1> QED
  BY <1>1, <1>3, <1>5 DEF TurnsDone

RoutesUnderWay ==
  /\ RoutesReady /\ pass = "routes" /\ routes \in Memos /\ MemoSound(routes)
  /\ TurnsDone(routes.turn, verdict) /\ RoutesWalk(stack)
  /\ stack # <<>> => routes.turn \in DOMAIN bodies.order /\ stack[1].id = Turn

(* What a step of the routes does when the searches go on or stand.          *)
LEMMA SearchesGoOn ==
  ASSUME RoutesUnderWay, bundle' = bundle, bodies' = bodies, pass' = "routes",
         routes' = routes, verdict' = verdict, RoutesWalk(stack'), stack' # <<>>,
         routes.turn \in DOMAIN bodies.order, stack'[1].id = Turn
  PROVE  RoutesInv'
<1>1. /\ routes' \in Memos /\ MemoSound(routes') /\ TurnsDone(routes'.turn, verdict')
      /\ routes'.turn \in DOMAIN bodies.order /\ stack'[1].id = bodies.order[routes'.turn]
  BY DEF RoutesUnderWay, Turn
<1> QED
  BY <1>1, RoutesFrame

(* What a turn leaves: no search, and the body's issues attributed.          *)
LEMMA TurnEnds ==
  ASSUME RoutesUnderWay, bundle' = bundle, bodies' = bodies, pass' = "routes", stack' = <<>>,
         routes'.turn = routes.turn + 1, routes' \in Memos, MemoSound(routes'),
         TurnsDone(routes.turn + 1, verdict')
  PROVE  RoutesInv'
<1>1. RoutesWalk(<<>>)
  <2>1. <<>> \in Seq(Searches) /\ DOMAIN <<>> = {} /\ Len(<<>>) = 0
    OBVIOUS
  <2>2. 1..(Len(<<>>) - 1) = {}
    BY <2>1
  <2> QED
    BY <2>1, <2>2 DEF RoutesWalk, IsDistinct
<1> QED
  BY <1>1, RoutesFrame

LEMMA NextTurn ==
  ASSUME RoutesUnderWay, routes' = [routes EXCEPT !.turn = @ + 1]
  PROVE  routes'.turn = routes.turn + 1 /\ routes' \in Memos /\ MemoSound(routes')
<1>1. routes.turn + 1 \in Nat \ {0}
  BY DEF RoutesUnderWay, Memos
<1>2. routes'.turn = routes.turn + 1 /\ routes'.memo = routes.memo /\ routes' \in Memos
  BY <1>1 DEF RoutesUnderWay, Memos
<1> QED
  BY <1>2 DEF RoutesUnderWay, MemoSound

LEMMA AttributeOwnKeeps ==
  ASSUME RoutesUnderWay, AttributeOwn
  PROVE  RoutesInv'
<1>1. /\ stack = <<>> /\ routes.turn \in DOMAIN bodies.order /\ ~Library(bundle, Turn)
      /\ routes' = [routes EXCEPT !.turn = @ + 1]
      /\ verdict' = [verdict EXCEPT !.issues = @ \cup OwnIssues(bundle, ProcessOf(bundle, Turn))]
      /\ bundle' = bundle /\ bodies' = bodies /\ pass' = "routes" /\ stack' = stack
  BY DEF AttributeOwn, AtTurn, RoutesUnderWay
<1>2. /\ verdict'.issues = verdict.issues \cup OwnIssues(bundle, ProcessOf(bundle, Turn))
      /\ verdict'.inside = verdict.inside
  BY <1>1, VerdictChanged DEF RoutesUnderWay, RoutesReady, GraphInv
<1>3. TurnsDone(routes.turn + 1, verdict')
  BY <1>1, <1>2, TurnTaken DEF RoutesUnderWay
<1> QED
  BY <1>1, <1>3, NextTurn, TurnEnds

(* What is found for a body is what leads to it.                             *)
LEMMA TurnIsAttributed ==
  ASSUME RoutesUnderWay, routes.turn \in DOMAIN bodies.order, Library(bundle, Turn),
         verdict' = [verdict EXCEPT !.inside = @ \cup Attributed(Turn, RoutesTo(Turn, {}))]
  PROVE  TurnsDone(routes.turn + 1, verdict')
<1>1. /\ verdict'.inside = verdict.inside \cup Attributed(Turn, RoutesTo(Turn, {}))
      /\ verdict'.issues = verdict.issues
  BY VerdictChanged DEF RoutesUnderWay, RoutesReady, GraphInv
<1>2. \A j \in Attributed(Turn, RoutesTo(Turn, {})) : j[3] = Turn /\ j[2] \in RoutesTo(Turn, {})
  BY DEF Attributed
<1> QED
  BY <1>1, <1>2, TurnTaken DEF RoutesUnderWay

LEMMA AttributeKnownKeeps ==
  ASSUME RoutesUnderWay, AttributeKnown
  PROVE  RoutesInv'
<1>1. /\ stack = <<>> /\ routes.turn \in DOMAIN bodies.order /\ Library(bundle, Turn) /\ KnownBody(Turn)
      /\ routes' = [routes EXCEPT !.turn = @ + 1]
      /\ verdict' = [verdict EXCEPT !.inside = @ \cup Attributed(Turn, KnownRoutes(Turn))]
      /\ bundle' = bundle /\ bodies' = bodies /\ pass' = "routes" /\ stack' = stack
  BY DEF AttributeKnown, AtTurn, RoutesUnderWay
<1>2. KnownRoutes(Turn) = RoutesTo(Turn, {})
  BY <1>1, KnownAreRoutes DEF RoutesUnderWay
<1>3. TurnsDone(routes.turn + 1, verdict')
  BY <1>1, <1>2, TurnIsAttributed
<1> QED
  BY <1>1, <1>3, NextTurn, TurnEnds

LEMMA TurnIsBody ==
  ASSUME RoutesReady, routes.turn \in DOMAIN bodies.order
  PROVE  Turn \in Ids(bundle)
  BY DEF RoutesReady, BodyWalks, Turn

LEMMA SeekRoutesKeeps ==
  ASSUME RoutesUnderWay, SeekRoutes
  PROVE  RoutesInv'
<1>1. /\ routes.turn \in DOMAIN bodies.order /\ Library(bundle, Turn) /\ stack' = <<Seek(Turn)>>
      /\ bundle' = bundle /\ bodies' = bodies /\ pass' = "routes" /\ routes' = routes
      /\ verdict' = verdict /\ Turn \in Ids(bundle)
  BY TurnIsBody DEF SeekRoutes, AtTurn, RoutesUnderWay
<1>2. PICK f \in Searches : f = Seek(Turn) /\ f.id = Turn /\ \A V : SearchSound(f, V)
  BY <1>1, SearchBegins DEF RoutesUnderWay
<1>3. /\ <<f>> \in Seq(Searches) /\ DOMAIN <<f>> = {1} /\ Len(<<f>>) = 1 /\ <<f>>[1] = f
      /\ <<f>> # <<>>
  OBVIOUS
<1>4. 1..(Len(<<f>>) - 1) = {}
  BY <1>3
<1>5. RoutesWalk(<<f>>)
  BY <1>2, <1>3, <1>4 DEF RoutesWalk, IsDistinct
<1> QED
  BY <1>1, <1>2, <1>3, <1>5, SearchesGoOn

-----------------------------------------------------------------------------
(* A caller is passed, or searched first.                                    *)
LEMMA CallerHere ==
  ASSUME RoutesUnderWay, AtCaller
  PROVE  /\ stack # <<>> /\ Here \in Searches /\ Here = Last(stack)
         /\ SearchSound(Here, UpTo(stack, Len(stack)))
         /\ UpTo(stack, Len(stack)) = OnStack
         /\ Here.at \in DOMAIN bodies.callers[Here.id]
         /\ Caller = bodies.callers[Here.id][Here.at]
         /\ Caller[1] \in Ids(bundle) /\ Library(bundle, Caller[1]) \in BOOLEAN
         /\ ~Library(bundle, Caller[1]) => Caller[2] \in RoutesTo(Here.id, {})
         /\ Library(bundle, Caller[1]) => RoutesTo(Caller[1], {}) \subseteq RoutesTo(Here.id, {})
<1>1. stack \in Seq(Searches) /\ stack # <<>> /\ Here.at \in DOMAIN bodies.callers[Here.id]
  BY DEF RoutesUnderWay, RoutesWalk, AtCaller
<1>2. /\ Len(stack) \in DOMAIN stack /\ DOMAIN stack = 1..Len(stack) /\ Here = stack[Len(stack)]
      /\ Here \in Searches
  BY <1>1, TopIsThere DEF Here
<1>3. SearchSound(Here, UpTo(stack, Len(stack)))
  BY <1>2 DEF RoutesUnderWay, RoutesWalk
<1>4. UpTo(stack, Len(stack)) = OnStack
  BY <1>2 DEF UpTo, OnStack
<1>5. Here.id \in Ids(bundle)
  BY <1>2 DEF Searches
<1>6. /\ Caller[1] \in Ids(bundle) /\ Library(bundle, Caller[1]) \in BOOLEAN
      /\ (~Library(bundle, Caller[1]) => Caller[2] \in AuthorCallsInto(Here.id))
      /\ (Library(bundle, Caller[1]) => Asking(Here.id, Caller[1]))
  BY <1>1, <1>5, CallersTyped DEF RoutesUnderWay, Caller
<1>7. ~Library(bundle, Caller[1]) => Caller[2] \in RoutesTo(Here.id, {})
  BY <1>5, <1>6, OwnRoutes
<1>8. Library(bundle, Caller[1]) => RoutesTo(Caller[1], {}) \subseteq RoutesTo(Here.id, {})
  BY <1>5, <1>6, RoutesOfCaller
<1> QED
  BY <1>1, <1>2, <1>3, <1>4, <1>6, <1>7, <1>8 DEF Here, Caller

LEMMA CallerPassed ==
  ASSUME RoutesUnderWay, AtCaller, NEW more, NEW whole \in BOOLEAN, AddRoutes(more, whole),
         more \subseteq RoutesTo(Here.id, {}),
         ~Library(bundle, Caller[1]) => Caller[2] \in more,
         Library(bundle, Caller[1]) /\ Caller[1] \notin OnStack => RoutesTo(Caller[1], {}) \subseteq more,
         Library(bundle, Caller[1]) /\ whole => RoutesTo(Caller[1], {}) \subseteq more,
         UNCHANGED <<bundle, pass, bodies, routes, verdict>>
  PROVE  RoutesInv'
<1>1. /\ stack # <<>> /\ Here \in Searches /\ Here = Last(stack)
      /\ SearchSound(Here, UpTo(stack, Len(stack))) /\ UpTo(stack, Len(stack)) = OnStack
      /\ Here.at \in DOMAIN bodies.callers[Here.id] /\ Caller = bodies.callers[Here.id][Here.at]
      /\ Caller[1] \in Ids(bundle)
  BY CallerHere
<1>2. PICK g : g = [id |-> Here.id, at |-> Here.at + 1, found |-> Here.found \cup more,
                    complete |-> Here.complete /\ whole]
  OBVIOUS
<1>3. g.found = Here.found \cup more /\ (g.complete => whole)
  BY <1>2
<1>4. RoutesTo(Caller[1], OnStack) \subseteq RoutesTo(Caller[1], {})
  BY <1>1, RoutesShrink
<1>5. Passed(g, UpTo(stack, Len(stack)), Caller)
  BY <1>1, <1>3, <1>4 DEF Passed
<1>6. g \in Searches /\ g.id = Here.id /\ SearchSound(g, UpTo(stack, Len(stack)))
  BY <1>1, <1>2, <1>5, SearchPasses DEF RoutesUnderWay
<1>7. stack' = [stack EXCEPT ![Len(stack)] = g]
  BY <1>2 DEF AddRoutes, GoOnAs
<1>8. RoutesWalk(stack') /\ stack' # <<>> /\ stack'[1].id = stack[1].id
  BY <1>1, <1>6, <1>7, RoutesGoOn DEF RoutesUnderWay
<1> QED
  BY <1>1, <1>8, SearchesGoOn DEF RoutesUnderWay

LEMMA AuthorCallsKeeps ==
  ASSUME RoutesUnderWay, AuthorCalls
  PROVE  RoutesInv'
<1>1. /\ AtCaller /\ ~Library(bundle, Caller[1]) /\ AddRoutes({Caller[2]}, TRUE)
      /\ UNCHANGED <<bundle, pass, bodies, routes, verdict>>
  BY DEF AuthorCalls
<1>2. {Caller[2]} \subseteq RoutesTo(Here.id, {})
  BY <1>1, CallerHere
<1> QED
  BY <1>1, <1>2, CallerPassed

LEMMA KnownCallsKeeps ==
  ASSUME RoutesUnderWay, KnownCalls
  PROVE  RoutesInv'
<1>1. /\ AtCaller /\ Library(bundle, Caller[1]) /\ KnownBody(Caller[1])
      /\ AddRoutes(KnownRoutes(Caller[1]), TRUE)
      /\ UNCHANGED <<bundle, pass, bodies, routes, verdict>>
  BY DEF KnownCalls
<1>2. KnownRoutes(Caller[1]) = RoutesTo(Caller[1], {})
  BY <1>1, KnownAreRoutes DEF RoutesUnderWay
<1>3. RoutesTo(Caller[1], {}) \subseteq RoutesTo(Here.id, {})
  BY <1>1, CallerHere
<1> QED
  BY <1>1, <1>2, <1>3, CallerPassed

LEMMA CutCycleKeeps ==
  ASSUME RoutesUnderWay, CutCycle
  PROVE  RoutesInv'
<1>1. /\ AtCaller /\ Library(bundle, Caller[1]) /\ Caller[1] \in OnStack /\ AddRoutes({}, FALSE)
      /\ UNCHANGED <<bundle, pass, bodies, routes, verdict>>
  BY DEF CutCycle
<1> QED
  BY <1>1, CallerPassed

LEMMA SeekCallerKeeps ==
  ASSUME RoutesUnderWay, SeekCaller
  PROVE  RoutesInv'
<1>1. /\ AtCaller /\ Library(bundle, Caller[1]) /\ Caller[1] \notin OnStack
      /\ stack' = Append(stack, Seek(Caller[1]))
      /\ UNCHANGED <<bundle, pass, bodies, routes, verdict>>
  BY DEF SeekCaller
<1>2. /\ stack # <<>> /\ Here = Last(stack) /\ Here.at \in DOMAIN bodies.callers[Here.id]
      /\ Caller = bodies.callers[Here.id][Here.at] /\ Caller[1] \in Ids(bundle)
  BY <1>1, CallerHere
<1>3. \A i \in DOMAIN stack : stack[i].id # Caller[1]
  BY <1>1 DEF OnStack
<1>4. RoutesWalk(stack') /\ stack' # <<>> /\ stack'[1].id = stack[1].id
  BY <1>1, <1>2, <1>3, RoutesGoDown DEF RoutesUnderWay
<1> QED
  BY <1>1, <1>2, <1>4, SearchesGoOn DEF RoutesUnderWay

(* A search that ends.                                                       *)
LEMMA NotAtCaller ==
  ASSUME stack # <<>>, ~AtCaller
  PROVE  Here.at \notin DOMAIN bodies.callers[Here.id]
  BY DEF AtCaller

LEMMA ReturnRoutesKeeps ==
  ASSUME RoutesUnderWay, ReturnRoutes
  PROVE  RoutesInv'
<1> DEFINE t == Front(stack)
           V == UpTo(t, Len(t))
<1>1. /\ Len(stack) > 1 /\ ~AtCaller
      /\ stack' = [t EXCEPT ![Len(t)] =
                     [id |-> Last(t).id, at |-> Last(t).at + 1, found |-> Last(t).found \cup Here.found,
                      complete |-> Last(t).complete /\ Here.complete]]
      /\ routes' = [routes EXCEPT !.memo = Remember(@, Here)]
      /\ bundle' = bundle /\ bodies' = bodies /\ pass' = "routes" /\ verdict' = verdict
  BY DEF ReturnRoutes, RoutesUnderWay
<1>2. /\ RoutesWalk(t) /\ t # <<>> /\ t[1].id = stack[1].id /\ Last(t) \in Searches
      /\ SearchSound(Last(t), V) /\ Last(t).at \in DOMAIN bodies.callers[Last(t).id]
      /\ bodies.callers[Last(t).id][Last(t).at][1] = Here.id
      /\ Here \in Searches /\ Here.id \notin V /\ SearchSound(Here, V \cup {Here.id})
  BY <1>1, RoutesComeBack DEF RoutesUnderWay, Here
<1>3. stack # <<>> /\ Here.at \notin DOMAIN bodies.callers[Here.id]
  <2>1. stack # <<>>
    BY <1>1, EmptySeq DEF RoutesUnderWay, RoutesWalk
  <2> QED
    BY <1>1, <2>1, NotAtCaller
<1> HIDE DEF t, V
<1>4. RoutesTo(Here.id, V) \subseteq Here.found /\ (Here.complete => Here.found = RoutesTo(Here.id, {}))
  BY <1>2, <1>3, SearchEnds DEF RoutesUnderWay
<1> PICK f \in Searches : f = Last(t)
  BY <1>2
<1>5. /\ f.id \in Ids(bundle) /\ Here.id \in Ids(bundle) /\ Here.complete \in BOOLEAN
      /\ f.at \in DOMAIN bodies.callers[f.id] /\ bodies.callers[f.id][f.at][1] = Here.id
      /\ SearchSound(f, V) /\ Library(bundle, Here.id)
  BY <1>2 DEF Searches, SearchSound
<1>6. Asking(f.id, Here.id)
  BY <1>5, CallersTyped DEF RoutesUnderWay
<1>7. Here.found \subseteq RoutesTo(f.id, {})
  <2>1. Here.found \subseteq RoutesTo(Here.id, {})
    BY <1>2 DEF SearchSound
  <2> QED
    BY <1>5, <1>6, <2>1, RoutesOfCaller
<1>8. PICK g : g = [id |-> f.id, at |-> f.at + 1, found |-> f.found \cup Here.found,
                    complete |-> f.complete /\ Here.complete]
  OBVIOUS
<1>9. g.found = f.found \cup Here.found /\ (g.complete => Here.complete)
  BY <1>8
<1>10. Passed(g, V, bodies.callers[f.id][f.at])
  BY <1>4, <1>5, <1>9 DEF Passed
<1>11. g \in Searches /\ g.id = f.id /\ SearchSound(g, V)
  BY <1>5, <1>7, <1>8, <1>10, SearchPasses DEF RoutesUnderWay
<1>12. stack' = [t EXCEPT ![Len(t)] = g]
  BY <1>1, <1>8 DEF t
<1>13. RoutesWalk(stack') /\ stack' # <<>> /\ stack'[1].id = stack[1].id
  BY <1>2, <1>11, <1>12, RoutesGoOn DEF V
<1>14. routes' \in Memos /\ MemoSound(routes') /\ routes'.turn = routes.turn
  <2>1. /\ Remember(routes.memo, Here) \in SUBSET (Ids(bundle) \X SUBSET CallNames(bundle))
        /\ \A m \in Remember(routes.memo, Here) : m[2] = RoutesTo(m[1], {})
    BY <1>2, <1>4, MemoGrows DEF RoutesUnderWay
  <2>2. routes' \in Memos /\ routes'.memo = Remember(routes.memo, Here) /\ routes'.turn = routes.turn
    BY <1>1, <2>1 DEF RoutesUnderWay, Memos
  <2> QED
    BY <2>1, <2>2 DEF MemoSound
<1>15. routes.turn \in DOMAIN bodies.order /\ stack'[1].id = Turn
  BY <1>3, <1>13 DEF RoutesUnderWay
<1>16. TurnsDone(routes'.turn, verdict') /\ stack'[1].id = bodies.order[routes'.turn]
  BY <1>1, <1>14, <1>15 DEF RoutesUnderWay, Turn
<1> QED
  BY <1>1, <1>13, <1>14, <1>15, <1>16, RoutesFrame

LEMMA AttributeFoundKeeps ==
  ASSUME RoutesUnderWay, AttributeFound
  PROVE  RoutesInv'
<1>1. /\ Len(stack) = 1 /\ ~AtCaller /\ stack' = <<>>
      /\ routes' = [turn |-> routes.turn + 1, memo |-> Remember(routes.memo, Here)]
      /\ verdict' = [verdict EXCEPT !.inside = @ \cup Attributed(Here.id, Here.found)]
      /\ bundle' = bundle /\ bodies' = bodies /\ pass' = "routes"
  BY DEF AttributeFound, RoutesUnderWay
<1>2. stack \in Seq(Searches) /\ stack # <<>>
  <2>1. stack \in Seq(Searches)
    BY DEF RoutesUnderWay, RoutesWalk
  <2>2. ASSUME stack = <<>> PROVE FALSE
    <3>1. Len(stack) = 0
      BY <2>2
    <3> QED
      BY <1>1, <3>1
  <2> QED
    BY <2>1, <2>2
<1>3. /\ 1 \in DOMAIN stack /\ Here = stack[1] /\ Here \in Searches /\ Here.id = Turn
      /\ routes.turn \in DOMAIN bodies.order
  BY <1>1, <1>2, TopIsThere DEF Here, RoutesUnderWay
<1>4. UpTo(stack, 1) = {} \cup {Here.id}
  <2>1. 1..1 = {1}
    OBVIOUS
  <2> QED
    BY <1>3, <2>1 DEF UpTo
<1>5. SearchSound(Here, {} \cup {Here.id})
  BY <1>3, <1>4 DEF RoutesUnderWay, RoutesWalk
<1>6. RoutesTo(Here.id, {}) \subseteq Here.found /\ (Here.complete => Here.found = RoutesTo(Here.id, {}))
  BY <1>1, <1>2, <1>3, <1>5, NotAtCaller, SearchEnds DEF RoutesUnderWay
<1>7. Here.found = RoutesTo(Turn, {}) /\ Library(bundle, Turn)
  BY <1>3, <1>5, <1>6 DEF SearchSound
<1>8. TurnsDone(routes.turn + 1, verdict')
  BY <1>1, <1>3, <1>7, TurnIsAttributed
<1>9. routes' \in Memos /\ MemoSound(routes') /\ routes'.turn = routes.turn + 1
  <2>1. PICK m : m = Remember(routes.memo, Here)
    OBVIOUS
  <2>2. /\ m \in SUBSET (Ids(bundle) \X SUBSET CallNames(bundle))
        /\ \A e \in m : e[2] = RoutesTo(e[1], {})
    BY <1>3, <1>6, <2>1, MemoGrows DEF RoutesUnderWay
  <2>3. routes.turn + 1 \in Nat \ {0}
    BY DEF RoutesUnderWay, Memos
  <2>4. routes' = [turn |-> routes.turn + 1, memo |-> m]
    BY <1>1, <2>1
  <2>5. routes' \in Memos /\ routes'.memo = m /\ routes'.turn = routes.turn + 1
    BY <2>2, <2>3, <2>4 DEF Memos
  <2> QED
    BY <2>2, <2>5 DEF MemoSound
<1> QED
  BY <1>1, <1>8, <1>9, TurnEnds

LEMMA EndRoutesKeeps ==
  ASSUME RoutesUnderWay, EndRoutes
  PROVE  RoutesInv'
<1>1. /\ stack = <<>> /\ ~(routes.turn \in DOMAIN bodies.order) /\ pass' = "validated"
      /\ UNCHANGED <<bundle, bodies, routes, verdict>>
  BY DEF EndRoutes, AtTurn
<1>2. routes.turn \in Nat \ {0} /\ bodies.order \in Seq(Ids(bundle))
  BY DEF RoutesUnderWay, Memos, RoutesReady, BodyWalks
<1>3. routes.turn > Len(bodies.order)
  BY <1>1, <1>2
<1> QED
  BY <1>1, <1>3, RoutesFrame DEF RoutesUnderWay

LEMMA RoutesBegin ==
  ASSUME GraphInv, BodiesInv, EndBodies
  PROVE  RoutesInv'
<1>1. /\ pass = "bodies" /\ pass' = "routes" /\ Rooted /\ stack = <<>> /\ routes = NoRoutes
      /\ verdict.inside = {} /\ UNCHANGED <<bundle, bodies, routes, verdict, stack>>
      /\ bodies \in BodyWalks(bundle)
  BY DEF EndBodies, GraphInv, RootChosen, BodiesInv
<1>2. routes \in Memos /\ MemoSound(routes) /\ routes.turn = 1
  BY <1>1 DEF NoRoutes, Memos, MemoSound
<1>3. TurnsDone(1, verdict)
  <2>1. \A t \in DOMAIN bodies.order : ~(t < 1)
    BY <1>1 DEF BodyWalks
  <2> QED
    BY <1>1, <2>1 DEF TurnsDone
<1>4. RoutesWalk(<<>>)
  <2>1. <<>> \in Seq(Searches) /\ DOMAIN <<>> = {} /\ Len(<<>>) = 0
    OBVIOUS
  <2>2. 1..(Len(<<>>) - 1) = {}
    BY <2>1
  <2> QED
    BY <2>1, <2>2 DEF RoutesWalk, IsDistinct
<1> QED
  BY <1>1, <1>2, <1>3, <1>4, RoutesFrame

LEMMA RoutesIsKept == GraphInv /\ BodiesInv /\ RoutesInv /\ [BundleNext]_bundleVars => RoutesInv'
<1> SUFFICES ASSUME GraphInv, BodiesInv, RoutesInv, [BundleNext]_bundleVars PROVE RoutesInv'
  OBVIOUS
<1>1. CASE GraphStep
  <2>1. pass' \in {"graph", "bodies"} \/ RefuseBundle
    BY <1>1 DEF GraphStep, VisitNext, SkipCall, VisitCalled, CountCall, EndVisit, RefuseBundle, ChooseRoot
  <2>2. ASSUME RefuseBundle PROVE ~Rooted'
    <3>1. verdict.root = 0 /\ VerdictTyped
      BY <2>2, GraphEnds DEF GraphInv, RefuseBundle
    <3>2. verdict'.root = 0
      BY <2>2, <3>1, VerdictChanged DEF RefuseBundle
    <3> QED
      BY <3>2 DEF Rooted
  <2> QED
    BY <2>1, <2>2 DEF RoutesInv
<1>2. CASE BodiesStep
  <2>1. CASE EndBodies
    BY <2>1, RoutesBegin
  <2>2. CASE ~EndBodies
    <3>1. pass' = "bodies"
      BY <1>2, <2>2 DEF BodiesStep, PassBodyCall, NoteBodyCall, QueueBody, NextBody
    <3> QED
      BY <3>1 DEF RoutesInv
  <2> QED
    BY <2>1, <2>2
<1>3. CASE RoutesStep
  <2>1. pass = "routes"
    BY <1>3 DEF RoutesStep, AttributeOwn, AttributeKnown, SeekRoutes, AuthorCalls, KnownCalls,
                 CutCycle, SeekCaller, ReturnRoutes, AttributeFound, EndRoutes
  <2>2. RoutesUnderWay
    BY <2>1 DEF GraphInv, RootChosen, BodiesInv, RoutesInv, RoutesUnderWay, RoutesReady
  <2> QED
    BY <1>3, <2>2, AttributeOwnKeeps, AttributeKnownKeeps, SeekRoutesKeeps, AuthorCallsKeeps,
       KnownCallsKeeps, CutCycleKeeps, SeekCallerKeeps, ReturnRoutesKeeps, AttributeFoundKeeps,
       EndRoutesKeeps DEF RoutesStep
<1>4. CASE CompileStep
  <2>1. /\ UNCHANGED <<bundle, bodies, verdict, routes>> /\ pass' \in {"compile", "compiled"}
        /\ pass \in {"validated", "compile"}
    BY <1>4 DEF CompileStep, BeginCompile, Claim, BindCall, PutPlan, EndCompile
  <2>2. CASE ~Rooted
    BY <2>1, <2>2 DEF RoutesInv, Rooted
  <2>3. CASE Rooted
    <3>1. /\ routes \in Memos /\ MemoSound(routes) /\ TurnsDone(routes.turn, verdict)
          /\ routes.turn > Len(bodies.order)
      BY <2>1, <2>3 DEF RoutesInv
    <3> QED
      BY <2>1, <3>1, RoutesFrame
  <2> QED
    BY <2>2, <2>3
<1>5. CASE UNCHANGED bundleVars
  <2>1. /\ UNCHANGED <<bundle, bodies, verdict, routes, stack, pass>>
    BY <1>5 DEF bundleVars
  <2>2. CASE ~Rooted \/ pass \in {"graph", "bodies"}
    BY <2>1, <2>2 DEF RoutesInv, Rooted
  <2>3. CASE Rooted /\ pass \notin {"graph", "bodies"}
    <3>1. /\ routes \in Memos /\ MemoSound(routes) /\ TurnsDone(routes.turn, verdict)
          /\ (pass = "routes" =>
               RoutesWalk(stack) /\ (stack # <<>> => routes.turn \in DOMAIN bodies.order /\ stack[1].id = Turn))
          /\ (pass \in {"validated", "compile", "compiled"} => routes.turn > Len(bodies.order))
      BY <2>3 DEF RoutesInv
    <3> QED
      BY <2>1, <3>1, RoutesFrame DEF Turn
  <2> QED
    BY <2>2, <2>3
<1> QED
  BY <1>1, <1>2, <1>3, <1>4, <1>5 DEF BundleNext

LEMMA RoutesInit == BundleInit => RoutesInv
  BY DEF BundleInit, StartsWith, RoutesInv

-----------------------------------------------------------------------------
(* Walking back over the callers finds what walking on along the calls does. *)
AuthorBodies == {id \in RunningBodies : ~Library(bundle, id)}
ModuleEdges == {e \in BodyEdges : e[1] \in RunningBodies \ AuthorBodies}
CallsThatLeadTo(id) ==
  {c[1] : c \in {d \in UNION {BodyCalls(p) : p \in AuthorBodies} :
                   id \in Leading(bundle, ModuleEdges, {d[2]})}}

LEMMA BodyEdgeIs ==
  ASSUME NEW p, NEW x
  PROVE  <<p, x>> \in BodyEdges <=> p \in Ids(bundle) /\ \E c \in BodyCalls(p) : c[2] = x
<1>1. ASSUME <<p, x>> \in BodyEdges PROVE p \in Ids(bundle) /\ \E c \in BodyCalls(p) : c[2] = x
  <2>1. PICK id \in Ids(bundle) : <<p, x>> \in {<<id, c[2]>> : c \in BodyCalls(id)}
    BY <1>1 DEF BodyEdges
  <2>2. PICK c \in BodyCalls(id) : <<p, x>> = <<id, c[2]>>
    BY <2>1
  <2> QED
    BY <2>2
<1>2. ASSUME p \in Ids(bundle), NEW c \in BodyCalls(p), c[2] = x PROVE <<p, x>> \in BodyEdges
  <2>1. <<p, x>> \in {<<p, d[2]>> : d \in BodyCalls(p)}
    BY <1>2
  <2> QED
    BY <1>2, <2>1 DEF BodyEdges
<1> QED
  BY <1>1, <1>2

LEMMA EdgeIsPair ==
  ASSUME NEW e \in BodyEdges
  PROVE  e = <<e[1], e[2]>> /\ e[1] \in Ids(bundle) /\ e[2] \in Ids(bundle)
<1>1. PICK id \in Ids(bundle) : e \in {<<id, c[2]>> : c \in BodyCalls(id)}
  BY DEF BodyEdges
<1>2. PICK c \in BodyCalls(id) : e = <<id, c[2]>>
  BY <1>1
<1>3. c[2] \in Ids(bundle)
  BY DEF BodyCalls, Followed, IsCall
<1> QED
  BY <1>2, <1>3

LEMMA AskingIsEdge ==
  ASSUME GraphInv, Rooted, BodiesInv, pass # "bodies", NEW x \in Ids(bundle), NEW p \in Ids(bundle)
  PROVE  Asking(x, p) <=> <<p, x>> \in ModuleEdges
<1>1. ASSUME Asking(x, p) PROVE <<p, x>> \in ModuleEdges
  <2>1. PICK n \in ToSet(bodies.callers[x]) : n[1] = p /\ Library(bundle, p)
    BY <1>1 DEF Asking
  <2>2. p \in RunningBodies /\ \E c \in BodyCalls(p) : c[2] = x
    BY <2>1, VisitedAreRunning
  <2>3. <<p, x>> \in BodyEdges
    BY <2>2, BodyEdgeIs
  <2> QED
    BY <2>1, <2>2, <2>3 DEF ModuleEdges, AuthorBodies
<1>2. ASSUME <<p, x>> \in ModuleEdges PROVE Asking(x, p)
  <2>1. <<p, x>> \in BodyEdges /\ p \in RunningBodies /\ Library(bundle, p)
    BY <1>2 DEF ModuleEdges, AuthorBodies
  <2>2. PICK c \in BodyCalls(p) : c[2] = x
    BY <2>1, BodyEdgeIs
  <2>3. <<p, c[1]>> \in ToSet(bodies.callers[x])
    BY <2>1, <2>2, VisitedAreRunning
  <2> QED
    BY <2>1, <2>3 DEF Asking
<1> QED
  BY <1>1, <1>2

LEMMA LeadingIs ==
  ASSUME NEW x, NEW id
  PROVE  id \in Leading(bundle, ModuleEdges, {x}) <=>
           /\ id \in Ids(bundle)
           /\ \A S \in SUBSET Ids(bundle) :
                x \in S /\ (\A e \in ModuleEdges : e[1] \in S => e[2] \in S) => id \in S
  BY DEF Leading

LEMMA BackIsLeading ==
  ASSUME GraphInv, Rooted, BodiesInv, pass # "bodies", NEW id \in Ids(bundle), NEW x \in Ids(bundle)
  PROVE  x \in Back(id, {}) <=> id \in Leading(bundle, ModuleEdges, {x})
<1> DEFINE Onward == {y \in Ids(bundle) : id \in Leading(bundle, ModuleEdges, {y})}
           Away == Ids(bundle) \ Back(id, {})
<1>1. id \in Onward
  BY LeadingIs
<1>2. ASSUME NEW y \in Onward, NEW p \in Ids(bundle), Asking(y, p) PROVE p \in Onward
  <2>1. <<p, y>> \in ModuleEdges
    BY <1>2, AskingIsEdge
  <2>2. ASSUME NEW S \in SUBSET Ids(bundle), p \in S,
               \A e \in ModuleEdges : e[1] \in S => e[2] \in S
        PROVE  id \in S
    <3>1. y \in S
      BY <2>1, <2>2
    <3>2. id \in Leading(bundle, ModuleEdges, {y})
      BY <1>2
    <3> QED
      BY <2>2, <3>1, <3>2, LeadingIs
  <2> QED
    BY <2>2, LeadingIs
<1>3. ClosedBack(Onward, {})
  BY <1>2 DEF ClosedBack
<1>4. Back(id, {}) \subseteq Onward
  <2>1. Onward \in SUBSET Ids(bundle)
    OBVIOUS
  <2> HIDE DEF Onward
  <2> QED
    BY <1>1, <1>3, <2>1, BackIsLeast
<1>5. ASSUME x \notin Back(id, {}) PROVE id \notin Leading(bundle, ModuleEdges, {x})
  <2>1. ASSUME NEW e \in ModuleEdges, e[1] \in Away PROVE e[2] \in Away
    <3>1. e = <<e[1], e[2]>> /\ e[1] \in Ids(bundle) /\ e[2] \in Ids(bundle)
      BY EdgeIsPair DEF ModuleEdges
    <3>2. Asking(e[2], e[1])
      BY <2>1, <3>1, AskingIsEdge
    <3>3. ClosedBack(Back(id, {}), {})
      BY BackIsClosed
    <3> QED
      BY <2>1, <3>1, <3>2, <3>3 DEF ClosedBack
  <2>2. x \in Away /\ id \notin Away
    BY <1>5, BackIsClosed
  <2>3. Away \in SUBSET Ids(bundle)
    OBVIOUS
  <2> HIDE DEF Away
  <2> QED
    BY <2>1, <2>2, <2>3, LeadingIs
<1> QED
  BY <1>4, <1>5

LEMMA RoutesAreCalls ==
  ASSUME GraphInv, Rooted, BodiesInv, pass # "bodies", NEW id \in Ids(bundle)
  PROVE  RoutesTo(id, {}) = CallsThatLeadTo(id)
<1>1. ASSUME NEW n \in RoutesTo(id, {}) PROVE n \in CallsThatLeadTo(id)
  <2>1. PICK x \in Back(id, {}) : n \in AuthorCallsInto(x)
    BY <1>1 DEF RoutesTo
  <2>2. x \in Ids(bundle)
    BY DEF Back
  <2>3. PICK m \in ToSet(bodies.callers[x]) : n = m[2] /\ ~Library(bundle, m[1])
    BY <2>1 DEF AuthorCallsInto
  <2>4. PICK c \in BodyCalls(m[1]) : m[1] \in RunningBodies /\ c[1] = n /\ c[2] = x
    BY <2>2, <2>3, VisitedAreRunning
  <2>5. id \in Leading(bundle, ModuleEdges, {c[2]})
    BY <2>1, <2>2, <2>4, BackIsLeading
  <2>6. m[1] \in AuthorBodies
    BY <2>3, <2>4 DEF AuthorBodies
  <2>7. c \in UNION {BodyCalls(p) : p \in AuthorBodies}
    BY <2>6
  <2> QED
    BY <2>4, <2>5, <2>7 DEF CallsThatLeadTo
<1>2. ASSUME NEW n \in CallsThatLeadTo(id) PROVE n \in RoutesTo(id, {})
  <2>1. PICK c \in UNION {BodyCalls(p) : p \in AuthorBodies} :
          n = c[1] /\ id \in Leading(bundle, ModuleEdges, {c[2]})
    BY <1>2 DEF CallsThatLeadTo
  <2>2. PICK p \in AuthorBodies : c \in BodyCalls(p)
    BY <2>1
  <2>3. p \in RunningBodies /\ ~Library(bundle, p)
    BY DEF AuthorBodies
  <2>4. c[2] \in Ids(bundle)
    BY <2>2 DEF BodyCalls, Followed, IsCall
  <2>5. <<p, n>> \in ToSet(bodies.callers[c[2]])
    BY <2>1, <2>2, <2>3, VisitedAreRunning
  <2>6. n \in AuthorCallsInto(c[2])
    BY <2>3, <2>5 DEF AuthorCallsInto
  <2>7. c[2] \in Back(id, {})
    BY <2>1, <2>4, BackIsLeading
  <2> QED
    BY <2>6, <2>7 DEF RoutesTo
<1> QED
  BY <1>1, <1>2

(* When every turn is done, the issues of a bundled body are where the calls *)
(* that lead to it are.                                                      *)
LEMMA TurnsReach ==
  ASSUME GraphInv, Rooted, BodiesInv, RoutesInv, pass \in {"validated", "compile", "compiled"},
         NEW id \in RunningBodies, id # RootId
  PROVE  LET own == OwnIssues(bundle, ProcessOf(bundle, id))
         IN /\ id \in Ids(bundle)
            /\ ~Library(bundle, id) => own \subseteq verdict.issues
            /\ Library(bundle, id) =>
                 \A e \in own : {i[2] : i \in {j \in verdict.inside : j[1] = e[1] /\ j[3] = id}}
                                  = RoutesTo(id, {})
<1>1. /\ VisitedBy(bodies) = RunningBodies /\ RunningBodies \subseteq Ids(bundle)
      /\ bodies.order \in Seq(Ids(bundle))
      /\ routes.turn > Len(bodies.order) /\ routes.turn \in Nat /\ TurnsDone(routes.turn, verdict)
  BY VisitedAreRunning DEF BodiesInv, BodyWalks, RoutesInv, Memos
<1>2. PICK t \in DOMAIN bodies.order : id = bodies.order[t]
  BY <1>1 DEF VisitedBy, ToSet
<1>3. t < routes.turn
  BY <1>1
<1>4. /\ ~Library(bundle, id) => OwnIssues(bundle, ProcessOf(bundle, id)) \subseteq verdict.issues
      /\ Library(bundle, id) => Attributed(id, RoutesTo(id, {})) \subseteq verdict.inside
  BY <1>1, <1>2, <1>3 DEF TurnsDone
<1>5. ASSUME Library(bundle, id), NEW e \in OwnIssues(bundle, ProcessOf(bundle, id))
      PROVE  {i[2] : i \in {j \in verdict.inside : j[1] = e[1] /\ j[3] = id}} = RoutesTo(id, {})
  <2>1. \A j \in verdict.inside : j[3] = id => j[2] \in RoutesTo(id, {})
    BY <1>1 DEF TurnsDone
  <2>2. ASSUME NEW n \in RoutesTo(id, {})
        PROVE  n \in {i[2] : i \in {j \in verdict.inside : j[1] = e[1] /\ j[3] = id}}
    <3>1. <<e[1], n, id>> \in Attributed(id, RoutesTo(id, {}))
      BY <1>5 DEF Attributed
    <3>2. <<e[1], n, id>> \in verdict.inside
      BY <1>4, <1>5, <3>1
    <3> QED
      BY <3>2
  <2> QED
    BY <2>1, <2>2
<1> QED
  BY <1>1, <1>4, <1>5

LEMMA AttributedIsRight ==
  ASSUME GraphInv, BodiesInv, RoutesInv
  PROVE  IssuesReachTheirCalls
<1> SUFFICES ASSUME pass = "validated", Rooted,
                    NEW id \in RunningBodies \ (AuthorBodies \cup {RootId}),
                    NEW e \in OwnIssues(bundle, ProcessOf(bundle, id))
             PROVE  {i[2] : i \in {j \in verdict.inside : j[1] = e[1] /\ j[3] = id}} = CallsThatLeadTo(id)
  BY DEF IssuesReachTheirCalls, Rooted, AuthorBodies, ModuleEdges, CallsThatLeadTo
<1>1. id \in RunningBodies /\ id # RootId /\ Library(bundle, id)
  BY DEF AuthorBodies
<1>2. /\ id \in Ids(bundle)
      /\ {i[2] : i \in {j \in verdict.inside : j[1] = e[1] /\ j[3] = id}} = RoutesTo(id, {})
  BY <1>1, TurnsReach
<1>3. RoutesTo(id, {}) = CallsThatLeadTo(id)
  BY <1>2, RoutesAreCalls
<1> QED
  BY <1>2, <1>3

(* The issues of a bundled body are reported on every call of the author's   *)
(* processes that leads to it and on no other, whatever circles the modules  *)
(* call each other in and whatever a search that met one left unremembered   *)
(* (attributed, routes).                                                     *)
THEOREM IssuesReach == BundleSpec => []IssuesReachTheirCalls
<1> DEFINE WalkInv == GraphInv /\ BodiesInv /\ RoutesInv
<1>1. BundleInit => WalkInv
  BY GraphInit, BodiesInit, RoutesInit
<1>2. WalkInv /\ [BundleNext]_bundleVars => WalkInv'
  BY GraphIsKept, BodiesIsKept, RoutesIsKept
<1>3. WalkInv => IssuesReachTheirCalls
  BY AttributedIsRight
<1> HIDE DEF WalkInv
<1> QED
  BY <1>1, <1>2, <1>3, PTL DEF BundleSpec

-----------------------------------------------------------------------------
(* An accepted document of which a process of the author runs: every body    *)
(* that runs was checked, and the calls of it are those the checks followed. *)
CompileReady ==
  /\ GraphInv /\ BodiesInv /\ RoutesInv /\ pass \in {"validated", "compile", "compiled"}
  /\ Accepted /\ ~Library(bundle, RootId)

LEMMA RunningIs ==
  ASSUME CompileReady
  PROVE  /\ Rooted /\ RunningBodies \subseteq Ids(bundle) /\ RootId \in RunningBodies
         /\ ClosedFromRoot(RunningBodies)
         /\ \A S \in SUBSET Ids(bundle) : ClosedFromRoot(S) => RunningBodies \subseteq S
<1>1. Rooted /\ pass # "bodies"
  BY AcceptedRoot DEF CompileReady
<1> QED
  BY <1>1, VisitedAreRunning DEF CompileReady, ClosedFromRoot

LEMMA ModulesAreCalled ==
  ASSUME CompileReady, NEW id \in RunningBodies, Library(bundle, id)
  PROVE  CallsThatLeadTo(id) # {}
<1> SUFFICES ASSUME CallsThatLeadTo(id) = {} PROVE FALSE
  OBVIOUS
<1> DEFINE Onward == {x \in Ids(bundle) : id \in Leading(bundle, ModuleEdges, {x})}
           S == RunningBodies \ Onward
<1>1. /\ RunningBodies \subseteq Ids(bundle) /\ RootId \in RunningBodies
      /\ ClosedFromRoot(RunningBodies) /\ ~Library(bundle, RootId) /\ id # RootId
  BY RunningIs DEF CompileReady
<1>2. id \in Onward
  BY <1>1, LeadingIs
<1>3. RootId \notin Onward
  <2>1. {RootId} \in SUBSET Ids(bundle) /\ RootId \in {RootId} /\ id \notin {RootId}
    BY <1>1
  <2>2. \A e \in ModuleEdges : e[1] \notin {RootId}
    BY <1>1 DEF ModuleEdges, AuthorBodies
  <2>3. id \notin Leading(bundle, ModuleEdges, {RootId})
    BY <2>1, <2>2, LeadingIs
  <2> QED
    BY <2>3
<1>4. ASSUME NEW e \in BodyEdges, e[1] \in S PROVE e[2] \in S
  <2>1. e = <<e[1], e[2]>> /\ e[1] \in Ids(bundle) /\ e[2] \in Ids(bundle)
    BY EdgeIsPair
  <2>2. e[1] \in RunningBodies /\ e[2] \in RunningBodies
    BY <1>1, <1>4 DEF ClosedFromRoot
  <2>3. ASSUME e[2] \in Onward PROVE FALSE
    <3>1. CASE Library(bundle, e[1])
      <4>1. e \in ModuleEdges
        BY <2>2, <3>1 DEF ModuleEdges, AuthorBodies
      <4>2. ASSUME NEW T \in SUBSET Ids(bundle), e[1] \in T,
                   \A d \in ModuleEdges : d[1] \in T => d[2] \in T
            PROVE  id \in T
        <5>1. e[2] \in T
          BY <4>1, <4>2
        <5>2. id \in Leading(bundle, ModuleEdges, {e[2]})
          BY <2>3
        <5> QED
          BY <4>2, <5>1, <5>2, LeadingIs
      <4>3. id \in Leading(bundle, ModuleEdges, {e[1]})
        BY <1>1, <4>2, LeadingIs
      <4> QED
        BY <1>4, <2>1, <4>3
    <3>2. CASE ~Library(bundle, e[1])
      <4>1. PICK c \in BodyCalls(e[1]) : c[2] = e[2]
        BY <2>1, BodyEdgeIs
      <4>2. e[1] \in AuthorBodies
        BY <2>2, <3>2 DEF AuthorBodies
      <4>3. c \in UNION {BodyCalls(p) : p \in AuthorBodies}
        BY <4>2
      <4>4. id \in Leading(bundle, ModuleEdges, {c[2]})
        BY <2>3, <4>1
      <4>5. c[1] \in CallsThatLeadTo(id)
        BY <4>3, <4>4 DEF CallsThatLeadTo
      <4> QED
        BY <4>5
    <3> QED
      BY <3>1, <3>2
  <2> QED
    BY <2>2, <2>3
<1>5. S \in SUBSET Ids(bundle) /\ RootId \in S
  BY <1>1, <1>3
<1>6. RunningBodies \subseteq S
  <2> HIDE DEF S
  <2> QED
    BY <1>4, <1>5, RunningIs DEF ClosedFromRoot
<1> QED
  BY <1>2, <1>6

LEMMA AcceptedBundle ==
  ASSUME CompileReady
  PROVE  /\ IsBundle(bundle) /\ DuplicateIds(bundle) = {} /\ NameClash(bundle, graph) = {}
         /\ HasNoCycle(bundle, Ids(bundle)) /\ verdict.root \in DOMAIN bundle
         /\ ~bundle[verdict.root].ignored
         /\ ProcessOf(bundle, RootId) = bundle[verdict.root]
         /\ OwnIssues(bundle, bundle[verdict.root]) = {}
         /\ \A id \in Ids(bundle) : Walked(id) = ProcessOf(bundle, id)
<1>1. /\ verdict.root \in DOMAIN bundle /\ verdict.root \in Runnable(bundle)
      /\ graph.done = Ids(bundle) /\ CallGraphIssues(bundle, graph) = {}
      /\ OwnIssues(bundle, bundle[verdict.root]) = {} /\ IsBundle(bundle)
      /\ GraphSound(bundle, graph)
  BY AcceptedRoot DEF CompileReady, GraphInv
<1>2. DuplicateIds(bundle) = {} /\ NameClash(bundle, graph) = {} /\ graph.cycles = {}
  BY <1>1, NoGraphIssues
<1>3. HasNoCycle(bundle, Ids(bundle))
  BY <1>1, <1>2 DEF GraphSound
<1>4. ~bundle[verdict.root].ignored
  BY <1>1, RunnableIs
<1>5. ProcessOf(bundle, RootId) = bundle[verdict.root]
  BY <1>1, <1>2, OnlyProcess DEF RootId
<1> QED
  BY <1>1, <1>2, <1>3, <1>4, <1>5 DEF Walked

LEMMA RunningIsChecked ==
  ASSUME CompileReady, NEW id \in RunningBodies
  PROVE  id \in Ids(bundle) /\ OwnIssues(bundle, ProcessOf(bundle, id)) = {}
<1>1. Rooted /\ id \in Ids(bundle) /\ verdict.issues = {} /\ verdict.inside = {}
  BY RunningIs DEF CompileReady, Accepted
<1>2. CASE id = RootId
  BY <1>1, <1>2, AcceptedBundle
<1>3. CASE id # RootId /\ ~Library(bundle, id)
  BY <1>1, <1>3, TurnsReach DEF CompileReady
<1>4. CASE id # RootId /\ Library(bundle, id)
  <2> SUFFICES ASSUME NEW e \in OwnIssues(bundle, ProcessOf(bundle, id)) PROVE FALSE
    BY <1>1
  <2>1. {i[2] : i \in {j \in verdict.inside : j[1] = e[1] /\ j[3] = id}} = RoutesTo(id, {})
    BY <1>1, <1>4, TurnsReach DEF CompileReady
  <2>2. RoutesTo(id, {}) = {}
    BY <1>1, <2>1
  <2>3. RoutesTo(id, {}) = CallsThatLeadTo(id)
    BY <1>1, RoutesAreCalls DEF CompileReady
  <2> QED
    BY <1>4, <2>2, <2>3, ModulesAreCalled
<1> QED
  BY <1>1, <1>2, <1>3, <1>4

LEMMA RunningIsCounted ==
  ASSUME CompileReady, NEW id \in RunningBodies
  PROVE  /\ ProcessOf(bundle, id).calls \in Seq(ToSet(ProcessOf(bundle, id).calls))
         /\ \A k \in DOMAIN ProcessOf(bundle, id).calls :
              /\ k \in SitesOf(bundle, id) /\ Target(bundle, id, k) \in RunningBodies
              /\ ProcessOf(bundle, id).calls[k] \in BodyCalls(id)
<1> DEFINE Counting == {x \in RunningBodies : ~ProcessOf(bundle, x).ignored}
<1>1. /\ RunningBodies \subseteq Ids(bundle) /\ RootId \in RunningBodies
      /\ ClosedFromRoot(RunningBodies)
  BY RunningIs
<1>2. ASSUME NEW x \in RunningBodies, NEW c \in ToSet(ProcessOf(bundle, x).calls)
      PROVE  IsCall(bundle, c) /\ ~ProcessOf(bundle, c[2]).ignored /\ ProcessOf(bundle, c[2]).started
  BY <1>2, RunningIsChecked, NoOwnIssues
<1>3. ASSUME NEW x \in RunningBodies, NEW c \in ToSet(ProcessOf(bundle, x).calls)
      PROVE  c \in BodyCalls(x) /\ c[2] \in RunningBodies
  <2>1. Walked(x) = ProcessOf(bundle, x)
    BY <1>1, AcceptedBundle
  <2>2. c \in BodyCalls(x)
    BY <1>2, <1>3, <2>1 DEF BodyCalls, Followed
  <2>3. <<x, c[2]>> \in BodyEdges
    BY <1>1, <2>2, BodyEdgeIs
  <2> QED
    BY <1>1, <2>2, <2>3 DEF ClosedFromRoot
<1>4. RootId \in Counting
  BY <1>1, AcceptedBundle
<1>5. ASSUME NEW e \in BodyEdges, e[1] \in Counting PROVE e[2] \in Counting
  <2>1. e = <<e[1], e[2]>> /\ e[1] \in RunningBodies /\ e[1] \in Ids(bundle)
    BY <1>1, <1>5, EdgeIsPair
  <2>2. PICK c \in BodyCalls(e[1]) : c[2] = e[2]
    BY <2>1, BodyEdgeIs
  <2>3. Walked(e[1]) = ProcessOf(bundle, e[1])
    BY <2>1, AcceptedBundle
  <2>4. c \in ToSet(ProcessOf(bundle, e[1]).calls)
    BY <2>3 DEF BodyCalls
  <2> QED
    BY <1>2, <1>3, <2>1, <2>2, <2>4
<1>6. RunningBodies \subseteq Counting
  <2>1. Counting \in SUBSET Ids(bundle)
    BY <1>1
  <2> HIDE DEF Counting
  <2> QED
    BY <1>4, <1>5, <2>1, RunningIs DEF ClosedFromRoot
<1>7. ProcessOf(bundle, id).calls \in Seq(ToSet(ProcessOf(bundle, id).calls))
  BY <1>1, AcceptedBundle, ProcessTyped
<1>8. ASSUME NEW k \in DOMAIN ProcessOf(bundle, id).calls
      PROVE  /\ k \in SitesOf(bundle, id) /\ Target(bundle, id, k) \in RunningBodies
             /\ ProcessOf(bundle, id).calls[k] \in BodyCalls(id)
  <2>1. ProcessOf(bundle, id).calls[k] \in ToSet(ProcessOf(bundle, id).calls)
    BY DEF ToSet
  <2>2. ~ProcessOf(bundle, id).ignored
    BY <1>6
  <2> QED
    BY <1>2, <1>3, <2>1, <2>2 DEF SitesOf, Counted, Target
<1> QED
  BY <1>7, <1>8

LEMMA RunningIsLed ==
  ASSUME CompileReady
  PROVE  Leading(bundle, CallEdges(bundle), {RootId}) = RunningBodies
<1> DEFINE Follows(S) == RootId \in S /\ \A e \in CallEdges(bundle) : e[1] \in S => e[2] \in S
<1>1. \A x : x \in Leading(bundle, CallEdges(bundle), {RootId}) <=>
        x \in Ids(bundle) /\ \A S \in SUBSET Ids(bundle) : Follows(S) => x \in S
  BY DEF Leading
<1>2. /\ RunningBodies \subseteq Ids(bundle) /\ RootId \in RunningBodies
      /\ ClosedFromRoot(RunningBodies)
  BY RunningIs
<1>3. ASSUME NEW e \in CallEdges(bundle), e[1] \in RunningBodies PROVE e[2] \in RunningBodies
  <2>1. PICK p \in ToSet(bundle) :
          e \in {<<p.id, c[2]>> : c \in {d \in ToSet(p.calls) : IsCall(bundle, d)}}
    BY DEF CallEdges
  <2>2. PICK c \in ToSet(p.calls) : e = <<p.id, c[2]>>
    BY <2>1
  <2>3. ProcessOf(bundle, p.id) = p
    BY AcceptedBundle, OnlyProcess DEF ToSet
  <2>4. PICK k \in DOMAIN ProcessOf(bundle, p.id).calls : c = ProcessOf(bundle, p.id).calls[k]
    BY <2>3 DEF ToSet
  <2>5. e[1] = p.id /\ e[2] = Target(bundle, p.id, k)
    BY <2>2, <2>4 DEF Target
  <2> QED
    BY <1>3, <2>4, <2>5, RunningIsCounted
<1>4. Follows(RunningBodies)
  BY <1>2, <1>3
<1>5. ASSUME NEW S \in SUBSET Ids(bundle), Follows(S) PROVE RunningBodies \subseteq S
  <2>1. ASSUME NEW e \in BodyEdges, e[1] \in S PROVE e[2] \in S
    <3>1. e = <<e[1], e[2]>> /\ e[1] \in Ids(bundle)
      BY EdgeIsPair
    <3>2. PICK c \in BodyCalls(e[1]) : c[2] = e[2]
      BY <3>1, BodyEdgeIs
    <3>3. PICK i \in DOMAIN bundle : Walked(e[1]) = bundle[i] /\ bundle[i].id = e[1]
      BY <3>1, AcceptedBundle, ProcessIsThere
    <3>4. c \in ToSet(bundle[i].calls) /\ IsCall(bundle, c) /\ bundle[i] \in ToSet(bundle)
      BY <3>2, <3>3 DEF BodyCalls, Followed, ToSet
    <3>5. e = <<bundle[i].id, c[2]>>
      BY <3>1, <3>2, <3>3
    <3>6. e \in {<<bundle[i].id, d[2]>> : d \in {f \in ToSet(bundle[i].calls) : IsCall(bundle, f)}}
      BY <3>4, <3>5
    <3>7. e \in CallEdges(bundle)
      BY <3>4, <3>6 DEF CallEdges
    <3> QED
      BY <1>5, <2>1, <3>7
  <2> QED
    BY <1>5, <2>1, RunningIs DEF ClosedFromRoot
<1> HIDE DEF Follows
<1> QED
  BY <1>1, <1>2, <1>4, <1>5

-----------------------------------------------------------------------------
(* The compilation, a step at a time.                                        *)
CompileUnderWay ==
  /\ CompileReady /\ pass = "compile" /\ plans \in Plannings /\ PlansSound(plans)
  /\ CompileWalk(plans, stack)

LEMMA TopCompiles ==
  ASSUME CompileUnderWay
  PROVE  /\ stack \in Seq(Compilations) /\ stack # <<>> /\ Here = Last(stack)
         /\ Len(stack) \in Nat \ {0} /\ DOMAIN stack = 1..Len(stack) /\ Len(stack) \in DOMAIN stack
         /\ Here = stack[Len(stack)] /\ Here \in Compilations /\ CompileSound(plans, Here)
         /\ Here.id \in RunningBodies /\ Here.id \in Ids(bundle) /\ Here.at \in Nat \ {0}
         /\ CallsHere = ProcessOf(bundle, Here.id).calls
<1>1. stack \in Seq(Compilations) /\ stack # <<>>
  BY DEF CompileUnderWay, CompileWalk
<1>2. /\ Len(stack) \in Nat \ {0} /\ DOMAIN stack = 1..Len(stack) /\ Len(stack) \in DOMAIN stack
      /\ Here = stack[Len(stack)] /\ Here \in Compilations
  BY <1>1, TopIsThere DEF Here
<1>3. CompileSound(plans, Here)
  BY <1>2 DEF CompileUnderWay, CompileWalk
<1> QED
  BY <1>1, <1>2, <1>3 DEF Compilations, CompileSound, CallsHere, Here

LEMMA CallCompiles ==
  ASSUME CompileUnderWay, AtCall
  PROVE  /\ Here.at \in DOMAIN ProcessOf(bundle, Here.id).calls
         /\ CallHere[2] = Target(bundle, Here.id, Here.at)
         /\ CallHere[2] \in RunningBodies /\ CallHere[2] \in Ids(bundle)
         /\ \A i \in DOMAIN stack : stack[i].id # CallHere[2]
<1>1. /\ DOMAIN stack = 1..Len(stack) /\ Len(stack) \in Nat \ {0} /\ Here = stack[Len(stack)]
      /\ Here.id \in RunningBodies /\ CallsHere = ProcessOf(bundle, Here.id).calls
      /\ Len(stack) \in DOMAIN stack
  BY TopCompiles
<1>2. Here.at \in DOMAIN ProcessOf(bundle, Here.id).calls /\ CallHere[2] = Target(bundle, Here.id, Here.at)
  BY <1>1 DEF AtCall, CallHere, Target
<1>3. CallHere[2] \in RunningBodies /\ RunningBodies \subseteq Ids(bundle)
  BY <1>1, <1>2, RunningIs, RunningIsCounted DEF CompileUnderWay
<1> DEFINE chain == {stack[i].id : i \in DOMAIN stack}
<1>4. \A i \in DOMAIN stack : stack[i].id \in RunningBodies
  BY DEF CompileUnderWay, CompileWalk, CompileSound
<1>5. ASSUME CallHere[2] \in chain PROVE FALSE
  <2>1. chain \in SUBSET Ids(bundle) /\ chain # {}
    BY <1>1, <1>3, <1>4
  <2>2. HasNoCycle(bundle, Ids(bundle))
    BY AcceptedBundle DEF CompileUnderWay
  <2>3. PICK x \in chain : \A k \in SitesOf(bundle, x) : Target(bundle, x, k) \notin chain
    BY <2>1, <2>2 DEF HasNoCycle
  <2>4. PICK i \in DOMAIN stack : x = stack[i].id
    OBVIOUS
  <2>5. CASE i = Len(stack)
    <3>1. x = Here.id
      BY <1>1, <2>4, <2>5
    <3>2. Here.at \in SitesOf(bundle, x)
      BY <1>1, <1>2, <3>1, RunningIsCounted DEF CompileUnderWay
    <3> QED
      BY <1>2, <1>5, <2>3, <3>1, <3>2
  <2>6. CASE i \in 1..(Len(stack) - 1)
    <3>1. /\ stack[i].at \in DOMAIN ProcessOf(bundle, x).calls
          /\ Target(bundle, x, stack[i].at) = stack[i + 1].id
      BY <2>4, <2>6 DEF CompileUnderWay, CompileWalk
    <3>2. stack[i].at \in SitesOf(bundle, x)
      BY <1>4, <2>4, <3>1, RunningIsCounted DEF CompileUnderWay
    <3>3. i + 1 \in DOMAIN stack
      <4>1. \A n \in Nat \ {0} : \A j \in 1..(n - 1) : j + 1 \in 1..n
        OBVIOUS
      <4> QED
        BY <1>1, <2>6, <4>1
    <3> QED
      BY <2>3, <3>1, <3>2, <3>3
  <2> QED
    BY <1>1, <2>4, <2>5, <2>6, Places
<1> QED
  BY <1>2, <1>3, <1>5

LEMMA ClaimedIs ==
  ASSUME NEW s \in Seq(Compilations), s # <<>>
  PROVE  \A x : x \in Claimed(s) <=> \E i \in DOMAIN s : i # 1 /\ s[i].id = x
<1>1. Len(s) \in Nat \ {0} /\ DOMAIN s = 1..Len(s)
  BY TopIsThere
<1>2. \A n \in Nat \ {0} : \A i : i \in 2..n <=> i \in 1..n /\ i # 1
  OBVIOUS
<1>3. \A i : i \in 2..Len(s) <=> i \in DOMAIN s /\ i # 1
  BY <1>1, <1>2
<1> QED
  BY <1>3 DEF Claimed

LEMMA CallIsPassed ==
  ASSUME NEW f \in Compilations, NEW n \in Nat \ {0}, NEW g, g = [f EXCEPT !.at = n]
  PROVE  g \in Compilations /\ g.id = f.id /\ g.at = n
  BY DEF Compilations

LEMMA BindCallKeeps ==
  ASSUME CompileUnderWay, BindCall
  PROVE  plans' \in Plannings /\ PlansSound(plans') /\ CompileWalk(plans', stack')
<1>1. /\ AtCall /\ CallHere[2] \in plans.claimed /\ stack' = GoOnAs([Here EXCEPT !.at = @ + 1])
      /\ plans' = [plans EXCEPT !.early = IF CallHere[2] \in ToSet(plans.put) THEN @
                                          ELSE @ \cup {CallHere[1]}]
  BY DEF BindCall
<1>2. /\ stack \in Seq(Compilations) /\ stack # <<>> /\ Len(stack) \in Nat \ {0}
      /\ DOMAIN stack = 1..Len(stack) /\ Here = stack[Len(stack)] /\ Here \in Compilations
      /\ CompileSound(plans, Here) /\ Here.at \in Nat \ {0} /\ Here.id \in RunningBodies
  BY TopCompiles
<1>3. /\ Here.at \in DOMAIN ProcessOf(bundle, Here.id).calls
      /\ CallHere[2] = Target(bundle, Here.id, Here.at)
      /\ \A i \in DOMAIN stack : stack[i].id # CallHere[2]
  BY <1>1, CallCompiles
<1>4. CallHere[2] \in ToSet(plans.put)
  BY <1>1, <1>2, <1>3, ClaimedIs DEF CompileUnderWay, CompileWalk
<1>5. plans' = plans
  <2>1. plans' = [plans EXCEPT !.early = @]
    BY <1>1, <1>4
  <2>2. plans \in Plannings
    BY DEF CompileUnderWay
  <2> QED
    BY <2>1, <2>2 DEF Plannings
<1> PICK f : f = [Here EXCEPT !.at = Here.at + 1]
  OBVIOUS
<1>6. /\ f \in Compilations /\ f = [Here EXCEPT !.at = @ + 1] /\ f.id = Here.id
      /\ f.at = Here.at + 1
  <2>1. Here.at + 1 \in Nat \ {0}
    BY <1>2
  <2> QED
    BY <1>2, <2>1, CallIsPassed
<1>7. CompileSound(plans, f)
  <2>1. ASSUME NEW k \in DOMAIN ProcessOf(bundle, Here.id).calls, k < Here.at + 1
        PROVE  Target(bundle, Here.id, k) \in ToSet(plans.put)
    <3>1. k \in Nat
      BY <1>2, RunningIsCounted DEF CompileUnderWay
    <3>2. k < Here.at \/ k = Here.at
      BY <1>2, <2>1, <3>1
    <3> QED
      BY <1>2, <1>3, <1>4, <3>2 DEF CompileSound
  <2> QED
    BY <1>2, <1>6, <2>1 DEF CompileSound
<1> DEFINE t == [stack EXCEPT ![Len(stack)] = f]
<1>8. /\ t \in Seq(Compilations) /\ Len(t) = Len(stack) /\ DOMAIN t = 1..Len(stack)
      /\ t[Len(stack)] = f /\ \A i \in 1..(Len(stack) - 1) : t[i] = stack[i]
  BY <1>2, <1>6, TopReplaced
<1>9. stack' = t
  BY <1>1, <1>6 DEF GoOnAs
<1> HIDE DEF t
<1>10. /\ \A i \in 1..Len(stack) : i = Len(stack) \/ i \in 1..(Len(stack) - 1)
       /\ \A i \in 1..(Len(stack) - 1) : i + 1 \in 1..Len(stack)
       /\ 1 \in 1..Len(stack)
  <2>1. \A n \in Nat \ {0} : (\A i \in 1..(n - 1) : i + 1 \in 1..n) /\ 1 \in 1..n
    OBVIOUS
  <2> QED
    BY <1>2, <2>1, Places
<1>11. \A i \in 1..Len(stack) : t[i].id = stack[i].id
  BY <1>2, <1>6, <1>8, <1>10
<1>12. IsDistinct(t)
  BY <1>2, <1>8, <1>11 DEF CompileUnderWay, CompileWalk, IsDistinct
<1>13. t # <<>> /\ t[1].id = RootId
  <2>1. t # <<>>
    BY <1>2, <1>8, EmptySeq
  <2> QED
    BY <1>10, <1>11, <2>1 DEF CompileUnderWay, CompileWalk
<1>14. \A i \in DOMAIN t : CompileSound(plans, t[i])
  BY <1>2, <1>7, <1>8, <1>10 DEF CompileUnderWay, CompileWalk
<1>15. ASSUME NEW i \in 1..(Len(t) - 1)
       PROVE  /\ t[i].at \in DOMAIN ProcessOf(bundle, t[i].id).calls
              /\ Target(bundle, t[i].id, t[i].at) = t[i + 1].id
  <2>1. i \in 1..(Len(stack) - 1)
    BY <1>8
  <2>2. t[i] = stack[i] /\ t[i + 1].id = stack[i + 1].id
    BY <2>1, <1>8, <1>10, <1>11
  <2> QED
    BY <2>1, <2>2 DEF CompileUnderWay, CompileWalk
<1>16. Claimed(t) = Claimed(stack)
  <2>1. \A x : x \in Claimed(t) <=> \E i \in 1..Len(stack) : i # 1 /\ t[i].id = x
    BY <1>8, <1>13, ClaimedIs
  <2>2. \A x : x \in Claimed(stack) <=> \E i \in 1..Len(stack) : i # 1 /\ stack[i].id = x
    BY <1>2, ClaimedIs
  <2>3. \A x : x \in Claimed(t) <=> x \in Claimed(stack)
    BY <1>11, <2>1, <2>2
  <2> QED
    BY <2>3
<1>17. CompileWalk(plans, t)
  BY <1>8, <1>12, <1>13, <1>14, <1>15, <1>16 DEF CompileUnderWay, CompileWalk
<1> QED
  BY <1>5, <1>9, <1>17 DEF CompileUnderWay

LEMMA ClaimKeeps ==
  ASSUME CompileUnderWay, Claim
  PROVE  plans' \in Plannings /\ PlansSound(plans') /\ CompileWalk(plans', stack')
<1>1. /\ AtCall /\ CallHere[2] \notin plans.claimed
      /\ plans' = [plans EXCEPT !.claimed = @ \cup {CallHere[2]}]
      /\ stack' = Append(stack, Compiling(CallHere[2]))
  BY DEF Claim
<1>2. /\ stack \in Seq(Compilations) /\ stack # <<>> /\ Len(stack) \in Nat \ {0}
      /\ DOMAIN stack = 1..Len(stack) /\ Here = stack[Len(stack)]
  BY TopCompiles
<1>3. /\ Here.at \in DOMAIN ProcessOf(bundle, Here.id).calls
      /\ CallHere[2] = Target(bundle, Here.id, Here.at)
      /\ CallHere[2] \in RunningBodies /\ CallHere[2] \in Ids(bundle)
      /\ \A i \in DOMAIN stack : stack[i].id # CallHere[2]
  BY <1>1, CallCompiles
<1> PICK y : y = plans'
  OBVIOUS
<1>4. y \in Plannings /\ y.put = plans.put /\ y.claimed = plans.claimed \cup {CallHere[2]}
  <2>1. plans.claimed \cup {CallHere[2]} \in SUBSET Ids(bundle) /\ plans \in Plannings
    BY <1>3 DEF CompileUnderWay, Plannings
  <2> QED
    BY <1>1, <2>1 DEF Plannings
<1>5. PlansSound(y)
  BY <1>4 DEF CompileUnderWay, PlansSound
<1> PICK f : f = Compiling(CallHere[2])
  OBVIOUS
<1>6. f \in Compilations /\ f.id = CallHere[2] /\ f.at = 1
  <2>1. f = [id |-> CallHere[2], at |-> 1]
    BY DEF Compiling
  <2> QED
    BY <1>3, <2>1 DEF Compilations
<1>7. CompileSound(y, f)
  <2>1. CallHere[2] \notin ToSet(plans.put)
    BY <1>1 DEF CompileUnderWay, CompileWalk
  <2>2. \A k \in DOMAIN ProcessOf(bundle, f.id).calls : ~(k < 1)
    BY <1>3, <1>6, RunningIsCounted DEF CompileUnderWay
  <2> QED
    BY <1>3, <1>4, <1>6, <2>1, <2>2 DEF CompileSound
<1> DEFINE t == Append(stack, f)
<1>8. /\ t \in Seq(Compilations) /\ Len(t) = Len(stack) + 1 /\ DOMAIN t = 1..(Len(stack) + 1)
      /\ t[Len(stack) + 1] = f /\ \A i \in 1..Len(stack) : t[i] = stack[i]
  BY <1>2, <1>6, Pushed
<1>9. stack' = t
  BY <1>1
<1> HIDE DEF t
<1>10. /\ \A i \in 1..(Len(stack) + 1) : i = Len(stack) + 1 \/ i \in 1..Len(stack)
       /\ \A i \in 1..(Len(stack) + 1 - 1) : i \in 1..Len(stack)
                                             /\ (i = Len(stack) \/ i \in 1..(Len(stack) - 1))
       /\ \A i \in 1..(Len(stack) - 1) : i + 1 \in 1..Len(stack)
       /\ 1 \in 1..Len(stack) /\ Len(stack) + 1 \in 1..(Len(stack) + 1) /\ Len(stack) + 1 # 1
       /\ \A i \in 1..Len(stack) : i \in 1..(Len(stack) + 1)
  <2>1. \A n \in Nat \ {0} :
          /\ \A i \in 1..(n + 1) : i = n + 1 \/ i \in 1..n
          /\ \A i \in 1..(n + 1 - 1) : i \in 1..n /\ (i = n \/ i \in 1..(n - 1))
          /\ \A i \in 1..(n - 1) : i + 1 \in 1..n
          /\ 1 \in 1..n /\ n + 1 \in 1..(n + 1) /\ n + 1 # 1
          /\ \A i \in 1..n : i \in 1..(n + 1)
    OBVIOUS
  <2> QED
    BY <1>2, <2>1
<1>11. IsDistinct(t)
  <2>1. IsDistinct(stack) /\ \A i \in DOMAIN stack : stack[i].id # f.id
    BY <1>3, <1>6 DEF CompileUnderWay, CompileWalk
  <2> QED
    BY <1>2, <1>6, <2>1, PushedIsDistinct DEF t
<1>12. t # <<>> /\ t[1].id = RootId
  <2>1. t # <<>>
    BY <1>2, <1>8, EmptySeq
  <2> QED
    BY <1>8, <1>10, <2>1 DEF CompileUnderWay, CompileWalk
<1>13. \A i \in DOMAIN t : CompileSound(y, t[i])
  <2>1. \A i \in DOMAIN stack : CompileSound(y, stack[i])
    BY <1>4 DEF CompileUnderWay, CompileWalk, CompileSound
  <2> QED
    BY <1>2, <1>7, <1>8, <1>10, <2>1
<1>14. ASSUME NEW i \in 1..(Len(t) - 1)
       PROVE  /\ t[i].at \in DOMAIN ProcessOf(bundle, t[i].id).calls
              /\ Target(bundle, t[i].id, t[i].at) = t[i + 1].id
  <2>1. i \in 1..Len(stack) /\ (i = Len(stack) \/ i \in 1..(Len(stack) - 1)) /\ t[i] = stack[i]
    BY <1>8, <1>10
  <2>2. CASE i = Len(stack)
    BY <1>2, <1>3, <1>6, <1>8, <2>1, <2>2
  <2>3. CASE i \in 1..(Len(stack) - 1)
    <3>1. t[i + 1] = stack[i + 1]
      BY <1>8, <1>10, <2>3
    <3> QED
      BY <2>1, <2>3, <3>1 DEF CompileUnderWay, CompileWalk
  <2> QED
    BY <2>1, <2>2, <2>3
<1>15. Claimed(t) = Claimed(stack) \cup {CallHere[2]}
  <2>1. \A x : x \in Claimed(t) <=> \E i \in 1..(Len(stack) + 1) : i # 1 /\ t[i].id = x
    BY <1>8, <1>12, ClaimedIs
  <2>2. \A x : x \in Claimed(stack) <=> \E i \in 1..Len(stack) : i # 1 /\ stack[i].id = x
    BY <1>2, ClaimedIs
  <2> PICK n : n = Len(stack)
    OBVIOUS
  <2>3. /\ n + 1 \in 1..(n + 1) /\ n + 1 # 1 /\ t[n + 1].id = CallHere[2]
        /\ \A i \in 1..n : i \in 1..(n + 1) /\ t[i].id = stack[i].id
        /\ \A i \in 1..(n + 1) : i = n + 1 \/ i \in 1..n
    BY <1>6, <1>8, <1>10
  <2>4. ASSUME NEW x \in Claimed(t) PROVE x \in Claimed(stack) \/ x = CallHere[2]
    <3>1. PICK i \in 1..(n + 1) : i # 1 /\ t[i].id = x
      BY <2>1
    <3> QED
      BY <2>2, <2>3, <3>1
  <2>5. ASSUME NEW x \in Claimed(stack) PROVE x \in Claimed(t)
    <3>1. PICK i \in 1..n : i # 1 /\ stack[i].id = x
      BY <2>2
    <3> QED
      BY <2>1, <2>3, <3>1
  <2>6. CallHere[2] \in Claimed(t)
    BY <2>1, <2>3
  <2> QED
    BY <2>4, <2>5, <2>6
<1>16. CompileWalk(y, t)
  <2>1. y.claimed = ToSet(y.put) \cup Claimed(t)
    BY <1>4, <1>15 DEF CompileUnderWay, CompileWalk
  <2> QED
    BY <1>8, <1>11, <1>12, <1>13, <1>14, <2>1 DEF CompileWalk
<1> QED
  BY <1>4, <1>5, <1>9, <1>16

LEMMA PutPlanKeeps ==
  ASSUME CompileUnderWay, PutPlan
  PROVE  plans' \in Plannings /\ PlansSound(plans') /\ CompileWalk(plans', stack')
<1>1. /\ AtEnd /\ Len(stack) > 1 /\ plans' = [plans EXCEPT !.put = Append(@, Here.id)]
      /\ stack' = Front(stack)
  BY DEF PutPlan
<1>2. /\ stack \in Seq(Compilations) /\ stack # <<>> /\ Len(stack) \in Nat \ {0}
      /\ DOMAIN stack = 1..Len(stack) /\ Here = stack[Len(stack)] /\ Len(stack) \in DOMAIN stack
      /\ CompileSound(plans, Here) /\ Here.at \in Nat \ {0} /\ Here.id \in RunningBodies
      /\ Here.id \in Ids(bundle) /\ CallsHere = ProcessOf(bundle, Here.id).calls
  BY TopCompiles
<1> PICK x : x = Here.id
  OBVIOUS
<1>3. /\ IsDistinct(stack) /\ stack[1].id = RootId /\ \A i \in DOMAIN stack : CompileSound(plans, stack[i])
      /\ plans.claimed = ToSet(plans.put) \cup Claimed(stack)
      /\ \A i \in 1..(Len(stack) - 1) :
           /\ stack[i].at \in DOMAIN ProcessOf(bundle, stack[i].id).calls
           /\ Target(bundle, stack[i].id, stack[i].at) = stack[i + 1].id
  BY DEF CompileUnderWay, CompileWalk
<1>4. /\ \A i \in 1..Len(stack) : i = Len(stack) \/ i \in 1..(Len(stack) - 1)
      /\ \A i \in 1..(Len(stack) - 1) : i \in 1..Len(stack) /\ i # Len(stack)
      /\ 1 \in 1..(Len(stack) - 1) /\ Len(stack) - 1 \in Nat /\ Len(stack) - 1 # 0
      /\ \A i \in 1..(Len(stack) - 1 - 1) : i \in 1..(Len(stack) - 1) /\ i + 1 \in 1..(Len(stack) - 1)
      /\ 1 \in 1..Len(stack) /\ Len(stack) # 1
  <2>1. \A n \in Nat \ {0} : n > 1 =>
          /\ \A i \in 1..n : i = n \/ i \in 1..(n - 1)
          /\ \A i \in 1..(n - 1) : i \in 1..n /\ i # n
          /\ 1 \in 1..(n - 1) /\ n - 1 \in Nat /\ n - 1 # 0
          /\ \A i \in 1..(n - 1 - 1) : i \in 1..(n - 1) /\ i + 1 \in 1..(n - 1)
          /\ 1 \in 1..n /\ n # 1
    OBVIOUS
  <2> QED
    BY <1>1, <1>2, <2>1
<1>5. x # RootId /\ x \in RunningBodies \ ToSet(plans.put) /\ x \in Ids(bundle)
  BY <1>2, <1>3, <1>4 DEF IsDistinct, CompileSound
<1>6. \A k \in DOMAIN ProcessOf(bundle, x).calls : Target(bundle, x, k) \in ToSet(plans.put)
  <2>1. ASSUME NEW k \in DOMAIN ProcessOf(bundle, x).calls PROVE k < Here.at
    <3>1. /\ ProcessOf(bundle, x).calls \in Seq(ToSet(ProcessOf(bundle, x).calls))
          /\ Here.at \notin DOMAIN ProcessOf(bundle, x).calls
      BY <1>1, <1>2, RunningIsCounted DEF CompileUnderWay, AtEnd
    <3> QED
      BY <1>2, <3>1
  <2> QED
    BY <1>2, <2>1 DEF CompileSound
<1> PICK y : y = plans'
  OBVIOUS
<1>7. plans \in Plannings /\ plans.put \in Seq(Ids(bundle)) /\ PlansSound(plans)
  BY DEF CompileUnderWay, Plannings
<1> PICK put : put = Append(plans.put, x)
  OBVIOUS
<1>8. /\ put \in Seq(Ids(bundle)) /\ DOMAIN put = 1..(Len(plans.put) + 1)
      /\ put[Len(plans.put) + 1] = x /\ ToSet(put) = ToSet(plans.put) \cup {x}
      /\ \A i \in 1..Len(plans.put) : put[i] = plans.put[i]
  BY <1>5, <1>7, Pushed, AppendHolds
<1>9. y \in Plannings /\ y.put = put /\ y.claimed = plans.claimed
  <2>1. y = [plans EXCEPT !.put = put]
    BY <1>1
  <2> QED
    BY <1>7, <1>8, <2>1 DEF Plannings
<1>10. \A i, j \in DOMAIN put : put[i] = put[j] => i = j
  <2> PICK n : n = Len(plans.put)
    OBVIOUS
  <2>1. n \in Nat /\ DOMAIN plans.put = 1..n /\ \A i \in 1..n : plans.put[i] # x
    BY <1>5, <1>7 DEF ToSet
  <2>2. \A i \in 1..(n + 1) : i = n + 1 \/ i \in 1..n
    BY <2>1
  <2>3. \A i, j \in 1..n : plans.put[i] = plans.put[j] => i = j
    BY <1>7, <2>1 DEF PlansSound
  <2>4. ASSUME NEW i \in 1..(n + 1), NEW j \in 1..(n + 1), put[i] = put[j] PROVE i = j
    <3>1. CASE i = n + 1 /\ j = n + 1
      BY <3>1
    <3>2. CASE i \in 1..n /\ j = n + 1
      BY <1>8, <2>1, <2>4, <3>2
    <3>3. CASE i = n + 1 /\ j \in 1..n
      BY <1>8, <2>1, <2>4, <3>3
    <3>4. CASE i \in 1..n /\ j \in 1..n
      BY <1>8, <2>3, <2>4, <3>4
    <3> QED
      BY <2>2, <3>1, <3>2, <3>3, <3>4
  <2> QED
    BY <1>8, <2>4
<1>11. PlansSound(y)
  <2>1. ToSet(put) \subseteq RunningBodies \ {RootId}
    BY <1>5, <1>7, <1>8 DEF PlansSound
  <2>2. ASSUME NEW id \in ToSet(put), NEW k \in DOMAIN ProcessOf(bundle, id).calls
        PROVE  Target(bundle, id, k) \in ToSet(put)
    BY <1>6, <1>7, <1>8, <2>2 DEF PlansSound
  <2> QED
    BY <1>9, <1>10, <2>1, <2>2 DEF PlansSound
<1> DEFINE t == Front(stack)
<1>12. /\ t \in Seq(Compilations) /\ Len(t) = Len(stack) - 1 /\ DOMAIN t = 1..(Len(stack) - 1)
       /\ \A i \in 1..(Len(stack) - 1) : t[i] = stack[i]
  BY <1>2, FrontIsRest
<1>13. stack' = t
  BY <1>1
<1> HIDE DEF t
<1>14. \A i \in 1..(Len(stack) - 1) : stack[i].id # x
  BY <1>2, <1>3, <1>4 DEF IsDistinct
<1>15. IsDistinct(t)
  <2>1. ASSUME NEW i \in 1..(Len(stack) - 1), NEW j \in 1..(Len(stack) - 1), t[i].id = t[j].id
        PROVE  i = j
    <3>1. i \in DOMAIN stack /\ j \in DOMAIN stack /\ stack[i].id = stack[j].id
      BY <1>2, <1>4, <1>12, <2>1
    <3> QED
      BY <1>3, <3>1 DEF IsDistinct
  <2>2. DOMAIN t = 1..(Len(stack) - 1)
    BY <1>12
  <2> QED
    BY <2>1, <2>2 DEF IsDistinct
<1>16. t # <<>> /\ t[1].id = RootId
  <2>1. t # <<>>
    BY <1>4, <1>12, EmptySeq
  <2> QED
    BY <1>3, <1>4, <1>12, <2>1
<1>17. ASSUME NEW i \in DOMAIN t PROVE CompileSound(y, t[i])
  <2>1. CompileSound(plans, stack[i]) /\ t[i] = stack[i] /\ stack[i].id # x
    BY <1>2, <1>3, <1>4, <1>12, <1>14
  <2> QED
    BY <1>8, <1>9, <2>1 DEF CompileSound
<1>18. ASSUME NEW i \in 1..(Len(t) - 1)
       PROVE  /\ t[i].at \in DOMAIN ProcessOf(bundle, t[i].id).calls
              /\ Target(bundle, t[i].id, t[i].at) = t[i + 1].id
  <2>1. i \in 1..(Len(stack) - 1) /\ i + 1 \in 1..(Len(stack) - 1)
    BY <1>4, <1>12
  <2>2. t[i] = stack[i] /\ t[i + 1] = stack[i + 1]
    BY <1>12, <2>1
  <2> QED
    BY <1>3, <2>1, <2>2
<1>19. Claimed(stack) = Claimed(t) \cup {x}
  <2>1. /\ \A z : z \in Claimed(t) <=> \E i \in DOMAIN t : i # 1 /\ t[i].id = z
        /\ \A z : z \in Claimed(stack) <=> \E i \in DOMAIN stack : i # 1 /\ stack[i].id = z
    BY <1>2, <1>12, <1>16, ClaimedIs
  <2> PICK n : n = Len(stack)
    OBVIOUS
  <2>2. /\ DOMAIN t = 1..(n - 1) /\ DOMAIN stack = 1..n /\ n \in 1..n /\ n # 1 /\ stack[n].id = x
        /\ \A i \in 1..(n - 1) : i \in 1..n /\ t[i].id = stack[i].id
        /\ \A i \in 1..n : i = n \/ i \in 1..(n - 1)
    BY <1>2, <1>4, <1>12
  <2>3. \A z : z \in Claimed(stack) <=> z \in Claimed(t) \/ z = x
    <3>1. ASSUME NEW z \in Claimed(stack) PROVE z \in Claimed(t) \/ z = x
      <4>1. PICK i \in DOMAIN stack : i # 1 /\ stack[i].id = z
        BY <2>1
      <4> QED
        BY <2>1, <2>2, <4>1
    <3>2. ASSUME NEW z \in Claimed(t) PROVE z \in Claimed(stack)
      <4>1. PICK i \in DOMAIN t : i # 1 /\ t[i].id = z
        BY <2>1
      <4> QED
        BY <2>1, <2>2, <4>1
    <3>3. x \in Claimed(stack)
      BY <2>1, <2>2
    <3> QED
      BY <3>1, <3>2, <3>3
  <2> QED
    BY <2>3
<1>20. CompileWalk(y, t)
  <2>1. y.claimed = ToSet(y.put) \cup Claimed(t)
    BY <1>3, <1>8, <1>9, <1>19
  <2> QED
    BY <1>12, <1>15, <1>16, <1>17, <1>18, <2>1 DEF CompileWalk
<1> QED
  BY <1>9, <1>11, <1>13, <1>20

LEMMA EndCompileKeeps ==
  ASSUME CompileUnderWay, EndCompile
  PROVE  \A k \in DOMAIN ProcessOf(bundle, RootId).calls : Target(bundle, RootId, k) \in ToSet(plans.put)
<1>1. AtEnd /\ Len(stack) = 1
  BY DEF EndCompile
<1>2. /\ Here = stack[Len(stack)] /\ CompileSound(plans, Here) /\ Here.at \in Nat \ {0}
      /\ Here.id \in RunningBodies /\ CallsHere = ProcessOf(bundle, Here.id).calls
  BY TopCompiles
<1>3. Here.id = RootId
  BY <1>1, <1>2 DEF CompileUnderWay, CompileWalk
<1>4. /\ ProcessOf(bundle, RootId).calls \in Seq(ToSet(ProcessOf(bundle, RootId).calls))
      /\ Here.at \notin DOMAIN ProcessOf(bundle, RootId).calls
  BY <1>1, <1>2, <1>3, RunningIsCounted DEF CompileUnderWay, AtEnd
<1>5. \A k \in DOMAIN ProcessOf(bundle, RootId).calls : k < Here.at
  BY <1>2, <1>4
<1> QED
  BY <1>2, <1>3, <1>5 DEF CompileSound

LEMMA BeginCompileKeeps ==
  ASSUME CompileReady, plans = NoPlans, BeginCompile
  PROVE  plans' \in Plannings /\ PlansSound(plans') /\ CompileWalk(plans', stack')
<1>1. stack' = <<Compiling(RootId)>> /\ plans' = [plans EXCEPT !.main = MainName]
  BY DEF BeginCompile, MainName
<1>2. RootId \in RunningBodies /\ RootId \in Ids(bundle)
  BY RunningIs
<1>3. PICK y : y = plans'
  OBVIOUS
<1>4. y = [main |-> MainName, claimed |-> {}, put |-> <<>>, early |-> {}]
  BY <1>1, <1>3 DEF NoPlans
<1>5. y.put = <<>> /\ ToSet(y.put) = {} /\ y.claimed = {}
  BY <1>4 DEF ToSet
<1>6. y \in Plannings
  BY <1>4 DEF Plannings
<1>7. PlansSound(y)
  BY <1>5 DEF PlansSound
<1> PICK f : f = Compiling(RootId)
  OBVIOUS
<1>8. f \in Compilations /\ f.id = RootId /\ f.at = 1
  <2>1. f = [id |-> RootId, at |-> 1]
    BY DEF Compiling
  <2> QED
    BY <1>2, <2>1 DEF Compilations
<1>9. CompileSound(y, f)
  <2>1. \A k \in DOMAIN ProcessOf(bundle, RootId).calls : ~(k < 1)
    BY <1>2, RunningIsCounted
  <2> QED
    BY <1>2, <1>5, <1>8, <2>1 DEF CompileSound
<1>10. /\ <<f>> \in Seq(Compilations) /\ DOMAIN <<f>> = {1} /\ Len(<<f>>) = 1 /\ <<f>>[1] = f
       /\ <<f>> # <<>>
  BY <1>8
<1>11. 1..(Len(<<f>>) - 1) = {} /\ 2..Len(<<f>>) = {}
  BY <1>10
<1>12. CompileWalk(y, <<f>>)
  BY <1>5, <1>8, <1>9, <1>10, <1>11 DEF CompileWalk, IsDistinct, Claimed
<1> QED
  BY <1>1, <1>3, <1>6, <1>7, <1>12

LEMMA CompileIsKept ==
  GraphInv /\ BodiesInv /\ RoutesInv /\ CompileInv /\ [BundleNext]_bundleVars => CompileInv'
<1> SUFFICES ASSUME GraphInv, BodiesInv, RoutesInv, CompileInv, [BundleNext]_bundleVars
             PROVE  CompileInv'
  OBVIOUS
<1>1. CASE GraphStep \/ BodiesStep \/ RoutesStep
  <2>1. /\ plans' = plans /\ pass \in {"graph", "bodies", "routes"}
        /\ pass' \in {"graph", "bodies", "routes", "validated"}
    BY <1>1 DEF GraphStep, VisitNext, SkipCall, VisitCalled, CountCall, EndVisit, RefuseBundle,
       ChooseRoot, BodiesStep, PassBodyCall, NoteBodyCall, QueueBody, NextBody, EndBodies,
       RoutesStep, AttributeOwn, AttributeKnown, SeekRoutes, AuthorCalls, KnownCalls, CutCycle,
       SeekCaller, ReturnRoutes, AttributeFound, EndRoutes
  <2> QED
    BY <2>1 DEF CompileInv
<1>2. CASE CompileStep \/ UNCHANGED bundleVars
  <2>1. UNCHANGED <<bundle, bodies, verdict>>
    BY <1>2 DEF CompileStep, BeginCompile, Claim, BindCall, PutPlan, EndCompile, bundleVars
  <2>2. /\ RootId' = RootId /\ Accepted' = Accepted
        /\ Library(bundle, RootId)' = Library(bundle, RootId)
    BY <2>1 DEF RootId, Accepted, Library, ProcessOf
  <2>3. /\ RunningBodies' = RunningBodies /\ Plannings' = Plannings /\ Compilations' = Compilations
    <3>1. BodyEdges' = BodyEdges
      BY <2>1 DEF BodyEdges, BodyCalls, Walked, Followed, RootId
    <3>2. RunningBodies' = RunningBodies
      BY <2>1, <2>2, <3>1 DEF RunningBodies
    <3>3. Plannings' = Plannings
      BY <2>1, <2>2 DEF Plannings, MainName
    <3> QED
      BY <2>1, <3>2, <3>3 DEF Compilations
  <2>4. ASSUME PlansSound(plans') PROVE PlansSound(plans)'
    BY <2>1, <2>2, <2>3, <2>4 DEF PlansSound
  <2>5. ASSUME CompileWalk(plans', stack') PROVE CompileWalk(plans, stack)'
    BY <2>1, <2>2, <2>3, <2>5 DEF CompileWalk, CompileSound
  <2>6. CASE CompileStep
    <3>1. /\ (pass = "validated" /\ BeginCompile)
             \/ (pass = "compile" /\ (Claim \/ BindCall \/ PutPlan \/ EndCompile))
          /\ Accepted /\ pass' \in {"compile", "compiled"}
      BY <2>6 DEF CompileInv, CompileStep, BeginCompile, Claim, BindCall, PutPlan, EndCompile
    <3>2. CASE Library(bundle, RootId)
      BY <2>2, <3>1, <3>2 DEF CompileInv
    <3>3. CASE ~Library(bundle, RootId)
      <4>1. CompileReady /\ (pass = "validated" => plans = NoPlans)
        BY <3>1, <3>3 DEF CompileReady, CompileInv
      <4>2. pass = "compile" => CompileUnderWay
        BY <3>3, <4>1 DEF CompileInv, CompileUnderWay
      <4>3. CASE ~EndCompile
        <5>1. plans' \in Plannings /\ PlansSound(plans') /\ CompileWalk(plans', stack')
          BY <3>1, <4>1, <4>2, <4>3, BeginCompileKeeps, ClaimKeeps, BindCallKeeps, PutPlanKeeps
        <5>2. pass' = "compile"
          BY <2>6, <4>3 DEF CompileStep, BeginCompile, Claim, BindCall, PutPlan
        <5> QED
          BY <2>2, <2>3, <2>4, <2>5, <3>1, <5>1, <5>2 DEF CompileInv
      <4>4. CASE EndCompile
        <5>1. pass = "compile" /\ pass' = "compiled" /\ plans' = plans
          BY <4>4 DEF EndCompile
        <5>2. \A k \in DOMAIN ProcessOf(bundle, RootId).calls :
                Target(bundle, RootId, k) \in ToSet(plans.put)
          BY <4>2, <4>4, <5>1, EndCompileKeeps
        <5>3. (\A k \in DOMAIN ProcessOf(bundle, RootId).calls :
                 Target(bundle, RootId, k) \in ToSet(plans.put))'
          BY <2>1, <2>2, <5>1, <5>2 DEF Target, ProcessOf
        <5>4. plans' \in Plannings /\ PlansSound(plans')
          BY <4>2, <5>1 DEF CompileUnderWay
        <5> QED
          BY <2>2, <2>3, <2>4, <3>1, <5>1, <5>3, <5>4 DEF CompileInv
      <4> QED
        BY <4>3, <4>4
    <3> QED
      BY <3>2, <3>3
  <2>7. CASE UNCHANGED bundleVars
    <3>1. UNCHANGED <<pass, plans, stack>>
      BY <2>7 DEF bundleVars
    <3>2. (\A k \in DOMAIN ProcessOf(bundle, RootId).calls :
             Target(bundle, RootId, k) \in ToSet(plans.put)) =>
          (\A k \in DOMAIN ProcessOf(bundle, RootId).calls :
             Target(bundle, RootId, k) \in ToSet(plans.put))'
      BY <2>1, <2>2, <3>1 DEF Target, ProcessOf
    <3> QED
      BY <2>2, <2>3, <2>4, <2>5, <3>1, <3>2 DEF CompileInv
  <2> QED
    BY <1>2, <2>6, <2>7
<1> QED
  BY <1>1, <1>2 DEF BundleNext

LEMMA CompileInit == BundleInit => CompileInv
  BY DEF BundleInit, StartsWith, CompileInv

(* What the four walks keep, as one invariant of the specification: what the *)
(* graph, the bodies, the routes and the plans of a document are as far as   *)
(* the walk over them went (ValidateCallGraph, ValidateCalledBodies,         *)
(* attributed, compileCalledPlan).                                           *)
THEOREM WalksKeep == BundleSpec => []CallGraphInv
<1>1. BundleInit => CallGraphInv
  BY GraphInit, BodiesInit, RoutesInit, CompileInit DEF CallGraphInv
<1>2. CallGraphInv /\ [BundleNext]_bundleVars => CallGraphInv'
  BY GraphIsKept, BodiesIsKept, RoutesIsKept, CompileIsKept DEF CallGraphInv
<1> QED
  BY <1>1, <1>2, PTL DEF BundleSpec

LEMMA MainIsNoPlan ==
  ASSUME CompileReady, ToSet(plans.put) \subseteq RunningBodies \ {RootId}
  PROVE  MainName \notin ToSet(plans.put)
<1> SUFFICES ASSUME MainName \in ToSet(plans.put) PROVE FALSE
  OBVIOUS
<1> DEFINE root == bundle[verdict.root]
<1>1. MainName # RootId
  OBVIOUS
<1>2. MainName = root.name /\ root.name \notin {"", RootId}
  BY <1>1 DEF MainName
<1>3. root.id = RootId /\ root.id \notin graph.called
  BY RootIsNotCalled DEF CompileReady, RootId
<1>4. root.name \in Ids(bundle)
  BY <1>2, RunningIs
<1>5. root \in ToSet(bundle) /\ NameClash(bundle, graph) = {}
  BY AcceptedBundle DEF ToSet
<1> HIDE DEF root
<1>6. root.id \in NameClash(bundle, graph)
  BY <1>2, <1>3, <1>4, <1>5 DEF NameClash
<1> QED
  BY <1>5, <1>6

LEMMA CompiledIsChecked ==
  ASSUME CallGraphInv
  PROVE  CompiledWereChecked
<1> SUFFICES ASSUME pass = "compiled", ~Library(bundle, RootId)
             PROVE  /\ plans.early = {}
                    /\ IsInjective(plans.put) /\ plans.main \notin ToSet(plans.put)
                    /\ ToSet(plans.put) = Leading(bundle, CallEdges(bundle), {RootId}) \ {RootId}
                    /\ \A id \in ToSet(plans.put) : OwnIssues(bundle, ProcessOf(bundle, id)) = {}
  BY DEF CompiledWereChecked
<1>1. /\ CompileReady /\ plans \in Plannings /\ PlansSound(plans)
      /\ \A k \in DOMAIN ProcessOf(bundle, RootId).calls : Target(bundle, RootId, k) \in ToSet(plans.put)
  BY DEF CallGraphInv, CompileInv, CompileReady
<1>2. plans.early = {} /\ plans.main = MainName
  BY <1>1 DEF Plannings
<1>3. IsInjective(plans.put) /\ ToSet(plans.put) \subseteq RunningBodies \ {RootId}
  BY <1>1 DEF PlansSound, IsInjective
<1>4. plans.main \notin ToSet(plans.put)
  BY <1>1, <1>2, <1>3, MainIsNoPlan
<1> DEFINE Compiled == {RootId} \cup ToSet(plans.put)
<1>5. ASSUME NEW e \in BodyEdges, e[1] \in Compiled PROVE e[2] \in Compiled
  <2>1. e = <<e[1], e[2]>> /\ e[1] \in Ids(bundle)
    BY EdgeIsPair
  <2>2. PICK c \in BodyCalls(e[1]) : c[2] = e[2]
    BY <2>1, BodyEdgeIs
  <2>3. Walked(e[1]) = ProcessOf(bundle, e[1])
    BY <1>1, <2>1, AcceptedBundle
  <2>4. PICK k \in DOMAIN ProcessOf(bundle, e[1]).calls : c = ProcessOf(bundle, e[1]).calls[k]
    BY <2>3 DEF BodyCalls, ToSet
  <2>5. e[2] = Target(bundle, e[1], k)
    BY <2>2, <2>4 DEF Target
  <2> QED
    BY <1>1, <1>5, <2>4, <2>5 DEF PlansSound
<1>6. RunningBodies \subseteq Compiled
  <2>1. Compiled \in SUBSET Ids(bundle) /\ RootId \in Compiled
    BY <1>1, <1>3, RunningIs
  <2> HIDE DEF Compiled
  <2> QED
    BY <1>1, <1>5, <2>1, RunningIs DEF ClosedFromRoot
<1>7. ToSet(plans.put) = Leading(bundle, CallEdges(bundle), {RootId}) \ {RootId}
  BY <1>1, <1>3, <1>6, RunningIsLed
<1>8. \A id \in ToSet(plans.put) : OwnIssues(bundle, ProcessOf(bundle, id)) = {}
  BY <1>1, <1>3, RunningIsChecked
<1> QED
  BY <1>2, <1>3, <1>4, <1>7, <1>8

(* What is compiled of an accepted document is what its calls lead to, each  *)
(* process once, without an issue of its own, under a name no other plan     *)
(* has, and put before a call binds its departments against it               *)
(* (compileCalledPlan, bindDepartments), when the pool that runs is the      *)
(* author's.                                                                 *)
THEOREM CompiledChecked == BundleSpec => []CompiledWereChecked
<1>1. CallGraphInv => CompiledWereChecked
  BY CompiledIsChecked
<1> QED
  BY <1>1, WalksKeep, PTL
=============================================================================
