------------------------------ MODULE MCLibrary ------------------------------
(* One run over eight parts that share no state: the module library, the     *)
(* compilation of one process, the index of its joins, the comparison of two *)
(* versions, the names of messages, the checks of a bundle, how a bundle is  *)
(* made and what a call binds.  part says which of them moves; the others    *)
(* stay as they start.                                                       *)
EXTENDS MCVersions, MCMessages, MCModules, CatalogProperties, CallGraph, JoinIndex

VARIABLE part
vars == <<catalogVars, compilerVars, indexVars, bundleVars, joinVars, bindingVars, diffVars, namingVars, part>>

(* Two modules of the tenant and a global one whose name one of them shares; *)
(* a and b may call each other's latest version, and the workflow calls a    *)
(* pinned and a at its latest.                                               *)
A == <<"t", "a">>
B == <<"t", "b">>
G == <<Global, "a">>
LibraryModules == {A, B, G}
LibraryDocuments ==
  [m \in LibraryModules |-> CASE m = A -> {<<>>, <<<<"b", 0>>>>}
                              [] m = B -> {<<>>, <<<<"a", 0>>>>}
                              [] OTHER -> {<<>>}]
LibraryWorkflows == {<<<<"a", 1>>, <<"a", 0>>>>}
Symmetry == Permutations(Users)

-----------------------------------------------------------------------------
Upto(ids) == {<<>>} \cup One(ids) \cup {<<a, b>> : a \in ids, b \in ids}

Pool(id, tasks, targets) ==
  [id |-> id, name |-> id, tasks |-> tasks, issues |-> {},
   calls |-> [i \in DOMAIN targets |-> <<<<id, i>>, targets[i]>>],
   started |-> TRUE, executable |-> TRUE, ignored |-> FALSE, library |-> FALSE]
Bundled(id, tasks, targets, found) ==
  [Pool(id, tasks, targets) EXCEPT !.library = TRUE, !.issues = found]

(* One faulty body at most: issues of two bodies are found apart.            *)
Bad == {<<"BAD", "task">>}
Faults == {{}, Bad}
OneFaulty == {<<{}, {}>>, <<Bad, {}>>, <<{}, Bad>>}

OwnAndLibrary ==
  {<<[Pool("m", 1, m) EXCEPT !.name = n], Pool("b", 1, o),
     Bundled("a", 1, a, f[1]), Bundled("c", 2, c, f[2])>> :
     n \in {"m", "a"}, m \in Upto({"a", "b", "c"}), o \in {<<>>, <<"x">>} \cup Upto({"a", "m"}),
     a \in Upto({"a", "c"}), c \in Upto({"a"}), f \in OneFaulty}

ThreeModules ==
  {<<Pool("m", 1, m), Bundled("a", 1, a, {}), Bundled("b", 1, o, f[1]), Bundled("c", 2, c, f[2])>> :
     m \in Upto({"a", "b"}), a \in Upto({"b", "c"}), o \in Upto({"a", "c"}),
     c \in Upto({"a", "b"}), f \in OneFaulty}

(* Pools of one file: ignored, without a start event, not executable, and    *)
(* two with one id.                                                          *)
Collaborations ==
  {<<[Pool("m", 1, m) EXCEPT !.executable = e],
     [Pool("a", 1, a) EXCEPT !.executable = f, !.ignored = i, !.started = s],
     [Pool(x, 1, <<>>) EXCEPT !.executable = g]>> :
     m \in Upto({"a", "b"}), a \in Upto({"m", "b"}), x \in {"a", "b"},
     e \in BOOLEAN, f \in BOOLEAN, g \in BOOLEAN, i \in BOOLEAN, s \in BOOLEAN}

(* The author's only pool is ignored, so that a module it calls may run.      *)
IgnoredAuthor ==
  {<<[Pool("m", 1, m) EXCEPT !.ignored = TRUE], Bundled("a", 1, a, {}), Bundled("c", 2, c, g)>> :
     m \in Upto({"a", "c"}), a \in Upto({"a", "c"}), c \in Upto({"a", "c"}), g \in Faults}

AllBundles == <<OwnAndLibrary, ThreeModules, Collaborations, IgnoredAuthor>>

(* Five nodes.  The process starts at 1, and a cycle the start does not lead *)
(* to has no back edge.                                                      *)
Flowing ==
  {<<a, b, c, d, e>> :
     a \in {<<2, 3>>, <<3, 2>>, <<2>>}, b \in {<<4>>, <<4, 5>>, <<5, 4>>, <<1, 5>>},
     c \in {<<4>>, <<5, 4>>, <<2, 4>>, <<4, 2>>}, d \in {<<5>>, <<3, 5>>, <<5, 3>>, <<2>>},
     e \in {<<>>, <<3>>}}
FlowOf(out) ==
  [out |-> out, back |-> ClassifyBackEdges(out, <<1>>), ends |-> {n \in {5} : out[n] = <<>>}]
AllFlows == <<{FlowOf(out) : out \in Flowing}>>

(* The compiler and the checks ask for joins through the operators of        *)
(* FlowGraph.  Of every graph of the family NewJoins and FindJoin there give *)
(* what JoinIsPostDominator says of the steps.                               *)
Kinded(g) == g @@ [kind |-> [n \in DOMAIN g.out |-> IF n \in g.ends THEN "end" ELSE "task"]]
IsJoin(g, n, m) ==
  OnEveryPath(g, n) = IF m = Nowhere THEN {} ELSE {m} \cup OnEveryPath(g, m)

ASSUME CompilerAsksThisIndex ==
  \A g \in AllFlows[1] :
    LET joins == NewJoins(Kinded(g))
    IN \A n \in DOMAIN g.out :
         /\ g.out[n] # <<>> => (n \in joins.cyclic <=> Circles(g, n))
         /\ n \notin joins.cyclic =>
              /\ IsJoin(g, n, joins.ipdom[n])
              /\ FindJoin(Kinded(g), n) = IF Cardinality(Forwards(g, n)) < 2 THEN NoNode ELSE joins.ipdom[n]
              /\ g.out[n] # <<>> => (n \in joins.ends <=> Reaches(g, n) \cap g.ends # {})

-----------------------------------------------------------------------------
NoFlow == [out |-> <<>>, back |-> {}, ends |-> {}]
IndexAtRest == IndexOf(NoFlow, Nowhere)
CompilerAtRest == document = <<>> /\ issues = {} /\ plan = NoPlan /\ stage = "read"
BundleAtRest == StartsWith(<<>>)
JoinAtRest == files = <<>> /\ joined = NoFile /\ joining = "read"
BindingAtRest ==
  text = <<>> /\ faults = {} /\ ran = {} /\ contract = NoContract /\ asked = "nothing"

DiffAtRest == pair = [base |-> NoVersion, target |-> NoVersion] /\ resolved = <<>> /\ judged = "nothing"
NamingAtRest == letter = <<>> /\ said = {} /\ waits = <<>> /\ naming = "read"

Starts(name, init, atRest) == IF part = name THEN init ELSE atRest

Init ==
  /\ part \in {"library", "compiler", "index", "diff", "messages", "bundle", "join", "binding"}
  /\ CatalogInit
  /\ Starts("compiler", CompilerInit, CompilerAtRest)
  /\ Starts("index", IndexInit, IndexAtRest)
  /\ Starts("diff", DiffInit, DiffAtRest)
  /\ Starts("messages", NamingInit, NamingAtRest)
  /\ Starts("bundle", BundleInit, BundleAtRest)
  /\ Starts("join", JoinInit, JoinAtRest)
  /\ Starts("binding", BindingInit, BindingAtRest)

Next ==
  \/ /\ part = "library" /\ CatalogNext
     /\ UNCHANGED <<compilerVars, indexVars, diffVars, namingVars, bundleVars, joinVars, bindingVars, part>>
  \/ /\ part = "compiler" /\ CompilerNext
     /\ UNCHANGED <<catalogVars, indexVars, diffVars, namingVars, bundleVars, joinVars, bindingVars, part>>
  \/ /\ part = "index" /\ IndexNext
     /\ UNCHANGED <<catalogVars, compilerVars, diffVars, namingVars, bundleVars, joinVars, bindingVars, part>>
  \/ /\ part = "diff" /\ DiffNext
     /\ UNCHANGED <<catalogVars, compilerVars, indexVars, namingVars, bundleVars, joinVars, bindingVars, part>>
  \/ /\ part = "messages" /\ NamingNext
     /\ UNCHANGED <<catalogVars, compilerVars, indexVars, diffVars, bundleVars, joinVars, bindingVars, part>>
  \/ /\ part = "bundle" /\ BundleNext
     /\ UNCHANGED <<catalogVars, compilerVars, indexVars, diffVars, namingVars, joinVars, bindingVars, part>>
  \/ /\ part = "join" /\ Join
     /\ UNCHANGED <<catalogVars, compilerVars, indexVars, diffVars, namingVars, bundleVars, bindingVars, part>>
  \/ /\ part = "binding" /\ BindingNext
     /\ UNCHANGED <<catalogVars, compilerVars, indexVars, diffVars, namingVars, bundleVars, joinVars, part>>

Spec == Init /\ [][Next]_vars
=============================================================================
