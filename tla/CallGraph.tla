------------------------------ MODULE CallGraph ------------------------------
(* A document of several processes, most of them modules the library bundled *)
(* into it: which one runs, the checks of the calls between them             *)
(* (validator/call_graph.go), and the order the called ones are compiled in. *)
(*                                                                           *)
(* A process is a record: id, name, tasks (how many user tasks it has),      *)
(* calls (a sequence of <<call, id of the called process>>), started (it has *)
(* a start event), executable, ignored, library (it was bundled) and issues  *)
(* (what the rules say of its own body).                                     *)
(*                                                                           *)
(* The code walks the calls four times: visit, the queue of bodies, routes,  *)
(* and the compilation.  A step is one turn of the loop of a walk, one call  *)
(* of its function or one return from it, and stack holds the calls of the   *)
(* function that have not returned, each with its local variables.           *)
EXTENDS Naturals, Sequences, FiniteSets, FiniteSetsExt, SequencesExt

CONSTANTS
  Bundles,      \* the documents, a sequence of families of sequences of processes
  TaskLimit     \* tasks a workflow may have, calls expanded

Fields ==
  {"id", "name", "tasks", "calls", "started", "executable", "ignored", "library", "issues"}

(* What the parser gives, and bundleModules: a bundled process has the name  *)
(* of its plan for an id, which no other process of the document has.        *)
IsBundle(b) ==
  /\ b \in Seq({b[i] : i \in DOMAIN b})
  /\ \A i \in DOMAIN b :
       /\ Fields \subseteq DOMAIN b[i] /\ b[i].tasks \in Nat
       /\ b[i].calls \in Seq({b[i].calls[k] : k \in DOMAIN b[i].calls})
       /\ \A f \in {"started", "executable", "ignored", "library"} : b[i][f] \in BOOLEAN
  /\ \A i, j \in DOMAIN b : b[i].library /\ b[i].id = b[j].id => i = j

ASSUME BundlesAreBundles ==
  /\ TaskLimit \in Nat
  /\ \A family \in DOMAIN Bundles : \A b \in Bundles[family] : IsBundle(b)

VARIABLES
  bundle,       \* the document
  pass,         \* which of the walks is under way, or what came of them
  stack,        \* the calls of the walk's function that have not returned
  graph,        \* what ValidateCallGraph keeps in its maps
  bodies,       \* what ValidateCalledBodies keeps: its queue, order and callers
  routes,       \* the body whose issues attributed reports next, and its memo
  verdict,      \* the process that runs and the issues so far
  plans         \* the plans claimed and put, and calls bound before a put
bundleVars == <<bundle, pass, stack, graph, bodies, routes, verdict, plans>>

Ids(b) == {b[i].id : i \in DOMAIN b}
ProcessOf(b, id) == b[Min({i \in DOMAIN b : b[i].id = id})]
IsCall(b, c) == c[2] \in Ids(b)
Library(b, id) == ProcessOf(b, id).library

Here == Last(stack)
OnStack == {stack[i].id : i \in DOMAIN stack}
GoOnAs(frame) == [stack EXCEPT ![Len(stack)] = frame]

-----------------------------------------------------------------------------
(* ValidateCallGraph: one walk finds the cycles and what every process       *)
(* expands to, a call counting once for itself.                              *)
Unwalked(b) ==
  [done |-> {}, size |-> [id \in Ids(b) |-> 0], called |-> {}, calls |-> {}, cycles |-> {}]

AtMost(n) == IF n > TaskLimit THEN TaskLimit + 1 ELSE n
SizeWith(size, called) == AtMost(size + called)
SizeWithCall(size, called) == AtMost(size + 1 + called)

Visiting(p) == [id |-> p.id, at |-> 1, size |-> p.tasks]
Unvisited == {i \in DOMAIN bundle : bundle[i].id \notin graph.done}
Counted(b, id, c) == ~ProcessOf(b, id).ignored /\ IsCall(b, c)
Marked(id, c) == [graph EXCEPT !.called = @ \cup {c[2]}, !.calls = @ \cup {id}]

VisitNext ==
  /\ pass = "graph" /\ stack = <<>> /\ Unvisited # {}
  /\ stack' = <<Visiting(bundle[Min(Unvisited)])>>
  /\ UNCHANGED <<bundle, pass, graph, bodies, routes, verdict, plans>>

(* The call the innermost process on the stack stands before, and its end.   *)
CallsHere == ProcessOf(bundle, Here.id).calls
CallHere == CallsHere[Here.at]
AtCall == stack # <<>> /\ Here.at \in DOMAIN CallsHere
AtEnd == stack # <<>> /\ Here.at \notin DOMAIN CallsHere

SkipCall ==
  /\ pass = "graph" /\ AtCall /\ ~Counted(bundle, Here.id, CallHere)
  /\ stack' = GoOnAs([Here EXCEPT !.at = @ + 1])
  /\ UNCHANGED <<bundle, pass, graph, bodies, routes, verdict, plans>>

VisitCalled ==
  /\ pass = "graph" /\ AtCall /\ Counted(bundle, Here.id, CallHere)
  /\ CallHere[2] \notin graph.done \cup OnStack
  /\ graph' = Marked(Here.id, CallHere)
  /\ stack' = Append(stack, Visiting(ProcessOf(bundle, CallHere[2])))
  /\ UNCHANGED <<bundle, pass, bodies, routes, verdict, plans>>

(* A process on the chain has no size yet: it counts 0, and closes a cycle.  *)
CountCall ==
  /\ pass = "graph" /\ AtCall /\ Counted(bundle, Here.id, CallHere)
  /\ CallHere[2] \in graph.done \cup OnStack
  /\ graph' = [Marked(Here.id, CallHere) EXCEPT
                 !.cycles = IF CallHere[2] \in OnStack THEN @ \cup {CallHere[1]} ELSE @]
  /\ stack' = GoOnAs([id |-> Here.id, at |-> Here.at + 1,
                      size |-> SizeWithCall(Here.size, graph.size[CallHere[2]])])
  /\ UNCHANGED <<bundle, pass, bodies, routes, verdict, plans>>

EndVisit ==
  /\ pass = "graph" /\ AtEnd
  /\ graph' = [graph EXCEPT !.done = @ \cup {Here.id}, !.size[Here.id] = Here.size]
  /\ stack' = Front(stack)
  /\ UNCHANGED <<bundle, pass, bodies, routes, verdict, plans>>

DuplicateIds(b) == {b[i].id : i \in {j \in DOMAIN b : \E k \in 1..(j - 1) : b[k].id = b[j].id}}

(* A plan has the name of the main process, or the id of a called one.       *)
NameClash(b, g) ==
  {p.id : p \in {q \in ToSet(b) : /\ q.id \notin g.called
                                  /\ q.name \notin {"", q.id} /\ q.name \in Ids(b)}}

TooLarge(g) == {id \in g.calls \ g.called : g.size[id] > TaskLimit}

CallGraphIssues(b, g) ==
  {<<"DUPLICATE_PROCESS_ID", x>> : x \in DuplicateIds(b) \cup NameClash(b, g)}
    \cup {<<"CALLED_ELEMENT_CYCLE", x>> : x \in g.cycles}
    \cup {<<"TASK_LIMIT_EXCEEDED", x>> : x \in TooLarge(g)}

(* executableProcesses: the pools that run, each by its place in the         *)
(* document; a call of an ignored pool does not count.                       *)
Runnable(b) ==
  LET called == UNION {{c[2] : c \in ToSet(p.calls)} : p \in {q \in ToSet(b) : ~q.ignored}}
  IN IF Len(b) = 1 THEN {i \in DOMAIN b : ~b[i].ignored}
     ELSE {i \in DOMAIN b : b[i].executable /\ ~b[i].ignored /\ b[i].id \notin called}

(* ValidateCallActivity: what a call may name.                               *)
CallIssues(b, p) ==
  {<<"UNRESOLVED_CALLED_ELEMENT", c[1]>> :
     c \in {d \in ToSet(p.calls) : ~IsCall(b, d) \/ ProcessOf(b, d[2]).ignored}}
  \cup {<<"NO_START_EVENT", c[1]>> :
     c \in {d \in ToSet(p.calls) : IsCall(b, d) /\ ~ProcessOf(b, d[2]).ignored
                                     /\ ~ProcessOf(b, d[2]).started}}
OwnIssues(b, p) == p.issues \cup CallIssues(b, p)

(* A document without one process to run is refused with the call graph's    *)
(* issues alone; any other has its bodies walked, from the one that runs.    *)
RefuseBundle ==
  /\ pass = "graph" /\ stack = <<>> /\ Unvisited = {}
  /\ Cardinality(Runnable(bundle)) # 1
  /\ verdict' = [verdict EXCEPT
                   !.issues = CallGraphIssues(bundle, graph) \cup {<<"NO_SINGLE_ROOT", "">>}]
  /\ pass' = "validated"
  /\ UNCHANGED <<bundle, stack, graph, bodies, routes, plans>>

ChooseRoot ==
  /\ pass = "graph" /\ stack = <<>> /\ Unvisited = {}
  /\ Cardinality(Runnable(bundle)) = 1
  /\ \E r \in Runnable(bundle) :
       /\ verdict' =
            [root |-> r, inside |-> {},
             issues |-> CallGraphIssues(bundle, graph) \cup OwnIssues(bundle, bundle[r])]
       /\ bodies' = [queue |-> <<bundle[r].id>>, at |-> 1, order |-> <<>>,
                     callers |-> [id \in Ids(bundle) |-> <<>>]]
  /\ pass' = "bodies"
  /\ UNCHANGED <<bundle, stack, graph, routes, plans>>

-----------------------------------------------------------------------------
(* ValidateCalledBodies: every body the root reaches is checked once, and    *)
(* each of its callers noted.  The root may be the second of its id.         *)
RootId == bundle[verdict.root].id
Walked(id) == IF id = RootId THEN bundle[verdict.root] ELSE ProcessOf(bundle, id)
Followed(c) == IsCall(bundle, c) /\ ProcessOf(bundle, c[2]).started

NotQueued(queue, id) == queue
Queued(queue, id) == Append(queue, id)

AtBodyCall == bodies.queue # <<>> /\ bodies.at \in DOMAIN Walked(Head(bodies.queue)).calls
BodyCall == Walked(Head(bodies.queue)).calls[bodies.at]
VisitedBodies == {RootId} \cup ToSet(bodies.order)
NoteCaller(queue, order) ==
  [queue |-> queue, order |-> order, at |-> bodies.at + 1,
   callers |-> [bodies.callers EXCEPT
                  ![BodyCall[2]] = Append(@, <<Head(bodies.queue), BodyCall[1]>>)]]

PassBodyCall ==
  /\ pass = "bodies" /\ AtBodyCall /\ ~Followed(BodyCall)
  /\ bodies' = [bodies EXCEPT !.at = @ + 1]
  /\ UNCHANGED <<bundle, pass, stack, graph, routes, verdict, plans>>

NoteBodyCall ==
  /\ pass = "bodies" /\ AtBodyCall /\ Followed(BodyCall) /\ BodyCall[2] \in VisitedBodies
  /\ bodies' = NoteCaller(bodies.queue, bodies.order)
  /\ UNCHANGED <<bundle, pass, stack, graph, routes, verdict, plans>>

QueueBody ==
  /\ pass = "bodies" /\ AtBodyCall /\ Followed(BodyCall) /\ BodyCall[2] \notin VisitedBodies
  /\ bodies' = NoteCaller(Queued(bodies.queue, BodyCall[2]), Append(bodies.order, BodyCall[2]))
  /\ UNCHANGED <<bundle, pass, stack, graph, routes, verdict, plans>>

NextBody ==
  /\ pass = "bodies" /\ bodies.queue # <<>> /\ ~AtBodyCall
  /\ bodies' = [queue |-> Tail(bodies.queue), at |-> 1,
                order |-> bodies.order, callers |-> bodies.callers]
  /\ UNCHANGED <<bundle, pass, stack, graph, routes, verdict, plans>>

EndBodies ==
  /\ pass = "bodies" /\ bodies.queue = <<>>
  /\ pass' = "routes"
  /\ UNCHANGED <<bundle, stack, graph, bodies, routes, verdict, plans>>

-----------------------------------------------------------------------------
(* attributed: the issues of a body of the author's are its own, those of a  *)
(* bundled one are anchored on the calls of the author's processes that lead *)
(* to it (routes).  What a cycle cut short is not remembered.                *)
Seek(id) == [id |-> id, at |-> 1, found |-> {}, complete |-> TRUE]
RememberAlways(memo, frame) == memo \cup {<<frame.id, frame.found>>}
Remember(memo, frame) == IF frame.complete THEN memo \cup {<<frame.id, frame.found>>} ELSE memo
KnownBody(id) == \E m \in routes.memo : m[1] = id
KnownRoutes(id) == UNION {m[2] : m \in {n \in routes.memo : n[1] = id}}

Turn == bodies.order[routes.turn]
AtTurn == stack = <<>> /\ routes.turn \in DOMAIN bodies.order
Attributed(id, found) ==
  {<<e[1], call, id>> : e \in OwnIssues(bundle, ProcessOf(bundle, id)), call \in found}

AttributeOwn ==
  /\ pass = "routes" /\ AtTurn /\ ~Library(bundle, Turn)
  /\ verdict' = [verdict EXCEPT !.issues = @ \cup OwnIssues(bundle, ProcessOf(bundle, Turn))]
  /\ routes' = [routes EXCEPT !.turn = @ + 1]
  /\ UNCHANGED <<bundle, pass, stack, graph, bodies, plans>>

AttributeKnown ==
  /\ pass = "routes" /\ AtTurn /\ Library(bundle, Turn) /\ KnownBody(Turn)
  /\ verdict' = [verdict EXCEPT !.inside = @ \cup Attributed(Turn, KnownRoutes(Turn))]
  /\ routes' = [routes EXCEPT !.turn = @ + 1]
  /\ UNCHANGED <<bundle, pass, stack, graph, bodies, plans>>

SeekRoutes ==
  /\ pass = "routes" /\ AtTurn /\ Library(bundle, Turn) /\ ~KnownBody(Turn)
  /\ stack' = <<Seek(Turn)>>
  /\ UNCHANGED <<bundle, pass, graph, bodies, routes, verdict, plans>>

(* The caller the innermost search stands before: <<process, call>>.         *)
AtCaller == stack # <<>> /\ Here.at \in DOMAIN bodies.callers[Here.id]
Caller == bodies.callers[Here.id][Here.at]

AddRoutes(found, complete) ==
  stack' = GoOnAs([id |-> Here.id, at |-> Here.at + 1, found |-> Here.found \cup found,
                   complete |-> Here.complete /\ complete])

AuthorCalls ==
  /\ pass = "routes" /\ AtCaller /\ ~Library(bundle, Caller[1])
  /\ AddRoutes({Caller[2]}, TRUE)
  /\ UNCHANGED <<bundle, pass, graph, bodies, routes, verdict, plans>>

KnownCalls ==
  /\ pass = "routes" /\ AtCaller /\ Library(bundle, Caller[1]) /\ KnownBody(Caller[1])
  /\ AddRoutes(KnownRoutes(Caller[1]), TRUE)
  /\ UNCHANGED <<bundle, pass, graph, bodies, routes, verdict, plans>>

CutCycle ==
  /\ pass = "routes" /\ AtCaller /\ Library(bundle, Caller[1]) /\ ~KnownBody(Caller[1])
  /\ Caller[1] \in OnStack
  /\ AddRoutes({}, FALSE)
  /\ UNCHANGED <<bundle, pass, graph, bodies, routes, verdict, plans>>

SeekCaller ==
  /\ pass = "routes" /\ AtCaller /\ Library(bundle, Caller[1]) /\ ~KnownBody(Caller[1])
  /\ Caller[1] \notin OnStack
  /\ stack' = Append(stack, Seek(Caller[1]))
  /\ UNCHANGED <<bundle, pass, graph, bodies, routes, verdict, plans>>

(* A search returns to the one that asked, or to attributed.                 *)
ReturnRoutes ==
  /\ pass = "routes" /\ Len(stack) > 1 /\ ~AtCaller
  /\ LET below == Front(stack)
         asked == Last(below)
     IN stack' = [below EXCEPT ![Len(below)] =
                    [id |-> asked.id, at |-> asked.at + 1, found |-> asked.found \cup Here.found,
                     complete |-> asked.complete /\ Here.complete]]
  /\ routes' = [routes EXCEPT !.memo = Remember(@, Here)]
  /\ UNCHANGED <<bundle, pass, graph, bodies, verdict, plans>>

AttributeFound ==
  /\ pass = "routes" /\ Len(stack) = 1 /\ ~AtCaller
  /\ stack' = <<>>
  /\ routes' = [turn |-> routes.turn + 1, memo |-> Remember(routes.memo, Here)]
  /\ verdict' = [verdict EXCEPT !.inside = @ \cup Attributed(Here.id, Here.found)]
  /\ UNCHANGED <<bundle, pass, graph, bodies, plans>>

EndRoutes ==
  /\ pass = "routes" /\ stack = <<>> /\ ~AtTurn
  /\ pass' = "validated"
  /\ UNCHANGED <<bundle, stack, graph, bodies, routes, verdict, plans>>

-----------------------------------------------------------------------------
(* The called processes are compiled when a call first names them: Claim,    *)
(* the calls of the body, Put.  A call binds its departments against the     *)
(* plan that was put; early holds the calls that found none.  A call that    *)
(* names no process ends the compilation with an error.                      *)
Accepted == verdict.issues = {} /\ verdict.inside = {}
Compiling(id) == [id |-> id, at |-> 1]

BeginCompile ==
  /\ pass = "validated" /\ Accepted
  /\ pass' = "compile" /\ stack' = <<Compiling(RootId)>>
  /\ plans' = [plans EXCEPT !.main = IF bundle[verdict.root].name = "" THEN RootId
                                     ELSE bundle[verdict.root].name]
  /\ UNCHANGED <<bundle, graph, bodies, routes, verdict>>

Claim ==
  /\ pass = "compile" /\ AtCall /\ IsCall(bundle, CallHere) /\ CallHere[2] \notin plans.claimed
  /\ plans' = [plans EXCEPT !.claimed = @ \cup {CallHere[2]}]
  /\ stack' = Append(stack, Compiling(CallHere[2]))
  /\ UNCHANGED <<bundle, pass, graph, bodies, routes, verdict>>

BindCall ==
  /\ pass = "compile" /\ AtCall /\ CallHere[2] \in plans.claimed
  /\ plans' = [plans EXCEPT !.early = IF CallHere[2] \in ToSet(plans.put) THEN @ ELSE @ \cup {CallHere[1]}]
  /\ stack' = GoOnAs([Here EXCEPT !.at = @ + 1])
  /\ UNCHANGED <<bundle, pass, graph, bodies, routes, verdict>>

PutPlan ==
  /\ pass = "compile" /\ AtEnd /\ Len(stack) > 1
  /\ plans' = [plans EXCEPT !.put = Append(@, Here.id)]
  /\ stack' = Front(stack)
  /\ UNCHANGED <<bundle, pass, graph, bodies, routes, verdict>>

EndCompile ==
  /\ pass = "compile" /\ AtEnd /\ Len(stack) = 1
  /\ pass' = "compiled" /\ stack' = <<>>
  /\ UNCHANGED <<bundle, graph, bodies, routes, verdict, plans>>

-----------------------------------------------------------------------------
NoBodies == [queue |-> <<>>, at |-> 1, order |-> <<>>, callers |-> <<>>]
NoRoutes == [turn |-> 1, memo |-> {}]
Unread == [root |-> 0, issues |-> {}, inside |-> {}]
NoPlans == [main |-> "", claimed |-> {}, put |-> <<>>, early |-> {}]

(* What edges lead to from a set: the least set with it that they stay in.   *)
Leading(b, edges, from) ==
  {id \in Ids(b) :
     \A S \in SUBSET Ids(b) :
       from \subseteq S /\ (\A e \in edges : e[1] \in S => e[2] \in S) => id \in S}

(* bundleModules brings a module into a document because a call of the       *)
(* author's processes leads to it.                                           *)
CallEdges(b) ==
  UNION {{<<p.id, c[2]>> : c \in {d \in ToSet(p.calls) : IsCall(b, d)}} : p \in ToSet(b)}

EveryModuleIsLedTo(b) ==
  {p.id : p \in {q \in ToSet(b) : q.library}}
    \subseteq Leading(b, CallEdges(b), {p.id : p \in {q \in ToSet(b) : ~q.library}})

StartsWith(b) ==
  /\ bundle = b /\ graph = Unwalked(b) /\ bodies = NoBodies /\ routes = NoRoutes
  /\ verdict = Unread /\ plans = NoPlans /\ pass = "graph" /\ stack = <<>>

BundleInit ==
  \E family \in DOMAIN Bundles : \E b \in Bundles[family] : EveryModuleIsLedTo(b) /\ StartsWith(b)

GraphStep == VisitNext \/ SkipCall \/ VisitCalled \/ CountCall \/ EndVisit \/ RefuseBundle \/ ChooseRoot
BodiesStep == PassBodyCall \/ NoteBodyCall \/ QueueBody \/ NextBody \/ EndBodies
RoutesStep ==
  \/ AttributeOwn \/ AttributeKnown \/ SeekRoutes \/ AuthorCalls \/ KnownCalls \/ CutCycle
  \/ SeekCaller \/ ReturnRoutes \/ AttributeFound \/ EndRoutes
CompileStep == BeginCompile \/ Claim \/ BindCall \/ PutPlan \/ EndCompile

BundleNext == GraphStep \/ BodiesStep \/ RoutesStep \/ CompileStep

BundleSpec == BundleInit /\ [][BundleNext]_bundleVars

-----------------------------------------------------------------------------
(* What the checks of a bundle promise.                                      *)

(* The ways a process leads along its calls, each the calls made one in the  *)
(* other, and what expanding them gives: the tasks of the process itself,    *)
(* and for every way the call and the tasks it brings in.                    *)
Sites(b) ==
  UNION {{<<id, k>> : k \in {j \in DOMAIN ProcessOf(b, id).calls :
                                Counted(b, id, ProcessOf(b, id).calls[j])}} : id \in Ids(b)}
TargetOf(b, site) == ProcessOf(b, site[1]).calls[site[2]][2]
Ways(b, id) ==
  {w \in UNION {[1..n -> Sites(b)] : n \in 1..Cardinality(Ids(b))} :
     w[1][1] = id /\ \A j \in 1..(Len(w) - 1) : TargetOf(b, w[j]) = w[j + 1][1]}
Expansion(b, id) ==
  {<<<<>>, n>> : n \in 1..ProcessOf(b, id).tasks}
    \cup UNION {{<<w, n>> : n \in 0..ProcessOf(b, TargetOf(b, w[Len(w)])).tasks} : w \in Ways(b, id)}

(* The root of a document without issues has, with its calls expanded, no    *)
(* more tasks than a workflow may have: a module called on many ways is      *)
(* visited once and counted on each (ValidateCallGraph).                     *)
AcceptedFitsTheLimit ==
  pass = "validated" /\ Accepted /\ bundle[verdict.root].calls # <<>> =>
    Cardinality(Expansion(bundle, RootId)) =< TaskLimit

(* What runs: the bodies the root's calls lead to.                           *)
BodyCalls(id) == {c \in ToSet(Walked(id).calls) : Followed(c)}
BodyEdges == UNION {{<<id, c[2]>> : c \in BodyCalls(id)} : id \in Ids(bundle)}
RunningBodies == Leading(bundle, BodyEdges, {RootId})

(* The issues of a bundled body are reported on every call of the author's   *)
(* processes that leads to it, and on no other, though modules call each     *)
(* other in a circle (bodyWalk.routes).                                      *)
IssuesReachTheirCalls ==
  pass = "validated" /\ verdict.root # 0 =>
    LET running == RunningBodies
        author == {id \in running : ~Library(bundle, id)}
        inside == {e \in BodyEdges : e[1] \in running \ author}
        CallsTo(id) ==
          {c[1] : c \in {d \in UNION {BodyCalls(p) : p \in author} :
                           id \in Leading(bundle, inside, {d[2]})}}
    IN \A id \in running \ (author \cup {RootId}) :
         \A e \in OwnIssues(bundle, ProcessOf(bundle, id)) :
           {i[2] : i \in {j \in verdict.inside : j[1] = e[1] /\ j[3] = id}} = CallsTo(id)

(* Every process that is compiled was checked, once, before a call binds its *)
(* departments against the plan, and no two plans have one name              *)
(* (compileCalledPlan, bindDepartments).  A document whose only pool that    *)
(* runs is a bundled module has no calls to report its issues on.            *)
CompiledWereChecked ==
  pass = "compiled" /\ ~Library(bundle, RootId) =>
    /\ plans.early = {}
    /\ IsInjective(plans.put) /\ plans.main \notin ToSet(plans.put)
    /\ ToSet(plans.put) = Leading(bundle, CallEdges(bundle), {RootId}) \ {RootId}
    /\ \A id \in ToSet(plans.put) : OwnIssues(bundle, ProcessOf(bundle, id)) = {}
=============================================================================
