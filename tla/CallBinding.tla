----------------------------- MODULE CallBinding -----------------------------
(* What a call binds: the departments its module's tasks run in and the      *)
(* users they are assigned to, checked at the call (validator/call_activity, *)
(* validator/user_task), compiled into the call's step                       *)
(* (element/call_activity), and told to authors as the module's contract     *)
(* (service/module_contract).                                                *)
(*                                                                           *)
(* A text is a document without branches: a function from process ids to     *)
(* processes.  A process is [slot, lanes, work]: slot names its department   *)
(* when it has no lanes; a lane is [name, dept, ignored]; work lists its     *)
(* elements in flow order, each [id, kind, lane, user, calls, depts, users]  *)
(* with lane the number of its lane, 0 for none.  depts maps lane names of   *)
(* the called process to lane names of the caller, users maps the path of a  *)
(* task, the calls to it and its id, to a user.                              *)
(*                                                                           *)
(* The operators are recursive: only TLC reads this module.                  *)
EXTENDS Naturals, Sequences, FiniteSets, FiniteSetsExt, SequencesExt, TLC

CONSTANTS
  Texts,        \* sequence of families of texts
  Main,         \* the id of the workflow's process
  Callee,       \* the id of the module whose contract is read
  Fold(_)       \* a lane name without its case

VARIABLES text, faults, ran, contract, asked
bindingVars == <<text, faults, ran, contract, asked>>

Nobody == ""
NoDept == ""

-----------------------------------------------------------------------------
(* Lanes (bpmncore/call.go). *)
LanesNamed(p, name) == {i \in DOMAIN p.lanes : Fold(p.lanes[i].name) = Fold(name)}
WorkLanes(p) ==
  {i \in DOMAIN p.lanes : ~p.lanes[i].ignored /\ \E k \in DOMAIN p.work : p.work[k].lane = i}
OpenSlots(p) ==
  IF p.lanes = <<>> THEN {p.slot}
  ELSE {p.lanes[i].name : i \in {w \in WorkLanes(p) : p.lanes[w].dept = NoDept}}

InLane(p, e) == e.lane # 0
LaneOfWork(p, e) == p.lanes[e.lane]
Skipped(p, e) == InLane(p, e) /\ LaneOfWork(p, e).ignored /\ e.kind # "call"
CallsOf(p) == {e \in ToSet(p.work) : e.kind = "call"}

(* markCalledProcesses: a process that some call names is a module.          *)
Callees(t) == UNION {{e.calls : e \in CallsOf(t[id])} : id \in DOMAIN t}

RECURSIVE CalledBy(_, _)
CalledBy(t, id) == {id} \cup UNION {CalledBy(t, e.calls) : e \in CallsOf(t[id])}

-----------------------------------------------------------------------------
(* The checks of a call.  p makes it, q is called.                           *)
Fault(code, e) == {<<code, e.id>>}
If(condition, found) == IF condition THEN found ELSE {}

WorkLaneNamed(q, key) == LanesNamed(q, key) \cap WorkLanes(q)
OpenWorkLane(q, key) == {i \in WorkLaneNamed(q, key) : q.lanes[i].dept = NoDept}
Mapped(q, e) == {q.lanes[i].name : i \in UNION {OpenWorkLane(q, key) : key \in DOMAIN e.depts}}

BadKey(q, e, key) ==
  \/ OpenWorkLane(q, key) = {}
  \/ \E other \in DOMAIN e.depts \ {key} : Fold(other) = Fold(key)
BadTarget(p, name) ==
  LanesNamed(p, name) = {} \/ \E i \in LanesNamed(p, name) : p.lanes[i].ignored

DepartmentFaults(p, q, e) ==
  If(\E key \in DOMAIN e.depts : BadKey(q, e, key) \/ BadTarget(p, e.depts[key]),
     Fault("INVALID_ZEEBE_PROPERTY", e))
  \cup If(Cardinality(OpenSlots(q)) >= 2 /\ ~ (OpenSlots(q) \subseteq Mapped(q, e)),
          Fault("MISSING_DEPT_INPUT_FOR_MODULE", e))

(* Of a workflow's own call: what it binds to has a department.              *)
BoundLaneFaults(p, q, e) ==
  LET open == OpenSlots(q)
      mapped == {q.lanes[i].name : i \in UNION {WorkLaneNamed(q, key) : key \in DOMAIN e.depts}}
  IN If(\E key \in DOMAIN e.depts : \E i \in LanesNamed(p, e.depts[key]) : p.lanes[i].dept = NoDept,
        Fault("MISSING_DEPT_ID", e))
     \cup If(/\ Cardinality(open) = 1 /\ open \cap mapped = {}
             /\ InLane(p, e) /\ LaneOfWork(p, e).dept = NoDept,
             Fault("MISSING_DEPT_ID", e))

(* unassignable: the path names calls of the modules on it, then a task.     *)
OwnTask(t, id, path) == \E e \in ToSet(t[id].work) : e.kind = "task" /\ <<e.id>> = path

RECURSIVE Assignable(_, _, _)
Assignable(t, id, path) ==
  IF Len(path) = 1 THEN OwnTask(t, id, path)
  ELSE \E e \in CallsOf(t[id]) : e.id = Head(path) /\ Assignable(t, e.calls, Tail(path))

AssigneeFaults(t, e) ==
  If(\E path \in DOMAIN e.users : ~Assignable(t, e.calls, path), Fault("INVALID_ZEEBE_PROPERTY", e))

(* The rules of a process about its lanes and what is in them.               *)
LaneFaults(p, module) ==
  If(\E i, k \in DOMAIN p.lanes : i # k /\ Fold(p.lanes[i].name) = Fold(p.lanes[k].name),
     {<<"INVALID_LANE_NAME", "">>})
  \cup UNION {If(~InLane(p, e), Fault("TASK_NOT_IN_LANE", e)) :
              e \in {x \in ToSet(p.work) : \E y \in ToSet(p.work) : InLane(p, y)}}
  \cup UNION {If(InLane(p, e) /\ LaneOfWork(p, e).ignored, Fault("IGNORED_LANE_WORK", e)) :
              e \in CallsOf(p)}
  \cup UNION {If(/\ InLane(p, e) /\ ~Skipped(p, e) /\ e.kind # "call"
                 /\ LaneOfWork(p, e).dept = NoDept /\ ~module,
                 Fault("MISSING_DEPT_ID", e)) : e \in ToSet(p.work)}

ProcessFaults(t, modules, id) ==
  LET p == t[id]
  IN LaneFaults(p, id \in modules)
     \cup UNION {DepartmentFaults(p, t[e.calls], e) \cup AssigneeFaults(t, e) : e \in CallsOf(p)}
     \cup UNION {If(id \notin modules, BoundLaneFaults(p, t[e.calls], e)) : e \in CallsOf(p)}

(* Validate of the workflow, and ValidateModule of a module as the root.     *)
TextFaults(t, root, modules) == UNION {ProcessFaults(t, modules, id) : id \in CalledBy(t, root)}

-----------------------------------------------------------------------------
(* The plan of a process: its departments, each a lane and a segment number, *)
(* and its calls with the departments they bind.                             *)
EmptyPlan == [depts |-> <<>>, count |-> <<>>, open |-> <<>>, calls |-> <<>>]
Segments(s, name) == IF name \in DOMAIN s.count THEN s.count[name] ELSE 0
Department(iam) == [iam |-> iam, stages |-> <<>>]
NoLane(p) == [name |-> IF p.lanes = <<>> THEN p.slot ELSE "", dept |-> NoDept, ignored |-> FALSE]
PlaceOf(p, e) == IF InLane(p, e) THEN LaneOfWork(p, e) ELSE NoLane(p)

NewSegment(s, lane) ==
  LET k == Segments(s, lane.name)
      n == IF k > 0 /\ s.depts[<<lane.name, k>>].stages = <<>> THEN k ELSE k + 1
  IN [s EXCEPT !.count = (lane.name :> n) @@ @, !.open = <<lane.name, n>>,
               !.depts = @ @@ (<<lane.name, n>> :> Department(lane.dept))]

AppendTask(s, e) == [s EXCEPT !.depts[s.open].stages = Append(@, e)]
PlaceTask(s, lane, e) ==
  AppendTask(IF s.open = <<>> \/ s.open[1] # lane.name THEN NewSegment(s, lane) ELSE s, e)

(* NamedLaneDepartment: the first segment of a lane, made when it has none.  *)
NamedLane(s, lane) ==
  IF Segments(s, lane.name) > 0 THEN s
  ELSE [s EXCEPT !.count = (lane.name :> 1) @@ @,
                 !.depts = @ @@ (<<lane.name, 1>> :> Department(lane.dept))]

(* bindDepartments: which lane of the caller plays each lane of the called   *)
(* process; every segment of that lane is bound.                             *)
PlaysLane(p, q, e) ==
  LET given == UNION {{<<q.lanes[i].name, p.lanes[k]>> :
                        i \in LanesNamed(q, key), k \in LanesNamed(p, e.depts[key])} :
                      key \in DOMAIN e.depts}
      byDefault == /\ Cardinality(OpenSlots(q)) = 1
                   /\ \A pair \in given : pair[1] \notin OpenSlots(q)
  IN given \cup If(byDefault, {<<slot, PlaceOf(p, e)>> : slot \in OpenSlots(q)})

FirstSegmentOf(plan, name) == {<<name, 1>>} \cap DOMAIN plan.depts
LaneSegments(plan, name) == {d \in DOMAIN plan.depts : d[1] = name}
Binding(plan, plays) ==
  LET bound == UNION {LaneSegments(plan, pair[1]) : pair \in plays}
  IN [d \in bound |-> <<(CHOOSE pair \in plays : pair[1] = d[1])[2].name, 1>>]

PlaceCall(s, e, plan, plays) ==
  LET q == FoldLeft(LAMBDA acc, pair : NamedLane(acc, pair[2]), s, SetToSeq(plays))
  IN [q EXCEPT !.open = <<>>,
               !.calls = Append(@, [id |-> e.id, plan |-> e.calls, bound |-> Binding(plan, plays),
                                    users |-> e.users])]

(* withOpenSlots: a called plan has a department for every open slot.        *)
WithOpenSlots(plan, p) ==
  [plan EXCEPT !.depts = @ @@ [d \in OpenSlots(p) \X {1} |-> Department(NoDept)]]

RECURSIVE PlanOf(_, _)
PlanOf(t, id) ==
  LET p == t[id]
      Place(s, e) == CASE Skipped(p, e)  -> s
                       [] e.kind = "call" ->
                            PlaceCall(s, e, WithOpenSlots(PlanOf(t, e.calls), t[e.calls]),
                                      PlaysLane(p, t[e.calls], e))
                       [] OTHER -> PlaceTask(s, PlaceOf(p, e), e)
  IN FoldLeft(Place, EmptyPlan, p.work)
CalledPlan(t, id) == WithOpenSlots(PlanOf(t, id), t[id])

-----------------------------------------------------------------------------
(* dsl.ExpandCalls, of the models library: every call brings in its own copy *)
(* of the called plan; a bound department takes the caller's IAM department, *)
(* and the outermost call that names a user for a task decides.              *)
InnermostFirst(outer, path, users) ==
  [k \in {path \o key : key \in DOMAIN users} |-> users[SubSeq(k, Len(path) + 1, Len(k))]] @@ outer
OutermostFirst(outer, path, users) ==
  outer @@ [k \in {path \o key : key \in DOMAIN users} |-> users[SubSeq(k, Len(path) + 1, Len(k))]]

RECURSIVE Expanded(_, _, _, _, _)
Expanded(t, plan, path, iam, named) ==
  LET Task(d, e) == [path |-> Append(path, e.id), kind |-> e.kind, iam |-> iam[d],
                     user |-> IF Append(path, e.id) \in DOMAIN named THEN named[Append(path, e.id)]
                              ELSE e.user]
      Inner(c) ==
        LET called == CalledPlan(t, c.plan)
            here == Append(path, c.id)
        IN Expanded(t, called, here,
                    [d \in DOMAIN called.depts |-> IF d \in DOMAIN c.bound THEN iam[c.bound[d]]
                                                   ELSE called.depts[d].iam],
                    OutermostFirst(named, here, c.users))
  IN UNION {{Task(d, e) : e \in ToSet(plan.depts[d].stages)} : d \in DOMAIN plan.depts}
       \cup UNION {Inner(plan.calls[i]) : i \in DOMAIN plan.calls}

IamOf(plan) == [d \in DOMAIN plan.depts |-> plan.depts[d].iam]
ExpandCalls(t, plan) == Expanded(t, plan, <<>>, IamOf(plan), <<>>)
HumanTasks(tasks) == {e \in tasks : e.kind = "task"}

(* CompileForPublish: every task is placed and assigned.                     *)
LanelessWork(p) == If(p.lanes = <<>>, UNION {Fault("MISSING_DEPT_ID", e) : e \in ToSet(p.work)})
Unplaced1(tasks) == {<<"MISSING_DEPT_ID", e.path>> : e \in {x \in HumanTasks(tasks) : x.iam = NoDept}}
Unassigned(tasks) ==
  {<<"CANDIDATE_USERS_EMPTY", e.path>> : e \in {x \in HumanTasks(tasks) : x.user = Nobody}}

-----------------------------------------------------------------------------
(* ModuleService.Contract: the module's slots and its human tasks, each in   *)
(* the slot found by following the bindings of the calls up to the module.   *)
RECURSIVE ContractTasks(_, _, _, _)
ContractTasks(t, plan, path, place) ==
  LET Inner(c) ==
        LET called == CalledPlan(t, c.plan)
        IN ContractTasks(t, called, Append(path, c.id),
             [d \in DOMAIN called.depts |-> IF d \in DOMAIN c.bound THEN place[c.bound[d]]
                                            ELSE [slot |-> "", iam |-> called.depts[d].iam]])
  IN UNION {{[key |-> Append(path, e.id), place |-> place[d]] :
             e \in {x \in ToSet(plan.depts[d].stages) : x.kind = "task"}} : d \in DOMAIN plan.depts}
       \cup UNION {Inner(plan.calls[i]) : i \in DOMAIN plan.calls}

ContractOf(t, id) ==
  LET plan == CalledPlan(t, id)
      defaults == ExpandCalls(t, plan)
      listed == ContractTasks(t, plan, <<>>, [d \in DOMAIN plan.depts |-> [slot |-> d[1], iam |-> NoDept]])
      DefaultOf(key) == (CHOOSE e \in defaults : e.path = key).user
  IN [slots |-> {[id |-> d[1], iam |-> plan.depts[d].iam] : d \in DOMAIN plan.depts},
      tasks |-> {[key |-> e.key, place |-> e.place, user |-> DefaultOf(e.key)] : e \in listed}]

-----------------------------------------------------------------------------
NoContract == [slots |-> {}, tasks |-> {}]

BindingInit ==
  /\ \E family \in DOMAIN Texts : text \in Texts[family]
  /\ faults = {} /\ ran = {} /\ contract = NoContract /\ asked = "nothing"

(* The module is saved and its contract read; then the workflow that calls   *)
(* it is validated and published.                                            *)
ReadContract ==
  /\ asked = "nothing"
  /\ LET found == TextFaults(text, Callee, Callees(text) \cup {Callee})
     IN IF found # {} THEN faults' = found /\ asked' = "unusable" /\ UNCHANGED contract
        ELSE contract' = ContractOf(text, Callee) /\ asked' = "contract" /\ UNCHANGED faults
  /\ UNCHANGED <<text, ran>>

ValidateWorkflow ==
  /\ asked = "contract"
  /\ faults' = TextFaults(text, Main, Callees(text))
  /\ asked' = IF faults' = {} THEN "validated" ELSE "refused"
  /\ UNCHANGED <<text, ran, contract>>

CompileForPublish ==
  /\ asked = "validated"
  /\ LET tasks == ExpandCalls(text, PlanOf(text, Main))
         found == LanelessWork(text[Main])
     IN /\ faults' = IF found # {} THEN found ELSE Unplaced1(tasks) \cup Unassigned(tasks)
        /\ ran' = tasks
        /\ asked' = IF faults' = {} THEN "published" ELSE "refused"
  /\ UNCHANGED <<text, contract>>

BindingNext == ReadContract \/ ValidateWorkflow \/ CompileForPublish

BindingSpec == BindingInit /\ [][BindingNext]_bindingVars

-----------------------------------------------------------------------------
(* What a call is promised.                                                  *)

(* The lane of the workflow that plays a slot for a call, as an author reads *)
(* it: the one Depts names, or the call's own when the slot is the only one. *)
Plays(e, slot) ==
  LET keys == {key \in DOMAIN e.depts : Fold(key) = Fold(slot.id)}
      p == text[Main]
  IN IF keys = {} THEN PlaceOf(p, e).dept
     ELSE p.lanes[Min(LanesNamed(p, e.depts[CHOOSE key \in keys : TRUE]))].dept

SlotOf(task) == CHOOSE slot \in contract.slots : slot.id = task.place.slot
Owed(e, task) ==
  [path |-> <<e.id>> \o task.key, kind |-> "task",
   iam |-> CASE task.place.slot = ""        -> task.place.iam
             [] SlotOf(task).iam # NoDept   -> SlotOf(task).iam
             [] OTHER                       -> Plays(e, SlotOf(task)),
   user |-> IF task.key \in DOMAIN e.users THEN e.users[task.key] ELSE task.user]

CallsOfModule == {e \in CallsOf(text[Main]) : e.calls = Callee}

(* In a published workflow a call runs exactly the tasks the contract of its *)
(* module lists, each in the department of the lane its slot is bound to and *)
(* for the user the call names, however the lanes and calls of the modules   *)
(* below split them ("slot is the module's own slot the task runs in",       *)
(* docs/lld/definition_service.md:2030).                                     *)
ContractIsKept ==
  asked = "published" =>
    \A e \in CallsOfModule :
      {x \in HumanTasks(ran) : Head(x.path) = e.id} = {Owed(e, task) : task \in contract.tasks}

(* A slot a call may bind: a lane that holds work, or the department of a    *)
(* module without lanes.  A lane that only a call of the module maps to is   *)
(* listed too, and cannot be bound.                                          *)
Bindable(slot) == slot.iam = NoDept => slot.id \in OpenSlots(text[Callee])
OpenOf(slots) == {slot \in slots : slot.iam = NoDept}

(* The call of an author who follows the contract: it maps every open slot   *)
(* to a lane that runs in a department, or leaves the only one to the call's *)
(* own lane (the slot of a module without lanes is always left to it), and   *)
(* names a user for every task that has none.                                *)
FollowsContract(e) ==
  LET p == text[Main]
      open == OpenOf(contract.slots)
      Runs1(i) == ~p.lanes[i].ignored /\ p.lanes[i].dept # NoDept
  IN /\ InLane(p, e) /\ Runs1(e.lane)
     /\ DOMAIN e.depts \subseteq {slot.id : slot \in open}
     /\ text[Callee].lanes = <<>> => e.depts = <<>>
     /\ Cardinality(open) >= 2 => DOMAIN e.depts = {slot.id : slot \in open}
     /\ \A key \in DOMAIN e.depts : \E i \in LanesNamed(p, e.depts[key]) : Runs1(i)
     /\ DOMAIN e.users \subseteq {task.key : task \in contract.tasks}
     /\ \A task \in contract.tasks : task.user = Nobody => task.key \in DOMAIN e.users

(* A workflow whose own work is in order and whose calls follow the contract *)
(* is published: what the contract lists is enough to call the module.       *)
ContractIsEnough ==
  asked = "refused" =>
    \/ \E slot \in contract.slots : ~Bindable(slot)
    \/ \E e \in CallsOf(text[Main]) : e.calls # Callee \/ ~FollowsContract(e)
    \/ \E e \in ToSet(text[Main].work) : e.kind # "call"
    \/ LaneFaults(text[Main], FALSE) # {}
=============================================================================
