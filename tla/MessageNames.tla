---------------------------- MODULE MessageNames ----------------------------
(* Which message a task or a boundary event waits for, what the validator    *)
(* says of it before (validator/collab.go, boundary.go), and whether a       *)
(* boundary interrupts its host (bpmncore/compile.go, element).              *)
(*                                                                           *)
(* A document is [messages, processes, flows, others, root]: the messages it *)
(* declares, its processes and message flows in order, the ids of pools and  *)
(* events, and the index of the process that runs.  A process is             *)
(* [id, calls, nodes] with its send tasks before its receive tasks before    *)
(* its boundary events; a node is [id, kind, ref, skipped, host, cancel].    *)
(* The ids of one document are distinct (IsDocument).                        *)
EXTENDS Naturals, Sequences, FiniteSets, FiniteSetsExt, SequencesExt

CONSTANT Letters     \* sequence of families of documents

VARIABLES letter, said, waits, naming
namingVars == <<letter, said, waits, naming>>

NoName == ""

-----------------------------------------------------------------------------
FirstGiven(names) ==
  LET given == {i \in DOMAIN names : names[i] # NoName}
  IN IF given = {} THEN NoName ELSE names[Min(given)]

ResolveMessageName(doc, ref) ==
  FirstGiven([i \in DOMAIN doc.messages |->
                IF ref # "" /\ doc.messages[i].id = ref THEN doc.messages[i].name ELSE NoName])

NodesOf(doc, ps) == UNION {ToSet(doc.processes[p].nodes) : p \in ps}
AllNodes(doc) == NodesOf(doc, DOMAIN doc.processes)
NodeMessageRef(doc, id) ==
  LET found == {n \in AllNodes(doc) : n.id = id /\ n.kind # "timer"}
  IN IF found = {} THEN "" ELSE (CHOOSE n \in found : TRUE).ref

(* A flow is called by its own name, its message, its target's or its        *)
(* source's; the first flow into a node names what the node waits for.       *)
ResolveMessageFlowName(doc, f) ==
  FirstGiven(<<f.name, ResolveMessageName(doc, f.ref),
               ResolveMessageName(doc, NodeMessageRef(doc, f.target)),
               ResolveMessageName(doc, NodeMessageRef(doc, f.source))>>)

ResolveMessageFlowTarget(doc, id) ==
  LET into == {i \in DOMAIN doc.flows : doc.flows[i].target = id}
  IN IF into = {} THEN NoName ELSE ResolveMessageFlowName(doc, doc.flows[Min(into)])

(* Handlers of boundary events and of receive and send tasks.                *)
BoundaryName(doc, n) ==
  FirstGiven(<<ResolveMessageName(doc, n.ref), ResolveMessageFlowTarget(doc, n.id)>>)
ReceiveName(doc, n) == FirstGiven(<<BoundaryName(doc, n), n.id>>)
SendName(doc, n) == ResolveMessageName(doc, n.ref)

-----------------------------------------------------------------------------
(* RunningProcesses: the root and what it calls, however deep.               *)
Called(doc, ps) ==
  {q \in DOMAIN doc.processes : \E p \in ps : doc.processes[q].id \in doc.processes[p].calls}
Running(doc) ==
  {q \in DOMAIN doc.processes :
     \A ps \in SUBSET DOMAIN doc.processes :
       doc.root \in ps /\ Called(doc, ps) \subseteq ps => q \in ps}

Waiting(doc) ==
  {n \in NodesOf(doc, Running(doc)) :
     n.kind = "boundary" \/ (n.kind = "receive" /\ ~n.skipped)}

-----------------------------------------------------------------------------
Told(severity, code, id) == [severity |-> severity, code |-> code, at |-> id]

KnownRefs(doc) == doc.others \cup {n.id : n \in AllNodes(doc)}

ValidateFlow(doc, f) ==
  LET declared == {m.id : m \in ToSet(doc.messages)}
      ends == {f.source, f.target}
      waitsUnnamed == /\ \E n \in Waiting(doc) : n.id = f.target
                      /\ ResolveMessageFlowName(doc, f) = NoName
  IN {t \in {Told("error", "MISSING_MESSAGE_DEFINITION", f.id)} : f.ref \notin declared \cup {""}}
       \cup {t \in {Told("error", "UNMATCHED_MESSAGE_FLOW", f.id)} : ~(ends \subseteq KnownRefs(doc))}
       \cup {t \in {Told("warning", "MISSING_MESSAGE_DEFINITION", f.id)} : waitsUnnamed}

ValidateCollaboration(doc) == UNION {ValidateFlow(doc, f) : f \in ToSet(doc.flows)}

UnreferencedBoundaryNames(doc) ==
  {Told("warning", "MISSING_MESSAGE_DEFINITION", n.id) :
     n \in {b \in NodesOf(doc, Running(doc)) :
              b.kind = "boundary" /\ b.ref = "" /\ BoundaryName(doc, b) = NoName}}
ValidateMessageBoundaryNames(doc) ==
  {Told("warning", "MISSING_MESSAGE_DEFINITION", n.id) :
     n \in {b \in NodesOf(doc, Running(doc)) : b.kind = "boundary" /\ BoundaryName(doc, b) = NoName}}

ValidCancelActivity(n) == n.cancel \in {"", "true", "false", "1", "0"}
ValidateCancel(doc) ==
  {Told("error", "INVALID_BOUNDARY_ATTACHMENT", n.id) :
     n \in {b \in NodesOf(doc, Running(doc)) : b.kind \in {"boundary", "timer"} /\ ~ValidCancelActivity(b)}}

-----------------------------------------------------------------------------
(* buildStageDef asks IsInterrupting of a task's boundary; boundaryPaths has *)
(* a comparison of its own for a sub-process or a call.                      *)
IsInterrupting(cancel) == cancel \notin {"false", "0"}
Interrupting(n) == IF n.host = "task" THEN IsInterrupting(n.cancel) ELSE n.cancel # "false"

CompiledNode(doc, n) ==
  CASE n.kind = "receive"  -> [name |-> ReceiveName(doc, n), interrupting |-> FALSE]
    [] n.kind = "send"     -> [name |-> SendName(doc, n), interrupting |-> FALSE]
    [] n.kind = "boundary" -> [name |-> BoundaryName(doc, n), interrupting |-> Interrupting(n)]
    [] n.kind = "timer"    -> [name |-> NoName, interrupting |-> Interrupting(n)]

-----------------------------------------------------------------------------
(* What the parser gives: lists, and no id twice, as XML has it; the checks  *)
(* refuse a repetition within one process (ValidateDuplicateIDs).            *)
IsDocument(doc) ==
  /\ doc.messages \in Seq(Range(doc.messages)) /\ doc.flows \in Seq(Range(doc.flows))
  /\ \A n, o \in AllNodes(doc) : n.id = o.id => n = o
ASSUME LettersAreDocuments ==
  \A family \in DOMAIN Letters : \A doc \in Letters[family] : IsDocument(doc)

NamingInit ==
  /\ \E family \in DOMAIN Letters : letter \in Letters[family]
  /\ said = {} /\ waits = <<>> /\ naming = "read"

CheckMessages ==
  /\ naming = "read"
  /\ said' = ValidateCollaboration(letter) \cup ValidateMessageBoundaryNames(letter)
               \cup ValidateCancel(letter)
  /\ naming' = IF \E t \in said' : t.severity = "error" THEN "refused" ELSE "checked"
  /\ UNCHANGED <<letter, waits>>

NameMessages ==
  /\ naming = "checked"
  /\ LET ran == {n \in NodesOf(letter, Running(letter)) : ~n.skipped}
         NodeOf(id) == CHOOSE n \in ran : n.id = id
     IN waits' = [id \in {n.id : n \in ran} |-> CompiledNode(letter, NodeOf(id))]
  /\ naming' = "named"
  /\ UNCHANGED <<letter, said>>

NamingNext == CheckMessages \/ NameMessages

NamingSpec == NamingInit /\ [][NamingNext]_namingVars

-----------------------------------------------------------------------------
(* The names the document gives what a node waits for: its own message's,    *)
(* and those a flow into it carries or its sender gives.                     *)
FlowsInto(doc, n) == {f \in ToSet(doc.flows) : f.target = n.id}
Drawn(doc, n) ==
  ({ResolveMessageName(doc, n.ref)}
     \cup UNION {{f.name, ResolveMessageName(doc, f.ref),
                  ResolveMessageName(doc, NodeMessageRef(doc, f.source))} : f \in FlowsInto(doc, n)})
  \ {NoName}

(* Whatever runs, called processes included, waits for a message the         *)
(* document gives it, or a warning names it or a flow into it: a wait that   *)
(* no message can end is never compiled unsaid.  A receive task that nothing *)
(* is drawn into may wait for its own id (ResolveMessageFlowTarget,          *)
(* ValidateCollaboration).                                                   *)
NoWaitLeftUnsaid ==
  naming = "named" =>
    \A n \in {w \in Waiting(letter) : ~w.skipped} :
      \/ waits[n.id].name \in Drawn(letter, n)
      \/ \E t \in said : t.at \in {n.id} \cup {f.id : f \in FlowsInto(letter, n)}
      \/ n.kind = "receive" /\ FlowsInto(letter, n) = {} /\ waits[n.id].name = n.id

(* "1 and 0 mean the same as true and false": a boundary interrupts its host *)
(* unless cancelActivity is false or 0, wherever it is attached              *)
(* (docs/lld/definition_service.md:1507); boundaryPaths forgets 0.           *)
InterruptsAsDrawn ==
  naming = "named" =>
    \A n \in NodesOf(letter, Running(letter)) :
      n.kind \in {"boundary", "timer"} =>
        (waits[n.id].interrupting <=> n.cancel \notin {"false", "0"})
=============================================================================
