---------------------------- MODULE DocumentProofs ----------------------------
(***************************************************************************)
(* Proofs about two passes over a document that read it without walking    *)
(* its flow: the names its waits get, and the bundle it becomes with the   *)
(* modules it calls, for every document and every library.                 *)
(*                                                                         *)
(* The steps only store what the operators give (NamingInv, JoinInv); the  *)
(* rest is about the operators.  A name comes from one of the places it is *)
(* looked for, and where there is none, none of them has one               *)
(* (FirstGivenIsGiven).  The keys a document leads to are closed under the *)
(* calls of what they name (UsedCallsAreKeys), so whatever a bundled       *)
(* process calls is in the bundle too (BundleHolds).                       *)
(***************************************************************************)
EXTENDS MessageNames, ModuleBundle, FiniteSetTheorems, SequenceTheorems, WellFoundedInduction, TLAPS

-----------------------------------------------------------------------------
(* A set of numbers has a least, and it is what Min gives (the first of a    *)
(* list in the loops of the code).                                           *)
LEMMA MinIsLeast ==
  ASSUME NEW S, S \subseteq Nat, S # {}
  PROVE  Min(S) \in S /\ \A y \in S : Min(S) =< y
<1>1. PICK x \in S : \A y \in S : ~(<<y, x>> \in OpToRel(<, Nat))
  BY WFMin, NatLessThanWellFounded
<1>2. \A y \in S : ~(y < x)
  BY <1>1 DEF OpToRel
<1>3. \A y \in S : x =< y
  BY <1>2
<1> QED
  BY <1>3 DEF Min

(* The first name given is one of them; there is none only when none is.     *)
LEMMA FirstGivenIsGiven ==
  ASSUME NEW names, DOMAIN names \subseteq Nat
  PROVE  /\ FirstGiven(names) # NoName => \E i \in DOMAIN names : FirstGiven(names) = names[i]
         /\ FirstGiven(names) = NoName => \A i \in DOMAIN names : names[i] = NoName
<1> DEFINE given == {i \in DOMAIN names : names[i] # NoName}
<1>1. CASE given = {}
  BY <1>1 DEF FirstGiven
<1>2. CASE given # {}
  <2>1. Min(given) \in given
    BY <1>2, MinIsLeast
  <2>2. FirstGiven(names) = names[Min(given)]
    BY <1>2 DEF FirstGiven
  <2> QED
    BY <2>1, <2>2
<1> QED
  BY <1>1, <1>2

LEMMA FirstOfTwo ==
  ASSUME NEW a, NEW b
  PROVE  /\ FirstGiven(<<a, b>>) \in {a, b, NoName}
         /\ FirstGiven(<<a, b>>) = NoName => a = NoName /\ b = NoName
         /\ a # NoName => FirstGiven(<<a, b>>) = a
         /\ a = NoName => FirstGiven(<<a, b>>) = b
<1>1. DOMAIN <<a, b>> = 1..2 /\ <<a, b>>[1] = a /\ <<a, b>>[2] = b
  OBVIOUS
<1>2. /\ FirstGiven(<<a, b>>) # NoName => \E i \in 1..2 : FirstGiven(<<a, b>>) = <<a, b>>[i]
      /\ FirstGiven(<<a, b>>) = NoName => \A i \in 1..2 : <<a, b>>[i] = NoName
  BY <1>1, FirstGivenIsGiven
<1>3. ASSUME a # NoName
      PROVE  FirstGiven(<<a, b>>) = a
  <2> DEFINE given == {i \in 1..2 : <<a, b>>[i] # NoName}
  <2>1. given \subseteq Nat /\ 1 \in given
    BY <1>1, <1>3
  <2>2. Min(given) = 1
    <3>1. Min(given) \in given /\ Min(given) =< 1
      BY <2>1, MinIsLeast
    <3> QED
      BY <3>1
  <2>3. FirstGiven(<<a, b>>) = <<a, b>>[Min(given)]
    BY <1>1, <2>1 DEF FirstGiven
  <2> QED
    BY <1>1, <2>2, <2>3
<1> QED
  BY <1>1, <1>2, <1>3

LEMMA FirstOfFour ==
  ASSUME NEW a, NEW b, NEW c, NEW d
  PROVE  FirstGiven(<<a, b, c, d>>) \in {a, b, c, d, NoName}
<1>1. /\ DOMAIN <<a, b, c, d>> = 1..4 /\ <<a, b, c, d>>[1] = a /\ <<a, b, c, d>>[2] = b
      /\ <<a, b, c, d>>[3] = c /\ <<a, b, c, d>>[4] = d
  OBVIOUS
<1>2. FirstGiven(<<a, b, c, d>>) # NoName =>
        \E i \in 1..4 : FirstGiven(<<a, b, c, d>>) = <<a, b, c, d>>[i]
  BY <1>1, FirstGivenIsGiven
<1> QED
  BY <1>1, <1>2

-----------------------------------------------------------------------------
(* Names *)

LEMMA DocumentLists ==
  ASSUME NEW doc, IsDocument(doc)
  PROVE  DOMAIN doc.messages \subseteq Nat /\ DOMAIN doc.flows \subseteq Nat
<1>1. \A S, s : s \in Seq(S) => DOMAIN s \subseteq Nat
  OBVIOUS
<1> QED
  BY <1>1 DEF IsDocument

LEMMA RunningIsThere ==
  ASSUME NEW doc, NEW n \in NodesOf(doc, Running(doc))
  PROVE  n \in AllNodes(doc)
  BY DEF NodesOf, AllNodes, Running

(* A node is found again under its id. *)
LEMMA OwnReference ==
  ASSUME NEW doc, IsDocument(doc), NEW n \in AllNodes(doc), n.kind # "timer"
  PROVE  NodeMessageRef(doc, n.id) = n.ref
<1> DEFINE found == {o \in AllNodes(doc) : o.id = n.id /\ o.kind # "timer"}
<1>1. found = {n}
  BY DEF IsDocument
<1>2. NodeMessageRef(doc, n.id) = (CHOOSE o \in found : TRUE).ref
  BY <1>1 DEF NodeMessageRef
<1> QED
  BY <1>1, <1>2

(* What a flow into a node is called is drawn. *)
LEMMA FlowNameIsDrawn ==
  ASSUME NEW doc, IsDocument(doc), NEW n \in AllNodes(doc), n.kind # "timer",
         NEW f \in FlowsInto(doc, n), ResolveMessageFlowName(doc, f) # NoName
  PROVE  ResolveMessageFlowName(doc, f) \in Drawn(doc, n)
<1> DEFINE a == f.name
           b == ResolveMessageName(doc, f.ref)
           c == ResolveMessageName(doc, NodeMessageRef(doc, f.target))
           d == ResolveMessageName(doc, NodeMessageRef(doc, f.source))
<1>1. ResolveMessageFlowName(doc, f) \in {a, b, c, d, NoName}
  BY FirstOfFour DEF ResolveMessageFlowName
<1>2. c = ResolveMessageName(doc, n.ref)
  BY OwnReference DEF FlowsInto
<1> HIDE DEF c
<1> QED
  BY <1>1, <1>2 DEF Drawn

(* The name of the first flow into a node. *)
LEMMA FirstFlowNames ==
  ASSUME NEW doc, IsDocument(doc), NEW n
  PROVE  \/ FlowsInto(doc, n) = {} /\ ResolveMessageFlowTarget(doc, n.id) = NoName
         \/ \E f \in FlowsInto(doc, n) :
               ResolveMessageFlowTarget(doc, n.id) = ResolveMessageFlowName(doc, f)
<1> DEFINE into == {i \in DOMAIN doc.flows : doc.flows[i].target = n.id}
<1>1. CASE into = {}
  BY <1>1 DEF ResolveMessageFlowTarget, FlowsInto, ToSet
<1>2. CASE into # {}
  <2>1. Min(into) \in into
    BY <1>2, DocumentLists, MinIsLeast
  <2>2. doc.flows[Min(into)] \in FlowsInto(doc, n)
    BY <2>1 DEF FlowsInto, ToSet
  <2>3. ResolveMessageFlowTarget(doc, n.id) = ResolveMessageFlowName(doc, doc.flows[Min(into)])
    BY <1>2 DEF ResolveMessageFlowTarget
  <2> QED
    BY <2>2, <2>3
<1> QED
  BY <1>1, <1>2

LEMMA BoundaryNameIsDrawn ==
  ASSUME NEW doc, IsDocument(doc), NEW n \in AllNodes(doc), n.kind # "timer",
         BoundaryName(doc, n) # NoName
  PROVE  BoundaryName(doc, n) \in Drawn(doc, n)
<1>1. BoundaryName(doc, n) \in {ResolveMessageName(doc, n.ref), ResolveMessageFlowTarget(doc, n.id)}
  BY FirstOfTwo DEF BoundaryName
<1>2. CASE BoundaryName(doc, n) = ResolveMessageName(doc, n.ref)
  BY <1>2 DEF Drawn
<1>3. CASE BoundaryName(doc, n) = ResolveMessageFlowTarget(doc, n.id)
  BY <1>3, FirstFlowNames, FlowNameIsDrawn
<1> QED
  BY <1>1, <1>2, <1>3

-----------------------------------------------------------------------------
(* The invariant of the two steps *)

WaitsOf(doc) ==
  LET ran == {n \in NodesOf(doc, Running(doc)) : ~n.skipped}
      NodeOf(id) == CHOOSE n \in ran : n.id = id
  IN [id \in {n.id : n \in ran} |-> CompiledNode(doc, NodeOf(id))]

NamingInv ==
  /\ IsDocument(letter)
  /\ naming # "read" =>
       said = ValidateCollaboration(letter) \cup ValidateMessageBoundaryNames(letter)
                \cup ValidateCancel(letter)
  /\ naming = "named" => waits = WaitsOf(letter)

LEMMA NamingInductive == NamingSpec => []NamingInv
<1>1. NamingInit => NamingInv
  BY LettersAreDocuments DEF NamingInit, NamingInv
<1>2. NamingInv /\ [NamingNext]_namingVars => NamingInv'
  <2> SUFFICES ASSUME NamingInv, [NamingNext]_namingVars
               PROVE  NamingInv'
    OBVIOUS
  <2>1. CASE CheckMessages
    <3>1. naming' # "named" /\ letter' = letter
      BY <2>1 DEF CheckMessages
    <3> QED
      BY <2>1, <3>1 DEF CheckMessages, NamingInv
  <2>2. CASE NameMessages
    BY <2>2 DEF NameMessages, NamingInv, WaitsOf
  <2>3. CASE UNCHANGED namingVars
    BY <2>3 DEF namingVars, NamingInv
  <2> QED
    BY <2>1, <2>2, <2>3 DEF NamingNext
<1> QED
  BY <1>1, <1>2, PTL DEF NamingSpec

(* A node that runs gets what its handler gives it. *)
LEMMA EveryNodeGetsItsOwn ==
  ASSUME NEW doc, IsDocument(doc), NEW n \in NodesOf(doc, Running(doc)), ~n.skipped
  PROVE  WaitsOf(doc)[n.id] = CompiledNode(doc, n)
<1> DEFINE ran == {o \in NodesOf(doc, Running(doc)) : ~o.skipped}
<1>1. \A o \in ran : o.id = n.id => o = n
  BY RunningIsThere DEF IsDocument
<1>2. (CHOOSE o \in ran : o.id = n.id) = n
  BY <1>1
<1> QED
  BY <1>2 DEF WaitsOf

LEMMA WaitingAreNamedOrSaid ==
  ASSUME NEW doc, IsDocument(doc), NEW n \in Waiting(doc), ~n.skipped,
         NEW told, told = ValidateCollaboration(doc) \cup ValidateMessageBoundaryNames(doc)
                            \cup ValidateCancel(doc)
  PROVE  \/ WaitsOf(doc)[n.id].name \in Drawn(doc, n)
         \/ \E t \in told : t.at \in {n.id} \cup {f.id : f \in FlowsInto(doc, n)}
         \/ n.kind = "receive" /\ FlowsInto(doc, n) = {} /\ WaitsOf(doc)[n.id].name = n.id
<1>1. /\ n \in NodesOf(doc, Running(doc)) /\ n \in AllNodes(doc)
      /\ n.kind \in {"boundary", "receive"}
  BY RunningIsThere DEF Waiting
<1>2. WaitsOf(doc)[n.id] = CompiledNode(doc, n)
  BY <1>1, EveryNodeGetsItsOwn
<1>3. CASE BoundaryName(doc, n) # NoName
  <2>1. WaitsOf(doc)[n.id].name = BoundaryName(doc, n)
    <3>1. CASE n.kind = "boundary"
      BY <1>2, <3>1 DEF CompiledNode
    <3>2. CASE n.kind = "receive"
      <4>1. ReceiveName(doc, n) = BoundaryName(doc, n)
        BY <1>3, FirstOfTwo DEF ReceiveName
      <4> QED
        BY <1>2, <3>2, <4>1 DEF CompiledNode
    <3> QED
      BY <1>1, <3>1, <3>2
  <2> QED
    BY <1>1, <1>3, <2>1, BoundaryNameIsDrawn
<1>4. CASE BoundaryName(doc, n) = NoName /\ n.kind = "boundary"
  <2>1. Told("warning", "MISSING_MESSAGE_DEFINITION", n.id) \in ValidateMessageBoundaryNames(doc)
    BY <1>1, <1>4 DEF ValidateMessageBoundaryNames
  <2> QED
    BY <2>1 DEF Told
<1>5. CASE BoundaryName(doc, n) = NoName /\ n.kind = "receive" /\ FlowsInto(doc, n) = {}
  <2>1. ReceiveName(doc, n) = n.id
    BY <1>5, FirstOfTwo DEF ReceiveName
  <2> QED
    BY <1>2, <1>5, <2>1 DEF CompiledNode
<1>6. CASE BoundaryName(doc, n) = NoName /\ FlowsInto(doc, n) # {}
  <2>1. ResolveMessageFlowTarget(doc, n.id) = NoName
    BY <1>6, FirstOfTwo DEF BoundaryName
  <2>2. PICK f \in FlowsInto(doc, n) : ResolveMessageFlowName(doc, f) = NoName
    BY <1>6, <2>1, FirstFlowNames
  <2>3. Told("warning", "MISSING_MESSAGE_DEFINITION", f.id) \in ValidateFlow(doc, f)
    BY <2>2 DEF ValidateFlow, FlowsInto
  <2>4. Told("warning", "MISSING_MESSAGE_DEFINITION", f.id) \in told
    BY <2>2, <2>3 DEF ValidateCollaboration, FlowsInto
  <2> QED
    BY <2>2, <2>4 DEF Told
<1> QED
  BY <1>1, <1>3, <1>4, <1>5, <1>6

(* Nothing that runs waits, unsaid, for a message the document does not give *)
(* it (ResolveMessageFlowTarget, ValidateCollaboration), for every document  *)
(* whose ids are distinct.                                                   *)
THEOREM NoWaitIsLeftUnsaid == NamingSpec => []NoWaitLeftUnsaid
<1>1. NamingInv => NoWaitLeftUnsaid
  BY WaitingAreNamedOrSaid DEF NamingInv, NoWaitLeftUnsaid
<1> QED
  BY <1>1, NamingInductive, PTL

-----------------------------------------------------------------------------
(* Which versions a document leads to *)

LEMMA OwnCallsAreKeys ==
  ASSUME NEW f
  PROVE  ModuleCalls(f.main) \subseteq AllKeys(f)
  BY DEF AllKeys

(* The keys are closed: a version that is used brings in its own calls.      *)
LEMMA UsedCallsAreKeys ==
  ASSUME NEW f, NEW k \in AllKeys(f), Version(f, k) \in DOMAIN f.library,
         NEW key \in ModuleCalls(FileOf(f, Version(f, k)))
  PROVE  key \in AllKeys(f)
<1> DEFINE own == ModuleCalls(f.main)
           others == UNION {ModuleCalls(FileOf(f, v)) : v \in DOMAIN f.library}
           closed == {keys \in SUBSET others : KeysFrom(f, own \cup keys) \subseteq own \cup keys}
<1>1. AllKeys(f) = own \cup {x \in others : \A keys \in closed : x \in keys}
  BY DEF AllKeys
<1>2. key \in others
  OBVIOUS
<1>3. ASSUME NEW keys \in closed
      PROVE  key \in own \cup keys
  <2>1. k \in own \cup keys
    BY <1>1
  <2>2. key \in KeysFrom(f, own \cup keys)
    BY <2>1 DEF KeysFrom
  <2> QED
    BY <2>2
<1> HIDE DEF own, others, closed
<1> QED
  BY <1>1, <1>2, <1>3

-----------------------------------------------------------------------------
(* What a call becomes *)

LEMMA PointedCalls ==
  ASSUME NEW f, NEW file, NEW p \in BPMNProcess
  PROVE  LET q == PointLibraryCalls(f, file, p)
         IN /\ q.id = p.id /\ q.refs = p.refs /\ q.library = p.library
            /\ DOMAIN q = {"id", "calls", "refs", "library"}
            /\ DOMAIN q.calls = DOMAIN p.calls
            /\ \A i \in DOMAIN p.calls :
                 LET c == p.calls[i]
                     points == IsModuleCall(file, p.id, c) /\ Key(c) \in AllKeys(f)
                 IN /\ points => q.calls[i].target = PlanName(Version(f, Key(c)))
                    /\ ~points => q.calls[i] = c
                    /\ DOMAIN q.calls[i] = {"id", "target", "binding", "tag"}
<1> DEFINE plans == PlanFor(f)
           Point(c) == IF IsModuleCall(Home(f, file), p.id, c) /\ Key(c) \in DOMAIN plans
                       THEN [c EXCEPT !.target = plans[Key(c)], !.binding = "latest", !.tag = 0]
                       ELSE c
           q == PointLibraryCalls(f, file, p)
<1>1. q = [p EXCEPT !.calls = [i \in DOMAIN p.calls |-> Point(p.calls[i])]]
  BY DEF PointLibraryCalls
<1>2. \A i \in DOMAIN p.calls : p.calls[i] \in BPMNCall
  BY DEF BPMNProcess
<1>3. DOMAIN plans = AllKeys(f) /\ \A key \in AllKeys(f) : plans[key] = PlanName(Version(f, key))
  BY DEF PlanFor
<1>4. Home(f, file) = file
  BY DEF Home
<1> HIDE DEF plans
<1>5. ASSUME NEW c \in BPMNCall
      PROVE  LET points == IsModuleCall(file, p.id, c) /\ Key(c) \in AllKeys(f)
             IN /\ points => Point(c).target = PlanName(Version(f, Key(c)))
                /\ ~points => Point(c) = c
                /\ DOMAIN Point(c) = {"id", "target", "binding", "tag"}
  BY <1>3, <1>4 DEF BPMNCall
<1> HIDE DEF Point
<1>6. /\ q.id = p.id /\ q.refs = p.refs /\ q.library = p.library
      /\ DOMAIN q = {"id", "calls", "refs", "library"}
      /\ q.calls = [i \in DOMAIN p.calls |-> Point(p.calls[i])]
  BY <1>1 DEF BPMNProcess
<1> HIDE DEF q
<1>7. \A i \in DOMAIN p.calls :
         LET c == p.calls[i]
             points == IsModuleCall(file, p.id, c) /\ Key(c) \in AllKeys(f)
         IN /\ points => q.calls[i].target = PlanName(Version(f, Key(c)))
            /\ ~points => q.calls[i] = c
            /\ DOMAIN q.calls[i] = {"id", "target", "binding", "tag"}
  BY <1>2, <1>5, <1>6
<1> QED
  BY <1>6, <1>7 DEF q

(* The workflow's own processes, and a version's. *)
Own(f, p) == [PointLibraryCalls(f, f.main, p) EXCEPT !.library = FALSE]
Source(f, v) == FileOf(f, v).processes[1]

LEMMA OwnShape ==
  ASSUME NEW f, NEW p \in BPMNProcess
  PROVE  LET q == Own(f, p)
         IN q.id = p.id /\ q.library = FALSE /\ q.refs = p.refs
            /\ q.calls = PointLibraryCalls(f, f.main, p).calls
  BY PointedCalls DEF Own

LEMMA BundledShape ==
  ASSUME NEW f, NEW v, Source(f, v) \in BPMNProcess
  PROVE  LET p == Source(f, v)
             q == BundledProcess(f, v)
             pointed == PointLibraryCalls(f, FileOf(f, v), p)
         IN /\ q.id = PlanName(v) /\ q.library = TRUE
            /\ DOMAIN q.calls = DOMAIN p.calls /\ DOMAIN q.refs = DOMAIN p.refs
            /\ \A i \in DOMAIN p.refs : q.refs[i] = OwnName(PlanName(v), p.refs[i])
            /\ \A i \in DOMAIN p.calls :
                 q.calls[i].target = IF pointed.calls[i].target # p.id
                                     THEN pointed.calls[i].target ELSE PlanName(v)
<1> DEFINE p == Source(f, v)
           q == BundledProcess(f, v)
           pointed == PointLibraryCalls(f, FileOf(f, v), p)
           selfed == PointSelfCalls(pointed, PlanName(v))
           renamed == RenamedRefs(selfed, PlanName(v))
<1>1. /\ pointed.id = p.id /\ pointed.refs = p.refs
      /\ DOMAIN pointed = {"id", "calls", "refs", "library"}
      /\ DOMAIN pointed.calls = DOMAIN p.calls
      /\ \A i \in DOMAIN p.calls : DOMAIN pointed.calls[i] = {"id", "target", "binding", "tag"}
  BY PointedCalls
<1>2. q = [renamed EXCEPT !.id = PlanName(v), !.library = TRUE]
  BY DEF BundledProcess, Source
<1>3. pointed = [x \in {"id", "calls", "refs", "library"} |-> pointed[x]]
  BY PointedCalls DEF PointLibraryCalls, BPMNProcess
<1> HIDE DEF p, pointed
<1>4. /\ DOMAIN selfed = {"id", "calls", "refs", "library"}
      /\ selfed.refs = p.refs /\ DOMAIN selfed.calls = DOMAIN p.calls
      /\ \A i \in DOMAIN p.calls :
           selfed.calls[i] = IF pointed.calls[i].target # p.id THEN pointed.calls[i]
                             ELSE [pointed.calls[i] EXCEPT !.target = PlanName(v), !.binding = "latest", !.tag = 0]
  BY <1>1, <1>3 DEF PointSelfCalls
<1>5. \A i \in DOMAIN p.calls :
         selfed.calls[i].target = IF pointed.calls[i].target # p.id
                                  THEN pointed.calls[i].target ELSE PlanName(v)
  BY <1>1, <1>4
<1> HIDE DEF selfed
<1>6. /\ DOMAIN renamed = {"id", "calls", "refs", "library"}
      /\ renamed.calls = selfed.calls
      /\ renamed.refs = [i \in DOMAIN p.refs |-> OwnName(PlanName(v), p.refs[i])]
  BY <1>4 DEF RenamedRefs
<1> HIDE DEF renamed
<1>7. /\ q.id = PlanName(v) /\ q.library = TRUE
      /\ q.calls = selfed.calls /\ q.refs = renamed.refs
  BY <1>2, <1>6
<1> HIDE DEF q
<1>8. DOMAIN q.calls = DOMAIN p.calls /\ DOMAIN q.refs = DOMAIN p.refs
  BY <1>4, <1>6, <1>7
<1>9. \A i \in DOMAIN p.refs : q.refs[i] = OwnName(PlanName(v), p.refs[i])
  BY <1>6, <1>7
<1>10. \A i \in DOMAIN p.calls :
          q.calls[i].target = IF pointed.calls[i].target # p.id
                              THEN pointed.calls[i].target ELSE PlanName(v)
  BY <1>5, <1>7
<1> QED
  BY <1>7, <1>8, <1>9, <1>10 DEF p, q, pointed

-----------------------------------------------------------------------------
(* What a bundle holds *)

LEMMA SetAsSequence ==
  ASSUME NEW S, IsFiniteSet(S)
  PROVE  SetToSeq(S) \in Seq(S) /\ ToSet(SetToSeq(S)) = S
<1>1. Cardinality(S) \in Nat /\ ExistsBijection(1..Cardinality(S), S)
  BY FS_CardinalityType
<1>2. PICK g \in Bijection(1..Cardinality(S), S) : TRUE
  BY <1>1 DEF ExistsBijection
<1>3. g \in [1..Cardinality(S) -> S] /\ IsInjective(g)
  BY <1>2 DEF Bijection, Injection
<1>4. SetToSeq(S) \in [1..Cardinality(S) -> S] /\ IsInjective(SetToSeq(S))
  BY <1>3 DEF SetToSeq
<1> DEFINE h == SetToSeq(S)
<1>5. h \in Injection(1..Cardinality(S), S)
  BY <1>4 DEF Injection
<1>6. Cardinality(1..Cardinality(S)) = Cardinality(S)
  BY <1>1, FS_Interval
<1>7. h \in Surjection(1..Cardinality(S), S)
  BY <1>5, <1>6, FS_Injection
<1> QED
  BY <1>1, <1>4, <1>7 DEF Surjection, ToSet

Used(f) == {Version(f, key) : key \in AllKeys(f)}

IsFamilyFile(f) == f.main \in BPMNFile /\ IsLibrary(f) /\ NamesAreNew(f)

LEMMA UsedAreThere ==
  ASSUME NEW f, IsFamilyFile(f), Resolvable(f)
  PROVE  /\ Used(f) \subseteq DOMAIN f.library /\ IsFiniteSet(Used(f))
         /\ \A v \in Used(f) :
              /\ FileOf(f, v) \in BPMNFile /\ Source(f, v) \in BPMNProcess
              /\ FileOf(f, v).processes = <<Source(f, v)>> /\ FileOf(f, v).name = PlanName(v)
              /\ Source(f, v).id = v[1] /\ ~CallsRefused(FileOf(f, v))
<1>1. Used(f) \subseteq DOMAIN f.library /\ \A v \in Used(f) : ~CallsRefused(FileOf(f, v))
  BY DEF Resolvable, Used
<1>2. IsFiniteSet(Used(f))
  BY <1>1, FS_Subset DEF IsFamilyFile, IsLibrary
<1>3. ASSUME NEW v \in Used(f)
      PROVE  /\ FileOf(f, v) \in BPMNFile /\ Source(f, v) \in BPMNProcess
             /\ FileOf(f, v).processes = <<Source(f, v)>> /\ FileOf(f, v).name = PlanName(v)
             /\ Source(f, v).id = v[1]
  <2>1. /\ FileOf(f, v) \in BPMNFile /\ FileOf(f, v).name = PlanName(v)
        /\ Len(FileOf(f, v).processes) = 1 /\ Source(f, v).id = v[1]
    BY <1>1 DEF IsFamilyFile, IsLibrary, Source
  <2>2. FileOf(f, v).processes \in Seq(BPMNProcess)
    BY <2>1 DEF BPMNFile
  <2> QED
    BY <2>1, <2>2 DEF Source
<1> QED
  BY <1>1, <1>2, <1>3

(* The processes of the workflow come first, each where it was, and then     *)
(* each version once.                                                        *)
LEMMA BundleHolds ==
  ASSUME NEW f, IsFamilyFile(f), Resolvable(f), Used(f) # {}
  PROVE  LET b == BundleModules(f)
             n == Len(f.main.processes)
         IN /\ DOMAIN f.main.processes = 1..n
            /\ 1..n \subseteq DOMAIN b.processes
            /\ \A i \in 1..n : b.processes[i] = Own(f, f.main.processes[i])
            /\ \A i \in DOMAIN b.processes \ 1..n :
                 \E v \in Used(f) : b.processes[i] = BundledProcess(f, v)
            /\ \A v \in Used(f) : BundledProcess(f, v) \in ToSet(b.processes)
            /\ b.declares = f.main.declares
                 \cup UNION {RenamedDeclarations(FileOf(f, v), PlanName(v)) : v \in Used(f)}
<1> DEFINE n == Len(f.main.processes)
           order == SetToSeq(Used(f))
           mains == [i \in DOMAIN f.main.processes |-> Own(f, f.main.processes[i])]
           modules == [i \in DOMAIN order |-> BundledProcess(f, order[i])]
           Held == {Own(f, p) : p \in BPMNProcess} \cup {BundledProcess(f, v) : v \in Used(f)}
<1>1. f.main.processes \in Seq(BPMNProcess)
  BY DEF IsFamilyFile, BPMNFile
<1>2. order \in Seq(Used(f)) /\ ToSet(order) = Used(f)
  BY UsedAreThere, SetAsSequence
<1>3. order # <<>>
  BY <1>2 DEF ToSet
<1>4. /\ BundleModules(f).processes = mains \o modules
      /\ BundleModules(f).declares =
            f.main.declares
              \cup UNION {RenamedDeclarations(FileOf(f, v), PlanName(v)) : v \in Used(f)}
  BY <1>2, <1>3 DEF BundleModules, Used, Own
<1> HIDE DEF order
<1>5. n \in Nat /\ DOMAIN f.main.processes = 1..n
  BY <1>1
<1>6. mains \in Seq(Held) /\ Len(mains) = n /\ \A i \in 1..n : mains[i] = Own(f, f.main.processes[i])
  <2>1. \A i \in 1..n : f.main.processes[i] \in BPMNProcess
    BY <1>1, <1>5
  <2>2. mains \in [1..n -> Held]
    BY <1>5, <2>1
  <2> QED
    BY <1>5, <2>2
<1>7. modules \in Seq(Held) /\ Len(modules) = Len(order)
      /\ \A i \in DOMAIN modules : modules[i] = BundledProcess(f, order[i]) /\ order[i] \in Used(f)
      /\ DOMAIN modules = 1..Len(order) /\ DOMAIN order = 1..Len(order)
  <2>1. Len(order) \in Nat /\ DOMAIN order = 1..Len(order)
        /\ \A i \in DOMAIN order : order[i] \in Used(f)
    BY <1>2
  <2>2. modules \in [1..Len(order) -> Held]
    BY <2>1
  <2> QED
    BY <2>1, <2>2
<1> HIDE DEF mains, modules, Held
<1> DEFINE all == mains \o modules
<1>8. /\ all \in Seq(Held) /\ DOMAIN all = 1..(n + Len(order))
      /\ \A i \in 1..n : all[i] = mains[i]
      /\ \A i \in (n + 1)..(n + Len(order)) : all[i] = modules[i - n]
  <2>1. Len(order) \in Nat
    BY <1>2
  <2>2. all \in Seq(Held) /\ Len(all) = n + Len(order)
    <3>1. mains \in Seq(Held) /\ modules \in Seq(Held)
      BY <1>6, <1>7
    <3>2. all \in Seq(Held) /\ Len(all) = Len(mains) + Len(modules)
      BY ONLY <3>1, ConcatProperties
    <3> QED
      BY ONLY <1>6, <1>7, <3>2
  <2>3. \A i \in 1..(n + Len(order)) : all[i] = IF i <= n THEN mains[i] ELSE modules[i - n]
    BY <1>6, <1>7, ConcatProperties
  <2>4. DOMAIN all = 1..(n + Len(order))
    BY <2>2
  <2> HIDE DEF all, n
  <2>5. \A i \in 1..n : i \in 1..(n + Len(order)) /\ i <= n
    BY <1>5, <2>1
  <2>6. \A i \in (n + 1)..(n + Len(order)) : i \in 1..(n + Len(order)) /\ ~(i <= n)
    BY <1>5, <2>1
  <2> QED
    BY <2>2, <2>3, <2>4, <2>5, <2>6
<1> HIDE DEF all
<1>9. \A i \in DOMAIN all \ 1..n : \E v \in Used(f) : all[i] = BundledProcess(f, v)
  <2> SUFFICES ASSUME NEW i \in DOMAIN all \ 1..n
               PROVE  \E v \in Used(f) : all[i] = BundledProcess(f, v)
    OBVIOUS
  <2>1. Len(order) \in Nat
    BY <1>2
  <2>2. i \in (n + 1)..(n + Len(order)) /\ i - n \in DOMAIN modules
    BY <1>5, <1>7, <1>8, <2>1
  <2> QED
    BY <1>7, <1>8, <2>2
<1>10. \A v \in Used(f) : BundledProcess(f, v) \in ToSet(all)
  <2> SUFFICES ASSUME NEW v \in Used(f)
               PROVE  BundledProcess(f, v) \in ToSet(all)
    OBVIOUS
  <2>1. PICK i \in DOMAIN order : order[i] = v
    BY <1>2 DEF ToSet
  <2>2. n + i \in (n + 1)..(n + Len(order)) /\ (n + i) - n = i /\ Len(order) \in Nat
    <3>1. Len(order) \in Nat /\ i \in 1..Len(order) /\ n \in Nat
      BY <1>2, <1>5, <1>7
    <3> HIDE DEF n
    <3> QED
      BY <3>1
  <2>3. all[n + i] = BundledProcess(f, v) /\ n + i \in DOMAIN all
    BY <1>5, <1>7, <1>8, <2>1, <2>2
  <2> QED
    BY <2>3 DEF ToSet
<1>11. 1..n \subseteq DOMAIN all
  BY <1>2, <1>5, <1>8
<1> QED
  BY <1>4, <1>5, <1>6, <1>8, <1>9, <1>10, <1>11 DEF all

-----------------------------------------------------------------------------
(* Where the calls of a bundle lead *)

(* A call that is not refused calls the library or its own file. *)
LEMMA CallsLeadSomewhere ==
  ASSUME NEW home, ~CallsRefused(home), NEW p \in ToSet(home.processes), p \in BPMNProcess,
         NEW c \in ToSet(p.calls)
  PROVE  \/ /\ IsModuleCall(home, p.id, c) /\ Key(c) \in ModuleCalls(home)
            /\ c.binding = "versionTag" \/ ~IsLocal(home, c)
         \/ ~IsModuleCall(home, p.id, c) /\ IsLocal(home, c) /\ c.binding # "versionTag"
<1>1. c \in BPMNCall
  BY DEF BPMNProcess, ToSet
<1>2. ~Unusable(home, p.id, c)
  BY DEF CallsRefused
<1>3. IsModuleCall(home, p.id, c) => Key(c) \in ModuleCalls(home)
  BY DEF ModuleCalls
<1> QED
  BY <1>1, <1>2, <1>3 DEF IsModuleCall, Unusable, BPMNCall

LEMMA VersionIsOfTarget ==
  ASSUME NEW f, NEW c
  PROVE  Version(f, Key(c))[1] = c.target
  BY DEF Version, Key

(* The version a bundled process stands for is the one it was made from. *)
LEMMA OriginOfBundled ==
  ASSUME NEW f, IsFamilyFile(f), Resolvable(f), NEW v \in Used(f)
  PROVE  LET q == BundledProcess(f, v)
         IN /\ VersionOf(f, q) = v
            /\ Origin(f, q) = <<PlanName(v), v[1]>>
            /\ HomeOf(f, q) = FileOf(f, v)
            /\ \A i : AsWritten(f, i, q) = Source(f, v)
<1> DEFINE q == BundledProcess(f, v)
<1>1. q.id = PlanName(v) /\ q.library = TRUE /\ v \in DOMAIN f.library
  BY UsedAreThere, BundledShape
<1> HIDE DEF q
<1>2. VersionOf(f, q) = v
  BY <1>1 DEF VersionOf, IsFamilyFile, NamesAreNew
<1> QED
  BY <1>1, <1>2 DEF q, Origin, HomeOf, AsWritten, Source

LEMMA LibraryCallArrives ==
  ASSUME NEW f, IsFamilyFile(f), Resolvable(f), NEW home, NEW c, Key(c) \in AllKeys(f),
         c.binding = "versionTag" \/ ~IsLocal(home, c)
  PROVE  LET v == Version(f, Key(c))
         IN /\ v \in Used(f) /\ BundledProcess(f, v).id = PlanName(v)
            /\ Origin(f, BundledProcess(f, v)) = Means(f, home, c)
<1> DEFINE v == Version(f, Key(c))
<1>1. v \in Used(f)
  BY DEF Used
<1>2. Means(f, home, c) = <<PlanName(v), c.target>>
  BY DEF Means
<1>3. v[1] = c.target
  BY VersionIsOfTarget
<1> HIDE DEF v
<1>4. BundledProcess(f, v).id = PlanName(v)
  <2>1. Source(f, v) \in BPMNProcess
    BY <1>1, UsedAreThere
  <2> QED
    BY <2>1, BundledShape
<1>5. Origin(f, BundledProcess(f, v)) = <<PlanName(v), v[1]>>
  BY <1>1, OriginOfBundled
<1> QED
  BY <1>1, <1>2, <1>3, <1>4, <1>5 DEF v

LEMMA OwnCallsArrive ==
  ASSUME NEW f, IsFamilyFile(f), Resolvable(f), Used(f) # {},
         NEW p \in ToSet(f.main.processes), NEW k \in DOMAIN p.calls
  PROVE  \E q \in ToSet(BundleModules(f).processes) :
            /\ q.id = Own(f, p).calls[k].target
            /\ Origin(f, q) = Means(f, f.main, p.calls[k])
<1> DEFINE c == p.calls[k]
           b == BundleModules(f)
<1>1. /\ p \in BPMNProcess /\ c \in ToSet(p.calls) /\ ~CallsRefused(f.main)
      /\ \A o \in ToSet(f.main.processes) : o \in BPMNProcess
  BY DEF IsFamilyFile, BPMNFile, Resolvable, ToSet
<1>2. Own(f, p).calls = PointLibraryCalls(f, f.main, p).calls
  BY <1>1, OwnShape
<1>3. CASE IsModuleCall(f.main, p.id, c)
  <2>1. Key(c) \in AllKeys(f) /\ (c.binding = "versionTag" \/ ~IsLocal(f.main, c))
    BY <1>1, <1>3, CallsLeadSomewhere, OwnCallsAreKeys
  <2>2. Own(f, p).calls[k].target = PlanName(Version(f, Key(c)))
    BY <1>1, <1>2, <1>3, <2>1, PointedCalls
  <2>3. /\ Version(f, Key(c)) \in Used(f)
        /\ BundledProcess(f, Version(f, Key(c))).id = PlanName(Version(f, Key(c)))
        /\ Origin(f, BundledProcess(f, Version(f, Key(c)))) = Means(f, f.main, c)
    BY <2>1, LibraryCallArrives
  <2>4. BundledProcess(f, Version(f, Key(c))) \in ToSet(b.processes)
    BY <2>3, BundleHolds
  <2> QED
    BY <2>2, <2>3, <2>4
<1>4. CASE ~IsModuleCall(f.main, p.id, c)
  <2>1. IsLocal(f.main, c) /\ c.binding # "versionTag"
    BY <1>1, <1>4, CallsLeadSomewhere
  <2>2. Own(f, p).calls[k] = c
    BY <1>1, <1>2, <1>4, PointedCalls
  <2>3. PICK i \in DOMAIN f.main.processes : f.main.processes[i].id = c.target
    BY <2>1 DEF IsLocal, IdsIn, ToSet
  <2>4. f.main.processes[i] \in BPMNProcess
    BY <1>1, <2>3 DEF ToSet
  <2> DEFINE q == Own(f, f.main.processes[i])
  <2>5. q.id = c.target /\ q.library = FALSE
    BY <2>3, <2>4, OwnShape
  <2>6. q \in ToSet(b.processes)
    <3>1. i \in DOMAIN b.processes /\ b.processes[i] = q
      BY <2>3, BundleHolds
    <3> QED
      BY <3>1 DEF ToSet
  <2>7. Origin(f, q) = <<f.main.name, c.target>>
    BY <2>5 DEF Origin
  <2>8. Means(f, f.main, c) = <<f.main.name, c.target>>
    BY <2>1 DEF Means
  <2> HIDE DEF q
  <2> QED
    BY <2>2, <2>5, <2>6, <2>7, <2>8
<1> QED
  BY <1>3, <1>4

LEMMA BundledCallsArrive ==
  ASSUME NEW f, IsFamilyFile(f), Resolvable(f), NEW v \in Used(f),
         NEW k \in DOMAIN Source(f, v).calls
  PROVE  \E q \in ToSet(BundleModules(f).processes) :
            /\ q.id = BundledProcess(f, v).calls[k].target
            /\ Origin(f, q) = Means(f, FileOf(f, v), Source(f, v).calls[k])
<1> DEFINE p == Source(f, v)
           c == p.calls[k]
           home == FileOf(f, v)
           b == BundleModules(f)
           pointed == PointLibraryCalls(f, home, p)
<1>1. /\ p \in BPMNProcess /\ c \in ToSet(p.calls) /\ ~CallsRefused(home)
      /\ p \in ToSet(home.processes) /\ home.processes = <<p>>
      /\ p.id = v[1] /\ home.name = PlanName(v) /\ v \in DOMAIN f.library
  BY UsedAreThere DEF ToSet
<1>2. BundledProcess(f, v).calls[k].target =
        IF pointed.calls[k].target # p.id THEN pointed.calls[k].target ELSE PlanName(v)
  BY <1>1, BundledShape
<1>3. \A w \in Used(f) : BundledProcess(f, w) \in ToSet(b.processes)
  BY BundleHolds
<1>4. CASE IsModuleCall(home, p.id, c)
  <2> DEFINE w == Version(f, Key(c))
  <2>1. Key(c) \in ModuleCalls(home) /\ (c.binding = "versionTag" \/ ~IsLocal(home, c))
    BY <1>1, <1>4, CallsLeadSomewhere
  <2>2. Key(c) \in AllKeys(f)
    <3>1. PICK key \in AllKeys(f) : v = Version(f, key)
      BY DEF Used
    <3> QED
      BY <1>1, <2>1, <3>1, UsedCallsAreKeys
  <2>3. pointed.calls[k].target = PlanName(w)
    BY <1>1, <1>4, <2>2, PointedCalls
  <2>4. w \in Used(f) /\ BundledProcess(f, w).id = PlanName(w) /\ Origin(f, BundledProcess(f, w)) = Means(f, home, c)
    BY <2>1, <2>2, LibraryCallArrives
  <2>5. PlanName(w) # p.id
    BY <1>1, <2>4, UsedAreThere DEF IsFamilyFile, NamesAreNew
  <2> QED
    BY <1>2, <1>3, <2>3, <2>4, <2>5
<1>5. CASE ~IsModuleCall(home, p.id, c)
  <2>1. IsLocal(home, c) /\ c.binding # "versionTag"
    BY <1>1, <1>5, CallsLeadSomewhere
  <2>2. c.target = p.id
    BY <1>1, <2>1 DEF IsLocal, IdsIn, ToSet
  <2>3. pointed.calls[k] = c
    BY <1>1, <1>5, PointedCalls
  <2>4. BundledProcess(f, v).calls[k].target = PlanName(v)
    BY <1>2, <2>2, <2>3
  <2>5. BundledProcess(f, v).id = PlanName(v) /\ Origin(f, BundledProcess(f, v)) = <<PlanName(v), v[1]>>
    BY <1>1, BundledShape, OriginOfBundled
  <2>6. Means(f, home, c) = <<PlanName(v), v[1]>>
    BY <1>1, <2>1, <2>2 DEF Means
  <2> QED
    BY <1>3, <2>4, <2>5, <2>6
<1> QED
  BY <1>4, <1>5

-----------------------------------------------------------------------------
(* What the references of a bundle name *)

LEMMA RenamedNames ==
  ASSUME NEW f, NEW v, FileOf(f, v) \in BPMNFile,
         NEW d \in RenamedDeclarations(FileOf(f, v), PlanName(v))
  PROVE  \E e \in FileOf(f, v).declares :
            /\ d.id = OwnName(PlanName(v), e.id) /\ d.text = e.text
            /\ e.id \in NamesIn(FileOf(f, v)) /\ d.id \in NewNames(f, v)
<1>1. PICK e \in FileOf(f, v).declares : d = [e EXCEPT !.id = OwnName(PlanName(v), e.id)]
  BY DEF RenamedDeclarations
<1>2. e \in [id: Id, text: STRING]
  BY DEF BPMNFile
<1>3. d.id = OwnName(PlanName(v), e.id) /\ d.text = e.text
  BY <1>1, <1>2
<1> QED
  BY <1>3 DEF NamesIn, NewNames

LEMMA OwnReferencesKept ==
  ASSUME NEW f, IsFamilyFile(f), Resolvable(f), Used(f) # {}, NEW ref \in NamesIn(f.main)
  PROVE  Declared(BundleModules(f), ref) = Declared(f.main, ref)
<1>1. BundleModules(f).declares = f.main.declares
        \cup UNION {RenamedDeclarations(FileOf(f, v), PlanName(v)) : v \in Used(f)}
  BY BundleHolds
<1>2. ASSUME NEW v \in Used(f), NEW d \in RenamedDeclarations(FileOf(f, v), PlanName(v))
      PROVE  d.id # ref
  <2>1. d.id \in NewNames(f, v)
    BY UsedAreThere, RenamedNames
  <2> QED
    BY <2>1, UsedAreThere DEF IsFamilyFile, NamesAreNew
<1> QED
  BY <1>1, <1>2 DEF Declared

LEMMA BundledReferencesKept ==
  ASSUME NEW f, IsFamilyFile(f), Resolvable(f), NEW v \in Used(f), NEW ref \in NamesIn(FileOf(f, v))
  PROVE  Declared(BundleModules(f), OwnName(PlanName(v), ref)) = Declared(FileOf(f, v), ref)
<1> DEFINE new == OwnName(PlanName(v), ref)
           file == FileOf(f, v)
<1>1. BundleModules(f).declares = f.main.declares
        \cup UNION {RenamedDeclarations(FileOf(f, w), PlanName(w)) : w \in Used(f)}
  BY BundleHolds
<1>2. new \in NewNames(f, v) /\ v \in DOMAIN f.library /\ Used(f) \subseteq DOMAIN f.library
  BY UsedAreThere DEF NewNames
<1>3. \A d \in f.main.declares : d.id # new
  BY <1>2 DEF IsFamilyFile, NamesAreNew, NamesIn
<1>4. ASSUME NEW w \in Used(f) \ {v}, NEW d \in RenamedDeclarations(FileOf(f, w), PlanName(w))
      PROVE  d.id # new
  <2>1. d.id \in NewNames(f, w)
    BY UsedAreThere, RenamedNames
  <2> QED
    BY <1>2, <2>1 DEF IsFamilyFile, NamesAreNew
<1>5. Declared(BundleModules(f), new) =
        {d.text : d \in {e \in RenamedDeclarations(file, PlanName(v)) : e.id = new}}
  BY <1>1, <1>3, <1>4 DEF Declared
<1>6. ASSUME NEW d \in RenamedDeclarations(file, PlanName(v)), d.id = new
      PROVE  d.text \in Declared(file, ref)
  <2>1. PICK e \in file.declares : /\ d.id = OwnName(PlanName(v), e.id) /\ d.text = e.text
                                    /\ e.id \in NamesIn(file)
    BY UsedAreThere, RenamedNames
  <2>2. e.id = ref
    BY <1>2, <1>6, <2>1 DEF IsFamilyFile, NamesAreNew
  <2> QED
    BY <2>1, <2>2 DEF Declared
<1>7. ASSUME NEW e \in file.declares, e.id = ref
      PROVE  \E d \in RenamedDeclarations(file, PlanName(v)) : d.id = new /\ d.text = e.text
  <2>1. e \in [id: Id, text: STRING]
    BY UsedAreThere DEF BPMNFile
  <2>2. [e EXCEPT !.id = OwnName(PlanName(v), e.id)] \in RenamedDeclarations(file, PlanName(v))
    BY DEF RenamedDeclarations
  <2> QED
    BY <1>7, <2>1, <2>2
<1> HIDE DEF new, file
<1>8. Declared(BundleModules(f), new) \subseteq Declared(file, ref)
  BY <1>5, <1>6
<1>9. Declared(file, ref) \subseteq Declared(BundleModules(f), new)
  BY <1>5, <1>7 DEF Declared
<1> QED
  BY <1>8, <1>9 DEF new, file

-----------------------------------------------------------------------------
(* What the bundle of a file promises, process by process. *)
KeptIn(f, b, i) ==
  LET p == b.processes[i]
      home == HomeOf(f, p)
      written == AsWritten(f, i, p)
  IN /\ \A k \in DOMAIN p.calls :
          \E q \in ToSet(b.processes) :
             /\ q.id = p.calls[k].target
             /\ Origin(f, q) = Means(f, home, written.calls[k])
     /\ \A k \in DOMAIN p.refs : Declared(b, p.refs[k]) = Declared(home, written.refs[k])

(* A document that calls no module is left as it is. *)
LEMMA PlainFilesStay ==
  ASSUME NEW f, Used(f) = {}
  PROVE  BundleModules(f) = f.main
<1>1. SetToSeq(Used(f)) \in Seq({})
  BY SetAsSequence, FS_EmptySet
<1>2. SetToSeq(Used(f)) = <<>>
  BY <1>1
<1> QED
  BY <1>2 DEF BundleModules, Used

LEMMA PlainFilesAreKept ==
  ASSUME NEW f, IsFamilyFile(f), Resolvable(f), Used(f) = {}, NEW i \in DOMAIN f.main.processes
  PROVE  KeptIn(f, f.main, i)
<1> DEFINE p == f.main.processes[i]
<1>1. /\ p \in BPMNProcess /\ p \in ToSet(f.main.processes) /\ ~CallsRefused(f.main)
      /\ \A o \in ToSet(f.main.processes) : o.library = FALSE
  <2>1. \A o \in ToSet(f.main.processes) : o \in BPMNProcess
    BY DEF IsFamilyFile, BPMNFile, ToSet
  <2>2. \A o \in BPMNProcess : o.library = FALSE
    BY DEF BPMNProcess
  <2>3. p \in ToSet(f.main.processes)
    BY DEF ToSet
  <2>4. ~CallsRefused(f.main)
    BY DEF Resolvable
  <2> QED
    BY <2>1, <2>2, <2>3, <2>4
<1>2. HomeOf(f, p) = f.main /\ AsWritten(f, i, p) = p
  BY <1>1 DEF HomeOf, AsWritten
<1>3. ASSUME NEW k \in DOMAIN p.calls
      PROVE  \E q \in ToSet(f.main.processes) :
                q.id = p.calls[k].target /\ Origin(f, q) = Means(f, f.main, p.calls[k])
  <2> DEFINE c == p.calls[k]
  <2>1. c \in ToSet(p.calls)
    BY DEF ToSet
  <2>2. Key(c) \notin ModuleCalls(f.main)
    BY OwnCallsAreKeys DEF Used
  <2>3. IsLocal(f.main, c) /\ c.binding # "versionTag"
    BY <1>1, <2>1, <2>2, CallsLeadSomewhere
  <2>4. PICK q \in ToSet(f.main.processes) : q.id = c.target
    BY <2>3 DEF IsLocal, IdsIn
  <2>5. Origin(f, q) = <<f.main.name, c.target>> /\ Means(f, f.main, c) = <<f.main.name, c.target>>
    BY <1>1, <2>3, <2>4 DEF Origin, Means
  <2> QED
    BY <2>4, <2>5
<1> QED
  BY <1>2, <1>3 DEF KeptIn

(* A process of the workflow keeps its place. *)
LEMMA OwnAreKept ==
  ASSUME NEW f, IsFamilyFile(f), Resolvable(f), Used(f) # {}, NEW i \in DOMAIN f.main.processes
  PROVE  KeptIn(f, BundleModules(f), i)
<1> DEFINE p == f.main.processes[i]
           b == BundleModules(f)
<1>1. p \in BPMNProcess /\ p \in ToSet(f.main.processes)
  BY DEF IsFamilyFile, BPMNFile, ToSet
<1>2. b.processes[i] = Own(f, p)
  BY BundleHolds
<1>3. Own(f, p).library = FALSE /\ Own(f, p).refs = p.refs
  BY <1>1, OwnShape
<1>4. DOMAIN Own(f, p).calls = DOMAIN p.calls
  <2>1. Own(f, p).calls = PointLibraryCalls(f, f.main, p).calls
    BY <1>1, OwnShape
  <2> QED
    BY <1>1, <2>1, PointedCalls
<1>5. HomeOf(f, Own(f, p)) = f.main /\ AsWritten(f, i, Own(f, p)) = p
  BY <1>3 DEF HomeOf, AsWritten
<1>6. ASSUME NEW k \in DOMAIN p.calls
      PROVE  \E q \in ToSet(b.processes) :
                /\ q.id = Own(f, p).calls[k].target
                /\ Origin(f, q) = Means(f, f.main, p.calls[k])
  BY <1>1, OwnCallsArrive
<1>7. ASSUME NEW k \in DOMAIN p.refs
      PROVE  Declared(b, p.refs[k]) = Declared(f.main, p.refs[k])
  <2>1. p.refs[k] \in NamesIn(f.main)
    BY <1>1 DEF NamesIn, ToSet
  <2> QED
    BY <2>1, OwnReferencesKept
<1> HIDE DEF b, p
<1> QED
  BY <1>2, <1>3, <1>4, <1>5, <1>6, <1>7 DEF KeptIn, b

LEMMA BundledAreKept ==
  ASSUME NEW f, IsFamilyFile(f), Resolvable(f), NEW v \in Used(f),
         NEW i, BundleModules(f).processes[i] = BundledProcess(f, v)
  PROVE  KeptIn(f, BundleModules(f), i)
<1> DEFINE p == Source(f, v)
           q == BundledProcess(f, v)
           b == BundleModules(f)
<1>1. p \in BPMNProcess /\ FileOf(f, v).processes = <<p>>
  BY UsedAreThere
<1>2. HomeOf(f, q) = FileOf(f, v) /\ AsWritten(f, i, q) = p
  BY OriginOfBundled
<1>3. /\ DOMAIN q.calls = DOMAIN p.calls /\ DOMAIN q.refs = DOMAIN p.refs
      /\ \A k \in DOMAIN p.refs : q.refs[k] = OwnName(PlanName(v), p.refs[k])
  BY <1>1, BundledShape
<1>4. ASSUME NEW k \in DOMAIN p.calls
      PROVE  \E o \in ToSet(b.processes) :
                o.id = q.calls[k].target /\ Origin(f, o) = Means(f, FileOf(f, v), p.calls[k])
  BY BundledCallsArrive
<1>5. ASSUME NEW k \in DOMAIN p.refs
      PROVE  Declared(b, q.refs[k]) = Declared(FileOf(f, v), p.refs[k])
  <2>1. p \in ToSet(FileOf(f, v).processes)
    BY <1>1 DEF ToSet
  <2>2. p.refs[k] \in NamesIn(FileOf(f, v))
    BY <2>1 DEF NamesIn, ToSet
  <2>3. Declared(b, OwnName(PlanName(v), p.refs[k])) = Declared(FileOf(f, v), p.refs[k])
    BY <2>2, BundledReferencesKept
  <2> QED
    BY <1>3, <2>3
<1>6. b.processes[i] = q
  OBVIOUS
<1> HIDE DEF b, p, q
<1> QED
  BY <1>2, <1>3, <1>4, <1>5, <1>6 DEF KeptIn, b

LEMMA BundlesKeepMeaning ==
  ASSUME NEW f, IsFamilyFile(f), Resolvable(f), NEW i \in DOMAIN BundleModules(f).processes
  PROVE  KeptIn(f, BundleModules(f), i)
<1>1. CASE Used(f) = {}
  BY <1>1, PlainFilesStay, PlainFilesAreKept
<1>2. CASE Used(f) # {}
  <2> DEFINE n == Len(f.main.processes)
  <2>1. /\ DOMAIN f.main.processes = 1..n
        /\ i \notin 1..n => \E v \in Used(f) : BundleModules(f).processes[i] = BundledProcess(f, v)
    BY <1>2, BundleHolds
  <2>2. CASE i \in 1..n
    BY <1>2, <2>1, <2>2, OwnAreKept
  <2>3. CASE i \notin 1..n
    BY <2>1, <2>3, BundledAreKept
  <2> QED
    BY <2>2, <2>3
<1> QED
  BY <1>1, <1>2

-----------------------------------------------------------------------------
(* The invariant of the join *)

JoinInv ==
  /\ IsFamilyFile(files)
  /\ joining = "joined" => joined = BundleModules(files) /\ Resolvable(files)

LEMMA JoinInductive == JoinSpec => []JoinInv
<1>1. JoinInit => JoinInv
  BY FilesAreFiles DEF JoinInit, JoinInv, IsFamilyFile
<1>2. JoinInv /\ [Join]_joinVars => JoinInv'
  <2> SUFFICES ASSUME JoinInv, [Join]_joinVars
               PROVE  JoinInv'
    OBVIOUS
  <2>1. CASE Join
    BY <2>1 DEF Join, JoinInv
  <2>2. CASE UNCHANGED joinVars
    BY <2>2 DEF joinVars, JoinInv
  <2> QED
    BY <2>1, <2>2
<1> QED
  BY <1>1, <1>2, PTL DEF JoinSpec

(* A bundle means what its files mean (bundleModules, pointLibraryCalls,     *)
(* pointSelfCalls, bundleDefinitions): every call leads to the process it    *)
(* led to in the file it was written in and every reference names what that  *)
(* file declares, for every document and library whose names are new.        *)
THEOREM BundleKeepsMeaning == JoinSpec => []BundleMeansTheSame
<1>1. JoinInv => BundleMeansTheSame
  BY BundlesKeepMeaning DEF JoinInv, BundleMeansTheSame, KeptIn
<1> QED
  BY <1>1, JoinInductive, PTL
=============================================================================
