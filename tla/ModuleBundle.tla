---------------------------- MODULE ModuleBundle ----------------------------
(* How a workflow's document and the library modules it calls become one     *)
(* document (internal/bpmn_compiler/modules.go, bundle.go): a module version *)
(* is copied under its plan name, and every call and every reference to a    *)
(* message or an error is renamed to what it meant in its own file.          *)
(*                                                                           *)
(* A file is [processes, declares]: its processes in order and the messages  *)
(* and errors it declares.  A process is [id, calls, refs, library]; a call  *)
(* is [id, target, binding, tag].  A library is a function from              *)
(* <<process id, version number>> to the file of that published version.     *)
EXTENDS Naturals, Sequences, FiniteSets, FiniteSetsExt, SequencesExt, TLC

CONSTANTS Files     \* sequence of families of [main, library, latest]

VARIABLES files, joined, joining
joinVars == <<files, joined, joining>>

NoFile == [processes |-> <<>>, declares |-> {}]
IdsIn(file) == {p.id : p \in ToSet(file.processes)}
PlanName(version) == version[1] \o "@v" \o ToString(version[2])

-----------------------------------------------------------------------------
(* moduleCall: what a call means in the file it is written in.               *)
IsLocal(home, c) == c.target \in IdsIn(home)

Unusable(home, caller, c) ==
  \/ c.binding = "deployment" /\ ~IsLocal(home, c)
  \/ c.binding = "versionTag" /\ (c.tag < 1 \/ (IsLocal(home, c) /\ c.target # caller))

IsModuleCall(home, caller, c) ==
  /\ ~Unusable(home, caller, c)
  /\ c.binding = "versionTag" \/ (c.binding = "latest" /\ ~IsLocal(home, c))
Key(c) == <<c.target, IF c.binding = "versionTag" THEN c.tag ELSE 0>>

ModuleCalls(file) ==
  UNION {{Key(c) : c \in {d \in ToSet(p.calls) : IsModuleCall(file, p.id, d)}} :
         p \in ToSet(file.processes)}
CallsRefused(file) ==
  \E p \in ToSet(file.processes) : \E c \in ToSet(p.calls) : Unusable(file, p.id, c)

-----------------------------------------------------------------------------
(* resolve, without the database: the versions the calls lead to.            *)
Version(f, key) == IF key[2] = 0 /\ key[1] \in DOMAIN f.latest THEN <<key[1], f.latest[key[1]]>> ELSE key
FileOf(f, version) == f.library[version]

KeysFrom(f, keys) ==
  keys \cup UNION {ModuleCalls(FileOf(f, Version(f, k))) :
                   k \in {key \in keys : Version(f, key) \in DOMAIN f.library}}
AllKeys(f) ==
  LET own == ModuleCalls(f.main)
      others == UNION {ModuleCalls(FileOf(f, v)) : v \in DOMAIN f.library}
      closed == {keys \in SUBSET others : KeysFrom(f, own \cup keys) \subseteq own \cup keys}
  IN own \cup {key \in others : \A keys \in closed : key \in keys}

Resolvable(f) ==
  LET versions == {Version(f, key) : key \in AllKeys(f)}
  IN /\ ~CallsRefused(f.main)
     /\ \A v \in versions : v \in DOMAIN f.library /\ ~CallsRefused(FileOf(f, v))

PlanFor(f) == [key \in AllKeys(f) |-> PlanName(Version(f, key))]

-----------------------------------------------------------------------------
(* pointLibraryCalls reads a call as the file it comes from does.            *)
HomeIsMain(f, home) == f.main
Home(f, home) == home
PointLibraryCalls(f, file, p) ==
  LET plans == PlanFor(f)
      Point(c) == IF IsModuleCall(Home(f, file), p.id, c) /\ Key(c) \in DOMAIN plans
                  THEN [c EXCEPT !.target = plans[Key(c)], !.binding = "latest", !.tag = 0]
                  ELSE c
  IN [p EXCEPT !.calls = [i \in DOMAIN @ |-> Point(@[i])]]

(* pointSelfCalls: what still names the module's own process.                *)
SelfCallsKept(p, name) == p
PointSelfCalls(p, name) ==
  [p EXCEPT !.calls =
     [i \in DOMAIN @ |-> IF @[i].target # p.id THEN @[i]
                         ELSE [@[i] EXCEPT !.target = name, !.binding = "latest", !.tag = 0]]]

(* bundleDefinitions, renameRefs: a module's declarations come with it under *)
(* its plan name, and its references follow.                                 *)
OwnName(name, id) == name \o "/" \o id
RenamedRefs(p, name) == [p EXCEPT !.refs = [i \in DOMAIN @ |-> OwnName(name, @[i])]]
RenamedDeclarations(file, name) ==
  {[d EXCEPT !.id = OwnName(name, d.id)] : d \in file.declares}

BundledProcess(f, v) ==
  LET file == FileOf(f, v)
      p == PointSelfCalls(PointLibraryCalls(f, file, file.processes[1]), PlanName(v))
  IN [RenamedRefs(p, PlanName(v)) EXCEPT !.id = PlanName(v), !.library = TRUE]

(* bundleModules; the order of the modules is the order they were met in.    *)
BundleModules(f) ==
  LET versions == SetToSeq({Version(f, key) : key \in AllKeys(f)})
      Own(p) == [PointLibraryCalls(f, f.main, p) EXCEPT !.library = FALSE]
      mains == [i \in DOMAIN f.main.processes |-> Own(f.main.processes[i])]
  IN IF versions = <<>> THEN f.main
     ELSE [processes |-> mains \o [i \in DOMAIN versions |-> BundledProcess(f, versions[i])],
           declares |-> f.main.declares
                          \cup UNION {RenamedDeclarations(FileOf(f, v), PlanName(v)) : v \in ToSet(versions)}]

-----------------------------------------------------------------------------
(* What the parser gives and the library holds: a version is a file of one   *)
(* process, the module's, and no name an author gives has the form of a plan *)
(* name (call_graph.go cuts a plan name at its @v) or of a renamed           *)
(* declaration, as XML ids have neither @ nor /.  References and             *)
(* declarations are the ones with an id: an empty one stays empty.           *)
Id == STRING \ {""}
BPMNCall == [id: STRING, target: STRING, binding: {"latest", "versionTag", "deployment"}, tag: Nat]
BPMNProcess == [id: STRING, calls: Seq(BPMNCall), refs: Seq(Id), library: {FALSE}]
BPMNFile == [name: STRING, processes: Seq(BPMNProcess), declares: SUBSET [id: Id, text: STRING]]

NamesIn(file) == {d.id : d \in file.declares} \cup UNION {ToSet(p.refs) : p \in ToSet(file.processes)}
NewNames(f, v) == {OwnName(PlanName(v), x) : x \in NamesIn(FileOf(f, v))}

IsLibrary(f) ==
  /\ IsFiniteSet(DOMAIN f.library)
  /\ \A v \in DOMAIN f.library :
        /\ FileOf(f, v) \in BPMNFile /\ FileOf(f, v).name = PlanName(v)
        /\ Len(FileOf(f, v).processes) = 1 /\ FileOf(f, v).processes[1].id = v[1]
NamesAreNew(f) ==
  \A v \in DOMAIN f.library :
    /\ \A w \in DOMAIN f.library : PlanName(v) # w[1] /\ (PlanName(v) = PlanName(w) => v = w)
    /\ \A w \in DOMAIN f.library \ {v} : NewNames(f, v) \cap NewNames(f, w) = {}
    /\ NewNames(f, v) \cap NamesIn(f.main) = {}
    /\ \A x, y \in NamesIn(FileOf(f, v)) : OwnName(PlanName(v), x) = OwnName(PlanName(v), y) => x = y

ASSUME FilesAreFiles ==
  \A family \in DOMAIN Files : \A f \in Files[family] :
    f.main \in BPMNFile /\ IsLibrary(f) /\ NamesAreNew(f)

-----------------------------------------------------------------------------
JoinInit ==
  /\ \E family \in DOMAIN Files : files \in Files[family]
  /\ joined = NoFile /\ joining = "read"

Join ==
  /\ joining = "read"
  /\ IF Resolvable(files)
     THEN joined' = BundleModules(files) /\ joining' = "joined"
     ELSE joining' = "refused" /\ UNCHANGED joined
  /\ UNCHANGED files

JoinSpec == JoinInit /\ [][Join]_joinVars

-----------------------------------------------------------------------------
(* What a bundle promises.                                                   *)

(* Where a call of a process leads, read in its own file: the process of     *)
(* that file, or the published version of the library.                       *)
Means(f, home, c) ==
  IF c.binding # "versionTag" /\ IsLocal(home, c) THEN <<home.name, c.target>>
  ELSE <<PlanName(Version(f, Key(c))), c.target>>

(* Which of them a process of the bundle is, and how it was written.         *)
VersionOf(f, p) == CHOOSE v \in DOMAIN f.library : PlanName(v) = p.id
Origin(f, p) == IF p.library THEN <<p.id, VersionOf(f, p)[1]>> ELSE <<f.main.name, p.id>>
HomeOf(f, p) == IF p.library THEN FileOf(f, VersionOf(f, p)) ELSE f.main
AsWritten(f, i, p) == HomeOf(f, p).processes[IF p.library THEN 1 ELSE i]

IdsAreDistinct(processes) ==
  \A i, j \in DOMAIN processes : processes[i].id = processes[j].id => i = j
Declared(file, ref) == {d.text : d \in {e \in file.declares : e.id = ref}}

(* In a bundle whose process ids are distinct, every call leads to the       *)
(* process it led to in its own file, and every reference to the message or  *)
(* error that file declares, though the files use the same ids and a module  *)
(* may pin an older version of itself (bundleModules).                       *)
BundleMeansTheSame ==
  joining = "joined" /\ IdsAreDistinct(joined.processes) =>
    \A i \in DOMAIN joined.processes :
      LET p == joined.processes[i]
          home == HomeOf(files, p)
          written == AsWritten(files, i, p)
      IN /\ \A k \in DOMAIN p.calls :
              \E q \in ToSet(joined.processes) :
                 /\ q.id = p.calls[k].target
                 /\ Origin(files, q) = Means(files, home, written.calls[k])
         /\ \A k \in DOMAIN p.refs :
              Declared(joined, p.refs[k]) = Declared(home, written.refs[k])
=============================================================================
