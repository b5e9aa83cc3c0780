---------------------------- MODULE ModuleCatalog ----------------------------
(***************************************************************************)
(* The module library (service/module_service.go) and the resolution of    *)
(* the calls into it (service/module_resolution.go).  Users create modules,*)
(* add drafts, publish and archive, and publish workflows that call them.  *)
(* A document is the sequence of its library calls <<process id, version>>,*)
(* version 0 naming the latest.  Each lookup of a walk is a statement of   *)
(* its own; a transaction body is one step, since it is serializable and   *)
(* retried.                                                                *)
(***************************************************************************)
EXTENDS Naturals, FiniteSets, FiniteSetsExt, Sequences, SequencesExt

CONSTANTS
    Users,          \* concurrent requests
    Modules,        \* the modules that may come to exist: <<scope, process id>>
    Documents,      \* [Modules -> SUBSET Seq(calls)]: what authors write
    Workflows,      \* documents of the workflows that are published
    Tenant,         \* the tenant whose users these are
    MaxVersions,    \* bound: versions of a module
    MaxSnapshots    \* bound: workflow versions published

Global == "global"
Scope(m) == m[1]
ProcessId(m) == m[2]

VARIABLES
    versions,       \* workflow_module_version, per module in order of creation
    active,         \* active_version_id: 0 while NULL
    exists,         \* workflow_module
    user,           \* each request
    snapshots       \* published workflow versions: what they called and resolved

catalogVars == <<versions, active, exists, user, snapshots>>
tables == <<versions, active, exists>>

Idle == [at |-> "idle", op |-> "none", module |-> CHOOSE m \in Modules : TRUE, version |-> 0,
         doc |-> <<>>, todo |-> <<>>, resolved |-> {}]
Calls == {ProcessId(m) : m \in Modules} \X (0 .. MaxVersions)
Resolved == [key: Calls, module: Modules, version: 1 .. MaxVersions]

(* A module is its scope and its process id; what is written names modules   *)
(* by their process ids; there is a module to create.                        *)
Authors ==
    /\ Modules # {} /\ MaxVersions \in Nat
    /\ \A m \in Modules : m = <<Scope(m), ProcessId(m)>>
    /\ Documents \in [Modules -> SUBSET Seq(Calls)]
    /\ Workflows \in SUBSET Seq(Calls)
ASSUME AuthorsWrite == Authors

CatalogTypeOK ==
    /\ \A m \in Modules :
          /\ Len(versions[m]) <= MaxVersions
          /\ \A i \in DOMAIN versions[m] :
                versions[m][i] \in [doc: Documents[m], number: 0 .. MaxVersions,
                                    status: {"DRAFT", "PUBLISHED", "ARCHIVED"}]
          /\ active[m] \in 0 .. Len(versions[m])
    /\ exists \in SUBSET Modules
    /\ \A u \in Users : user[u].resolved \in SUBSET Resolved /\ user[u].module \in Modules
    /\ \A s \in snapshots : s.resolved \in SUBSET Resolved

CatalogInit ==
    /\ versions = [m \in Modules |-> <<>>]
    /\ active = [m \in Modules |-> 0]
    /\ exists = {}
    /\ user = [u \in Users |-> Idle]
    /\ snapshots = {}

-----------------------------------------------------------------------------
(* The tables. *)
Draft(doc) == [doc |-> doc, number |-> 0, status |-> "DRAFT"]
HasDraft(m) == \E i \in DOMAIN versions[m] : versions[m][i].status = "DRAFT"
Number(m, i) == versions[m][i].number
NextNumber(m) == Max({Number(m, i) : i \in DOMAIN versions[m]} \cup {0}) + 1

(* ModuleProcessIDInUse: a global module meets every module, a tenant's      *)
(* module the tenant's own and the global ones.                              *)
InUseInScope(m) == \E o \in exists : ProcessId(o) = ProcessId(m) /\ Scope(o) = Scope(m)
InUse(m) ==
    \E o \in exists :
        /\ ProcessId(o) = ProcessId(m)
        /\ Scope(m) = Global \/ Scope(o) \in {Global, Scope(m)}

(* Whom a walk resolves as: a global module's calls see global modules only. *)
ResolveAs(u) == IF user[u].op # "workflow" /\ Scope(user[u].module) = Global
                THEN Global ELSE Tenant

(* ResolveModuleVersion: of a module that is visible and not archived, the   *)
(* version with the number, or the active one.                               *)
Names(scope, call, m, i) ==
    /\ ProcessId(m) = call[1] /\ Scope(m) \in {Global, scope} /\ active[m] # 0
    /\ i \in DOMAIN versions[m] /\ Number(m, i) # 0
    /\ IF call[2] = 0 THEN i = active[m] ELSE Number(m, i) = call[2]
Found(scope, call) == {f \in Modules \X (1 .. MaxVersions) : Names(scope, call, f[1], f[2])}
OwnFirst(found) == {f \in found : Scope(f[1]) # Global \/ \A g \in found : Scope(g[1]) = Global}

-----------------------------------------------------------------------------
(* Requests.  Every one but an archive walks the calls of its document.      *)
Begin(u, op, m, i, doc) ==
    /\ user[u].at = "idle"
    /\ user' = [user EXCEPT ![u] = [Idle EXCEPT !.at = "walk", !.op = op, !.module = m,
                                                !.version = i, !.doc = doc, !.todo = doc]]
    /\ UNCHANGED <<tables, snapshots>>

BeginCreate(u) == \E m \in Modules : \E doc \in Documents[m] : Begin(u, "create", m, 0, doc)

(* AddVersion, with a document or, resolveVersionXML, the active version's.  *)
BeginAdd(u) ==
    \E m \in exists : \E doc \in Documents[m] : Begin(u, "add", m, 0, doc)
BeginCopy(u) ==
    \E m \in exists : active[m] # 0 /\ Begin(u, "add", m, 0, versions[m][active[m]].doc)

BeginPublish(u) ==
    \E m \in exists : \E i \in DOMAIN versions[m] :
        /\ versions[m][i].status = "DRAFT"
        /\ Begin(u, "publish", m, i, versions[m][i].doc)

BeginWorkflow(u) == \E doc \in Workflows : Begin(u, "workflow", Idle.module, 0, doc)

ReadArchive(u) ==
    /\ user[u].at = "idle"
    /\ \E m \in exists :
          /\ active[m] # 0
          /\ user' = [user EXCEPT ![u] = [Idle EXCEPT !.at = "commit", !.op = "archive",
                                                      !.module = m, !.version = active[m]]]
    /\ UNCHANGED <<tables, snapshots>>

(* visit: the next call of the walk.  A module that calls itself at its      *)
(* latest version, and a call that names nothing, refuse the document; a     *)
(* version that is met the first time queues its own calls.                  *)
CallsItself(u, call) ==
    user[u].op # "workflow" /\ call = <<ProcessId(user[u].module), 0>>
Known(u, call) == \E r \in user[u].resolved : r.key = call
Refuse(u) == user' = [user EXCEPT ![u] = Idle]
Met(u, m, i) == \E r \in user[u].resolved : r.module = m /\ r.version = i

Visit(u) ==
    /\ user[u].at = "walk" /\ user[u].todo # <<>>
    /\ LET call == Head(user[u].todo)
           rest == Tail(user[u].todo)
           found == OwnFirst(Found(ResolveAs(u), call))
       IN \/ CallsItself(u, call) /\ Refuse(u)
          \/ ~CallsItself(u, call) /\ Known(u, call)
             /\ user' = [user EXCEPT ![u].todo = rest]
          \/ ~CallsItself(u, call) /\ ~Known(u, call) /\ found = {} /\ Refuse(u)
          \/ /\ ~CallsItself(u, call) /\ ~Known(u, call)
             /\ \E f \in found :
                   user' = [user EXCEPT
                     ![u].resolved = @ \cup {[key |-> call, module |-> f[1], version |-> f[2]]},
                     ![u].todo = IF Met(u, f[1], f[2]) THEN rest
                                 ELSE rest \o versions[f[1]][f[2]].doc]
    /\ UNCHANGED <<tables, snapshots>>

(* The compiler's ValidateCallGraph over the bundle: a document none of      *)
(* whose calls leads back to itself.                                         *)
Versions(s) == {<<r.module, r.version>> : r \in s.resolved}
LeadsTo(s, v, w) ==
    \E r \in s.resolved :
        <<r.module, r.version>> = w /\ r.key \in ToSet(versions[v[1]][v[2]].doc)
Acyclic(s) ==
    \A set \in SUBSET Versions(s) :
        set # {} => \E v \in set : \A w \in set : ~LeadsTo(s, v, w)

ExpandsUnchecked(s) == TRUE
Expands(s) == Acyclic(s)
WalkDone(u) ==
    /\ user[u].at = "walk" /\ user[u].todo = <<>>
    /\ IF Expands(user[u]) THEN user' = [user EXCEPT ![u].at = "commit"] ELSE Refuse(u)
    /\ UNCHANGED <<tables, snapshots>>

-----------------------------------------------------------------------------
(* The commits.  Each ends the request, in vain if a guard fails.            *)
Commit(u, op) == user[u].at = "commit" /\ user[u].op = op /\ Refuse(u)

CreateCommit(u) ==
    LET m == user[u].module
    IN /\ Commit(u, "create")
       /\ IF InUse(m) THEN UNCHANGED tables
          ELSE /\ exists' = exists \cup {m}
               /\ versions' = [versions EXCEPT ![m] = <<Draft(user[u].doc)>>]
               /\ UNCHANGED active
       /\ UNCHANGED snapshots

(* One statement; idx_mv_single_draft refuses a second draft. *)
AddCommit(u) ==
    LET m == user[u].module
    IN /\ Commit(u, "add")
       /\ IF HasDraft(m) \/ Len(versions[m]) = MaxVersions THEN UNCHANGED versions
          ELSE versions' = [versions EXCEPT ![m] = Append(@, Draft(user[u].doc))]
       /\ UNCHANGED <<active, exists, snapshots>>

(* The draft was validated before; what was published since is not looked at.*)
PublishCommit(u) ==
    LET m == user[u].module
        i == user[u].version
    IN /\ Commit(u, "publish")
       /\ IF versions[m][i].status # "DRAFT" THEN UNCHANGED tables
          ELSE /\ versions' = [versions EXCEPT ![m][i].status = "PUBLISHED",
                                               ![m][i].number = NextNumber(m)]
               /\ active' = [active EXCEPT ![m] = i]
               /\ UNCHANGED exists
       /\ UNCHANGED snapshots

(* Archive takes the version that is active in the transaction, not the one  *)
(* it read before.                                                           *)
ArchivedAsRead(u) == user[u].version
Archived(u) == active[user[u].module]
ArchiveCommit(u) ==
    LET m == user[u].module
        i == Archived(u)
    IN /\ Commit(u, "archive")
       /\ IF i = 0 \/ versions[m][i].status # "PUBLISHED" THEN UNCHANGED tables
          ELSE /\ versions' = [versions EXCEPT ![m][i].status = "ARCHIVED"]
               /\ active' = [active EXCEPT ![m] = 0]
               /\ UNCHANGED exists
       /\ UNCHANGED snapshots

(* A workflow version keeps what it resolved as its module_refs. *)
WorkflowCommit(u) ==
    /\ Commit(u, "workflow")
    /\ snapshots' = IF Cardinality(snapshots) < MaxSnapshots
                    THEN snapshots \cup {[doc |-> user[u].doc, resolved |-> user[u].resolved]}
                    ELSE snapshots
    /\ UNCHANGED tables

-----------------------------------------------------------------------------
(* snapshot: the version a call of a published workflow resolves to, of      *)
(* those in its module_refs; the highest number for a call of the latest.    *)
RefNumber(r) == Number(r.module, r.version)
RefsFor(s, call) ==
    {r \in s.resolved : ProcessId(r.module) = call[1] /\ call[2] \in {0, RefNumber(r)}}
PickedLowest(s, call) ==
    {r \in RefsFor(s, call) : \A q \in RefsFor(s, call) : RefNumber(r) <= RefNumber(q)}
Picked(s, call) ==
    {r \in RefsFor(s, call) : \A q \in RefsFor(s, call) : RefNumber(r) >= RefNumber(q)}

CatalogNext ==
    \E u \in Users :
        \/ BeginCreate(u) \/ BeginAdd(u) \/ BeginCopy(u) \/ BeginPublish(u)
        \/ BeginWorkflow(u) \/ ReadArchive(u)
        \/ Visit(u) \/ WalkDone(u)
        \/ CreateCommit(u) \/ AddCommit(u) \/ PublishCommit(u) \/ ArchiveCommit(u)
        \/ WorkflowCommit(u)

CatalogSpec == CatalogInit /\ [][CatalogNext]_catalogVars

=============================================================================
