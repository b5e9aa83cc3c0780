-------------------------- MODULE WorkflowLifecycle --------------------------
(***************************************************************************)
(* The services that move a workflow through DRAFT, PUBLISHED and ARCHIVED *)
(* (WorkflowService, DraftService, VersionService, CompiledPlanService and *)
(* the revocation handler), run by several replicas at once.               *)
(*                                                                         *)
(* A request is a client's record req[c]; its pc says between which two    *)
(* database or cache calls it stands.  A SERIALIZABLE transaction, and a   *)
(* single autocommitted statement, is one step.  An error return leaves    *)
(* the tables as they are and ends the request, and so does a crash or a   *)
(* cancelled context: all of them are Abandon.                             *)
(***************************************************************************)
EXTENDS DefinitionStore

CONSTANTS
    Clients,            \* requests in flight at once
    Ops,                \* the operations this instance's clients ask for
    MaxRecordVersion,   \* bound: no save or invalidation at this record_version
    MaxRevocations      \* bound: membership revocations that occur

ASSUME BoundsAreNat == MaxRecordVersion \in Nat /\ MaxRevocations \in Nat

VARIABLES
    req,            \* the requests in flight
    draftLock,      \* Valkey key draft-lock:<tenant>:<workflow>: holder's token
    planCache,      \* Valkey keys wf:plan:<tenant>:<version> that hold an entry
    lostEvict,      \* history: versions whose archive or fill lost its eviction
    member,         \* Org & Membership: users eligible now (external)
    revoked,        \* every revocation that occurred (external)
    pending,        \* ids of the revocations not acknowledged to the consumer
    unseen          \* history: assignees no longer eligible when a publish committed

vars == <<workflow, version, assignee, req, draftLock, planCache, lostEvict,
          member, revoked, pending, unseen>>
cacheVars == <<planCache, lostEvict>>
memberVars == <<member, revoked, pending, unseen>>

Stage == {"idle", "initDraft", "cloning", "editing", "savingMeta", "saving",
          "discarding", "compiled", "eligibility", "publishing", "promoting", "archiving",
          "evicting", "revoking", "invalidating", "evictRevoked",
          "filling", "rechecking", "dropping"}

(* A revocation event; known is the set of versions whose assignee rows     *)
(* existed at the envelope's time, every version if the envelope has none.  *)
Revocation == [id: 1..MaxRevocations, user: Users, known: SUBSET Versions]

Patches == [xml: Docs \cup {None}, name: Names \cup {None}, desc: Names \cup {None}]

Request == [pc:     Stage,
            wf:     Workflows \cup {None},
            base:   Versions \cup {None},    \* the draft the client fetched
            ver:    Versions \cup {None},    \* the version the handler works on
            rv:     Nat,                     \* record_version read or sent
            xml:    Docs \cup {None},        \* document read
            active: Versions \cup {None},    \* active version read by the preflight
            force:  BOOLEAN,                 \* force_publish_structural
            meta:   Metas \cup {None},       \* name and description read
            patch:  Patches \cup {None},
            event:  Revocation \cup {None},
            todo:   SUBSET Versions,         \* versions left to invalidate
            failed: BOOLEAN]                 \* an eviction failed

Idle == [pc |-> "idle", wf |-> None, base |-> None, ver |-> None, rv |-> 0,
         xml |-> None, active |-> None, force |-> FALSE, meta |-> None,
         patch |-> None, event |-> None, todo |-> {}, failed |-> FALSE]

TypeOK ==
    /\ StoreTypeOK
    /\ req \in [Clients -> Request]
    /\ draftLock \in [Workflows -> Clients \cup {None}]
    /\ planCache \in SUBSET Versions
    /\ lostEvict \in SUBSET Versions
    /\ member \in SUBSET Users
    /\ revoked \in SUBSET Revocation
    /\ pending \in SUBSET (1..MaxRevocations)
    /\ unseen \in [Versions -> SUBSET Users]

Init ==
    /\ StoreInit
    /\ req = [c \in Clients |-> Idle]
    /\ draftLock = [w \in Workflows |-> None]
    /\ planCache = {}
    /\ lostEvict = {}
    /\ member = Users
    /\ revoked = {}
    /\ pending = {}
    /\ unseen = [v \in Versions |-> {}]

-----------------------------------------------------------------------------
(* A client starts an operation, goes on with it, or is answered. *)

At(c, stage) == req[c].pc = stage
MayStart(c, op) == At(c, "idle") /\ op \in Ops
GoTo(c, r) == req' = [req EXCEPT ![c] = r]
Done(c) == GoTo(c, Idle)

(* Mutant: a plain DEL. *)
ReleaseAnyLock(c, w) ==
    draftLock' = draftLock \/ draftLock' = [draftLock EXCEPT ![w] = None]

(* DelIfEqual(token) by c on workflow w: it may fail, and then the key stays *)
(* until its time to live.                                                   *)
ReleaseLock(c, w) ==
    \/ draftLock' = draftLock
    \/ draftLock[w] = c /\ draftLock' = [draftLock EXCEPT ![w] = None]

(* A failed or abandoned eviction is made good by a redelivery of c's event, *)
(* unless another delivery of it was, or may be, acknowledged first.         *)
Redelivered(c) ==
    /\ req[c].event.id \in pending
    /\ \A x \in Clients \ {c} : req[x].event # req[c].event

LosesEviction(c) ==
    \/ req[c].pc \in {"evicting", "rechecking", "dropping"}
    \/ At(c, "evictRevoked") /\ ~Redelivered(c)

(* Every error return, a cancelled request and a crash of the replica.  A    *)
(* save may or may not get to release its lock.  An eviction still owed by   *)
(* an archive or a fill is lost; a revocation's event stays pending.         *)
Abandon(c) ==
    /\ req[c].pc # "idle"
    /\ Done(c)
    /\ IF req[c].pc \in {"savingMeta", "saving"}
       THEN ReleaseLock(c, req[c].wf)
       ELSE UNCHANGED draftLock
    /\ lostEvict' = IF LosesEviction(c) THEN lostEvict \cup {req[c].ver} ELSE lostEvict
    /\ UNCHANGED <<tables, planCache, memberVars>>

-----------------------------------------------------------------------------
(* WorkflowService.Create: count, insert the workflow and its first draft in *)
(* one serializable transaction.                                             *)
Create(c) ==
    /\ MayStart(c, "create")
    /\ BelowQuota
    /\ \E w \in Workflows, v \in Versions, d \in Docs, n \in Names :
          InsertWorkflow(w, v, d, [name |-> n, desc |-> n])
    /\ UNCHANGED <<assignee, req, draftLock, cacheVars, memberVars>>

(* VersionService.Clone reads a source that is not a draft ... *)
CloneRead(c) ==
    /\ MayStart(c, "clone")
    /\ \E v \in Versions :
          /\ version[v].status \in Numbered
          /\ GoTo(c, [Idle EXCEPT !.pc = "cloning", !.xml = version[v].xml])
    /\ UNCHANGED <<tables, draftLock, cacheVars, memberVars>>

(* ... and registers it under a new workflow, counted as Create counts. *)
CloneCommit(c) ==
    /\ At(c, "cloning")
    /\ BelowQuota
    /\ \E w \in Workflows, v \in Versions, n \in Names :
          InsertWorkflow(w, v, req[c].xml, [name |-> n, desc |-> n])
    /\ Done(c)
    /\ UNCHANGED <<assignee, draftLock, cacheVars, memberVars>>

-----------------------------------------------------------------------------
(* DraftService.Init reads the active version and, in no transaction with    *)
(* that read and without the quota, inserts a draft with its document.       *)
InitRead(c) ==
    /\ MayStart(c, "init")
    /\ \E w \in Workflows :
          /\ workflow[w].exists
          /\ workflow[w].active # None
          /\ GoTo(c, [Idle EXCEPT !.pc = "initDraft", !.wf = w,
                                  !.xml = version[workflow[w].active].xml])
    /\ UNCHANGED <<tables, draftLock, cacheVars, memberVars>>

InitCommit(c) ==
    /\ At(c, "initDraft")
    /\ \E v \in Versions : InsertDraft(req[c].wf, v, req[c].xml)
    /\ Done(c)
    /\ UNCHANGED <<workflow, assignee, draftLock, cacheVars, memberVars>>

(* A client opens the draft in the modeler: it holds the draft's             *)
(* record_version, document, name and description from now on (external).    *)
Fetch(c) ==
    /\ MayStart(c, "update")
    /\ \E w \in Workflows, v \in Versions :
          /\ IsDraftOf(v, w)
          /\ GoTo(c, [Idle EXCEPT !.pc = "editing", !.wf = w, !.base = v,
                                  !.rv = version[v].rv, !.xml = version[v].xml,
                                  !.meta = workflow[w].meta])
    /\ UNCHANGED <<tables, draftLock, cacheVars, memberVars>>

(* A save that names the workflow anew runs in a transaction. *)
SaveStage(p) == IF p.name = None /\ p.desc = None THEN "saving" ELSE "savingMeta"

(* DraftService.Update: SetNX on the draft lock, then GetDraft by workflow   *)
(* and the token compared with the row of the draft found.                   *)
SaveBegin(c) ==
    /\ At(c, "editing")
    /\ draftLock[req[c].wf] = None
    /\ draftLock' = [draftLock EXCEPT ![req[c].wf] = c]
    /\ \E v \in Versions, p \in Patches :
          /\ IsDraftOf(v, req[c].wf)
          /\ version[v].rv = req[c].rv
          /\ req[c].rv < MaxRecordVersion
          /\ GoTo(c, [req[c] EXCEPT !.ver = v, !.patch = p, !.pc = SaveStage(p)])
    /\ UNCHANGED <<tables, cacheVars, memberVars>>

(* updateWorkflowMeta, first half: a READ COMMITTED transaction reads the    *)
(* workflow row for the field the request does not give.                     *)
SaveReadMeta(c) ==
    /\ At(c, "savingMeta")
    /\ LET p == req[c].patch
           m == workflow[req[c].wf].meta
       IN  GoTo(c, [req[c] EXCEPT !.pc = "saving",
                       !.patch = [p EXCEPT !.name = IF @ = None THEN m.name ELSE @,
                                           !.desc = IF @ = None THEN m.desc ELSE @]])
    /\ UNCHANGED <<tables, draftLock, cacheVars, memberVars>>

(* The rest of runUpdateTx: UpdateMetadata and the guarded UpdateDraft       *)
(* commit together, or UpdateDraft alone; then the deferred lock release.    *)
SaveCommit(c) ==
    /\ At(c, "saving")
    /\ LET p == req[c].patch
           w == req[c].wf
       IN  /\ SaveDraft(req[c].ver, req[c].rv, p.xml)
           /\ workflow' = IF p.name = None THEN workflow
                          ELSE [workflow EXCEPT ![w].meta =
                                   [name |-> p.name, desc |-> p.desc]]
           /\ ReleaseLock(c, w)
    /\ Done(c)
    /\ UNCHANGED <<assignee, cacheVars, memberVars>>

(* The 30 s time to live of the lock runs out. *)
LockExpire(w) ==
    /\ draftLock[w] # None
    /\ draftLock' = [draftLock EXCEPT ![w] = None]
    /\ UNCHANGED <<tables, req, cacheVars, memberVars>>

(* DraftService.Discard: GetDraft, then DeleteDraft of the row found. *)
DiscardRead(c) ==
    /\ MayStart(c, "discard")
    /\ \E v \in Versions :
          /\ version[v].status = "DRAFT"
          /\ GoTo(c, [Idle EXCEPT !.pc = "discarding", !.ver = v])
    /\ UNCHANGED <<tables, draftLock, cacheVars, memberVars>>

DiscardCommit(c) ==
    /\ At(c, "discarding")
    /\ DeleteDraftVersion(req[c].ver)
    /\ Done(c)
    /\ UNCHANGED <<workflow, assignee, draftLock, cacheVars, memberVars>>

-----------------------------------------------------------------------------
(* VersionService.Publish, preflight: read the draft and compile it ...       *)
PublishRead(c) ==
    /\ MayStart(c, "publish")
    /\ \E w \in Workflows, v \in Versions, force \in BOOLEAN :
          /\ IsDraftOf(v, w)
          /\ GoTo(c, [Idle EXCEPT !.pc = "compiled", !.wf = w, !.ver = v,
                                  !.rv = version[v].rv, !.xml = version[v].xml,
                                  !.force = force])
    /\ UNCHANGED <<tables, draftLock, cacheVars, memberVars>>

(* ... then read the workflow's active version, and refuse a draft of another *)
(* structure unless the client forces it ...                                 *)
SameShape(d, v) == v # None => ShapeOf[d] = ShapeOf[version[v].xml]

CheckStructure(c) ==
    /\ At(c, "compiled")
    /\ LET active == workflow[req[c].wf].active
       IN  /\ ~req[c].force => SameShape(req[c].xml, active)
           /\ GoTo(c, [req[c] EXCEPT !.pc = "eligibility", !.active = active])
    /\ UNCHANGED <<tables, draftLock, cacheVars, memberVars>>

(* ... and ask whether every default assignee is eligible                    *)
(* (checkAssigneeEligibility).                                               *)
CheckEligibility(c) ==
    /\ At(c, "eligibility")
    /\ AssigneesOf[req[c].xml] \subseteq member
    /\ GoTo(c, [req[c] EXCEPT !.pc = "publishing"])
    /\ UNCHANGED <<tables, draftLock, cacheVars, memberVars>>

(* runPublishTx, serializable: next number, guarded PublishVersion, the      *)
(* assignee rows replaced, the pointer moved.                                *)
PublishCommit(c) ==
    /\ At(c, "publishing")
    /\ LET v == req[c].ver
           w == req[c].wf
       IN  /\ DraftAt(v, req[c].rv)
           /\ \E n \in 1..Cardinality(Versions) :
                 /\ IsNextNumber(n, w)
                 /\ version' = [version EXCEPT ![v] = PublishedRow(v, n, req[c].xml)]
           /\ assignee' = [assignee EXCEPT ![v] = AssigneesOf[req[c].xml]]
           /\ MayPointAt(w, version'[v])
           /\ SetActive(w, v)
           /\ unseen' = [unseen EXCEPT ![v] = AssigneesOf[req[c].xml] \ member]
    /\ Done(c)
    /\ UNCHANGED <<draftLock, cacheVars, member, revoked, pending>>

(* VersionService.Promote: the version and the workflow are read ... *)
PromoteRead(c) ==
    /\ MayStart(c, "promote")
    /\ \E w \in Workflows, v \in Versions :
          /\ version[v].wf = w
          /\ Live(v)
          /\ workflow[w].active # v
          /\ GoTo(c, [Idle EXCEPT !.pc = "promoting", !.wf = w, !.ver = v])
    /\ UNCHANGED <<tables, draftLock, cacheVars, memberVars>>

(* Mutant: a workflow that comes back into use is not counted. *)
PromoteUncounted(c) ==
    /\ At(c, "promoting")
    /\ MayPointAt(req[c].wf, version[req[c].ver])
    /\ SetActive(req[c].wf, req[c].ver)
    /\ Done(c)
    /\ UNCHANGED <<version, assignee, draftLock, cacheVars, memberVars>>

(* ... then a serializable transaction reads the workflow again.  A workflow *)
(* that comes back into use is counted, unless its draft already counts it.  *)
PromoteCommit(c) ==
    /\ At(c, "promoting")
    /\ LET v == req[c].ver
           w == req[c].wf
       IN  \/ workflow[w].active = v /\ UNCHANGED workflow
           \/ /\ workflow[w].active # v
              /\ workflow[w].active # None \/ HasDraft(w) \/ BelowQuota
              /\ MayPointAt(w, version[v])
              /\ SetActive(w, v)
    /\ Done(c)
    /\ UNCHANGED <<version, assignee, draftLock, cacheVars, memberVars>>

-----------------------------------------------------------------------------
(* WorkflowService.Archive: the workflow has an active version and the       *)
(* Execution Service knows no active instance (its answer is external).      *)
ArchiveRead(c) ==
    /\ MayStart(c, "archive")
    /\ \E w \in Workflows :
          /\ workflow[w].active # None
          /\ GoTo(c, [Idle EXCEPT !.pc = "archiving", !.wf = w])
    /\ UNCHANGED <<tables, draftLock, cacheVars, memberVars>>

(* The version that is active now is archived and the pointer cleared. *)
ArchiveCommit(c) ==
    /\ At(c, "archiving")
    /\ LET w == req[c].wf
           v == workflow[w].active
       IN  /\ v # None
           /\ ArchiveVersion(v)
           /\ SetActive(w, None)
           /\ GoTo(c, [req[c] EXCEPT !.pc = "evicting", !.ver = v])
    /\ UNCHANGED <<assignee, draftLock, cacheVars, memberVars>>

(* DEL of the cached plan; a failed DEL is Abandon, whose error is logged. *)
Evict(c) ==
    /\ At(c, "evicting")
    /\ planCache' = planCache \ {req[c].ver}
    /\ Done(c)
    /\ UNCHANGED <<tables, draftLock, lostEvict, memberVars>>

-----------------------------------------------------------------------------
(* Org & Membership revokes a user's membership, or adds the user back       *)
(* (external).  Its event is delivered until it is acknowledged.             *)
Revoke(u) ==
    /\ u \in member
    /\ member' = member \ {u}
    /\ \E id \in 1..MaxRevocations, known \in {{v \in Versions : assignee[v] # {}}, Versions} :
          /\ {e.id : e \in revoked} = 1..(id - 1)
          /\ revoked' = revoked \cup {[id |-> id, user |-> u, known |-> known]}
          /\ pending' = pending \cup {id}
    /\ UNCHANGED <<tables, req, draftLock, cacheVars, unseen>>

Rejoin(u) ==
    /\ u \notin member
    /\ member' = member \cup {u}
    /\ UNCHANGED <<tables, req, draftLock, cacheVars, revoked, pending, unseen>>

(* Mutants: rows newer than the event count too; only active versions count. *)
AffectedWhenever(e) == {v \in Versions : e.user \in assignee[v]}
AffectedActive(e) ==
    {v \in e.known : e.user \in assignee[v] /\ \E w \in Workflows : workflow[w].active = v}

(* ListByUser, less the rows created after the envelope's time.              *)
Affected(e) == {v \in e.known : e.user \in assignee[v]}

(* A delivery of the event.  A redelivery may run beside the first.          *)
RevocationDeliver(c) ==
    /\ MayStart(c, "revoke")
    /\ \E e \in revoked :
          /\ e.id \in pending
          /\ GoTo(c, [Idle EXCEPT !.pc = "revoking", !.event = e,
                         !.todo = Affected(e)])
    /\ UNCHANGED <<tables, draftLock, cacheVars, memberVars>>

(* invalidateVersion reads the next version, in map order, and leaves an     *)
(* archived one alone ...                                                    *)
RevocationNext(c) ==
    /\ At(c, "revoking")
    /\ \E v \in req[c].todo :
          GoTo(c, [req[c] EXCEPT !.todo = @ \ {v},
                      !.ver = v,
                      !.pc = IF version[v].status \in {"ARCHIVED", "deleted"}
                             THEN "revoking" ELSE "invalidating"])
    /\ UNCHANGED <<tables, draftLock, cacheVars, memberVars>>

(* ... marks it invalid in a statement of its own ... *)
Invalidate(c) ==
    /\ At(c, "invalidating")
    /\ version[req[c].ver].rv < MaxRecordVersion
    /\ SetVersionInvalid(req[c].ver)
    /\ GoTo(c, [req[c] EXCEPT !.pc = "evictRevoked"])
    /\ UNCHANGED <<workflow, assignee, draftLock, cacheVars, memberVars>>

(* ... and evicts its plan.  A failed eviction is remembered and the loop    *)
(* goes on.                                                                  *)
EvictRevoked(c) ==
    /\ At(c, "evictRevoked")
    /\ \/ /\ planCache' = planCache \ {req[c].ver}
          /\ GoTo(c, [req[c] EXCEPT !.pc = "revoking"])
          /\ UNCHANGED lostEvict
       \/ /\ GoTo(c, [req[c] EXCEPT !.pc = "revoking", !.failed = TRUE])
          /\ lostEvict' = IF LosesEviction(c) THEN lostEvict \cup {req[c].ver} ELSE lostEvict
          /\ UNCHANGED planCache
    /\ UNCHANGED <<tables, draftLock, memberVars>>

(* Mutant: the errors of the evictions are dropped. *)
RevocationAckAlways(c) ==
    /\ At(c, "revoking")
    /\ req[c].todo = {}
    /\ pending' = pending \ {req[c].event.id}
    /\ Done(c)
    /\ UNCHANGED <<tables, draftLock, cacheVars, member, revoked, unseen>>

(* All versions done and the user's tasks paused: 200 acknowledges the       *)
(* event, unless an eviction failed; then 500 has it delivered again.        *)
RevocationFinish(c) ==
    /\ At(c, "revoking")
    /\ req[c].todo = {}
    /\ pending' = IF req[c].failed THEN pending ELSE pending \ {req[c].event.id}
    /\ Done(c)
    /\ UNCHANGED <<tables, draftLock, cacheVars, member, revoked, unseen>>

-----------------------------------------------------------------------------
(* CompiledPlanService.Get on a miss (a cache read that fails counts as one) *)
(* reads the version; only a live one goes on to be cached.                  *)
PlanRead(c) ==
    /\ MayStart(c, "plan")
    /\ \E v \in Versions :
          Live(v) /\ GoTo(c, [Idle EXCEPT !.pc = "filling", !.ver = v])
    /\ UNCHANGED <<tables, draftLock, cacheVars, memberVars>>

(* SET.  One whose answer is lost may still have written, and then nothing   *)
(* reads the version again.                                                  *)
PlanFill(c) ==
    /\ At(c, "filling")
    /\ planCache' = planCache \cup {req[c].ver}
    /\ \/ GoTo(c, [req[c] EXCEPT !.pc = "rechecking"]) /\ UNCHANGED lostEvict
       \/ Done(c) /\ lostEvict' = lostEvict \cup {req[c].ver}
    /\ UNCHANGED <<tables, draftLock, memberVars>>

(* evictIfRevoked reads the version again: a failed read evicts as well. *)
PlanRecheck(c) ==
    /\ At(c, "rechecking")
    /\ \/ Live(req[c].ver) /\ Done(c)
       \/ GoTo(c, [req[c] EXCEPT !.pc = "dropping"])
    /\ UNCHANGED <<tables, draftLock, cacheVars, memberVars>>

PlanDrop(c) ==
    /\ At(c, "dropping")
    /\ planCache' = planCache \ {req[c].ver}
    /\ Done(c)
    /\ UNCHANGED <<tables, draftLock, lostEvict, memberVars>>

(* CACHE_COMPILED_PLAN_TTL runs out. *)
PlanExpire(v) ==
    /\ v \in planCache
    /\ planCache' = planCache \ {v}
    /\ lostEvict' = lostEvict \ {v}
    /\ UNCHANGED <<tables, req, draftLock, memberVars>>

-----------------------------------------------------------------------------
DraftStep(c) ==
    \/ InitRead(c) \/ InitCommit(c) \/ Fetch(c) \/ SaveBegin(c)
    \/ SaveReadMeta(c) \/ SaveCommit(c) \/ DiscardRead(c) \/ DiscardCommit(c)

VersionStep(c) ==
    \/ Create(c) \/ CloneRead(c) \/ CloneCommit(c)
    \/ PublishRead(c) \/ CheckStructure(c) \/ CheckEligibility(c) \/ PublishCommit(c)
    \/ PromoteRead(c) \/ PromoteCommit(c)
    \/ ArchiveRead(c) \/ ArchiveCommit(c) \/ Evict(c)

RevocationStep(c) ==
    \/ RevocationDeliver(c) \/ RevocationNext(c) \/ Invalidate(c)
    \/ EvictRevoked(c) \/ RevocationFinish(c)

PlanStep(c) == PlanRead(c) \/ PlanFill(c) \/ PlanRecheck(c) \/ PlanDrop(c)

Next ==
    \/ \E c \in Clients : \/ DraftStep(c) \/ VersionStep(c)
                          \/ RevocationStep(c) \/ PlanStep(c) \/ Abandon(c)
    \/ \E w \in Workflows : LockExpire(w)
    \/ \E u \in Users : Revoke(u) \/ Rejoin(u)
    \/ \E v \in Versions : PlanExpire(v)

Spec == Init /\ [][Next]_vars

=============================================================================
