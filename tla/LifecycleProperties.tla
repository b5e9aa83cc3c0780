------------------------- MODULE LifecycleProperties -------------------------
(***************************************************************************)
(* What the workflow lifecycle promises, and three things it does not.     *)
(***************************************************************************)
EXTENDS WorkflowLifecycle

(* The active pointer of a workflow names a PUBLISHED version of that very   *)
(* workflow, whatever publish, promote, archive and discard run at once      *)
(* (UpdateActiveVersion, WorkflowService.Archive).                           *)
ActiveIsPublished ==
    \A w \in Workflows :
        workflow[w].active # None =>
            /\ workflow[w].exists
            /\ version[workflow[w].active].status = "PUBLISHED"
            /\ version[workflow[w].active].wf = w

(* What a publish stores was compiled from the document the row holds: a     *)
(* save, or a discard and a new draft, between preflight and commit makes    *)
(* the publish fail (VersionService.Publish, PublishVersion).                *)
PlanIsOfOwnSource ==
    \A v \in Versions :
        version[v].status \in Numbered =>
            /\ version[v].plan = version[v].xml
            /\ assignee[v] = AssigneesOf[version[v].xml]

(* A workflow has at most one draft, and its version numbers are 1, 2, ...   *)
(* without a repetition or a gap (idx_wv_single_draft, NextVersionNumber).   *)
NumbersOf(w) == {v \in Versions : version[v].wf = w /\ version[v].status \in Numbered}
VersionsNumbered ==
    \A w \in Workflows :
        /\ \A v, x \in Versions : IsDraftOf(v, w) /\ IsDraftOf(x, w) => v = x
        /\ {version[v].num : v \in NumbersOf(w)} = 1..Cardinality(NumbersOf(w))

(* A published version never changes its document, plan, number or           *)
(* workflow, never becomes a draft or valid again, and leaves ARCHIVED for   *)
(* nothing; no row that has been published goes away.                        *)
PublishedNeverChanges ==
    [][\A v \in Versions :
          version[v].status \in Numbered =>
              /\ \A f \in {"xml", "plan", "num", "wf"} : version'[v][f] = version[v][f]
              /\ \/ version'[v].status = version[v].status
                 \/ version'[v].status = "ARCHIVED"
              /\ version'[v].valid => version[v].valid]_version

(* Only DraftService.Init takes a tenant over its plan's template limit:     *)
(* every other step that puts a template into use finds room for it.         *)
OnlyInitPassesQuota ==
    [][(~BelowQuota /\ ~(InUse' \subseteq InUse))
          => \E c \in Clients : InitCommit(c)]_<<workflow, version>>

(* An unforced publish changes the structure behind the active pointer only  *)
(* if the pointer moved after its preflight compared the two                 *)
(* (checkStructuralDivergence).                                              *)
UnforcedKeepsShape ==
    [][\A c \in Clients :
          LET r == req[c]
              a == workflow[r.wf].active
          IN  PublishCommit(c) /\ ~r.force /\ a = r.active
                 => SameShape(version'[r.ver].xml, a)]_vars

-----------------------------------------------------------------------------
(* A save replaces the document its client had fetched, if the draft it      *)
(* reaches is the draft the client fetched: no other save came in between,   *)
(* though the lock may have expired (UpdateDraftVersion).                    *)
SavesOver(c, v) == SaveCommit(c) /\ req[c].ver = v /\ version'[v].xml # version[v].xml

NoSaveLostInDraft ==
    [][\A c \in Clients, v \in Versions :
          SavesOver(c, v) /\ req[c].base = v => version[v].xml = req[c].xml]_vars

(* A draft lock is freed by its own holder or by its time to live, never by  *)
(* another request's release (DelIfEqual).                                   *)
LockFreedByHolder ==
    [][\A w \in Workflows :
          draftLock[w] # None /\ draftLock'[w] # draftLock[w]
             => \/ UNCHANGED req
                \/ req'[draftLock[w]] # req[draftLock[w]]]_draftLock

-----------------------------------------------------------------------------
(* A user who lost the membership is the default assignee of a valid         *)
(* published version only while the revocation's event is undelivered, or    *)
(* when the revocation landed between that version's eligibility check and   *)
(* its commit (invalidateAssigneeVersions).                                  *)
RevocationReachesVersions ==
    \A v \in Versions : Live(v) =>
        \A u \in assignee[v] \ member :
            \/ u \in unseen[v]
            \/ \E e \in revoked : e.id \in pending /\ e.user = u /\ v \in e.known

(* A version is invalid only because of a revocation that occurred after its *)
(* assignee rows were written: an old event delivered late spares a version  *)
(* published after the user was added back.                                  *)
OldRevocationSparesNew ==
    \A v \in Versions : ~version[v].valid =>
        \E e \in revoked : v \in e.known /\ e.user \in assignee[v]

(* The cache holds a plan that is archived or invalid only while someone is  *)
(* about to evict it, or an eviction of it was lost.                         *)
StaleEntryIsOwed ==
    \A v \in planCache : ~Live(v) =>
        \/ v \in lostEvict
        \/ \E c \in Clients :
              /\ req[c].ver = v
              /\ req[c].pc \in {"evicting", "evictRevoked", "rechecking", "dropping"}
        \/ \E e \in revoked : e.id \in pending /\ v \in e.known /\ e.user \in assignee[v]

-----------------------------------------------------------------------------
(* What makes the properties inductive. *)

(* A row that was ever inserted has a document and an existing workflow. *)
RowsComplete ==
    /\ \A w \in Workflows : workflow[w].exists => workflow[w].meta \in Metas
    /\ \A v \in Versions : version[v].status # "absent" =>
          /\ version[v].xml \in Docs
          /\ version[v].wf \in Workflows
          /\ workflow[version[v].wf].exists

(* A request that goes on has what its next step uses. *)
OnWorkflow == {"initDraft", "editing", "savingMeta", "saving", "compiled",
               "eligibility", "publishing", "promoting", "archiving"}
OnVersion == {"savingMeta", "saving", "discarding", "compiled", "eligibility",
              "publishing", "promoting", "evicting", "invalidating",
              "evictRevoked", "filling", "rechecking", "dropping"}
WithDocument == {"initDraft", "cloning", "compiled", "eligibility", "publishing"}

RequestComplete(r) ==
    /\ r.pc \in OnWorkflow => r.wf \in Workflows /\ workflow[r.wf].exists
    /\ r.pc \in OnVersion => r.ver \in Versions /\ version[r.ver].status # "absent"
    /\ r.pc \in WithDocument => r.xml \in Docs
    /\ r.pc \in {"savingMeta", "saving"} => r.patch \in Patches
    /\ r.pc = "saving" => (r.patch.name = None <=> r.patch.desc = None)
    /\ r.pc \in {"revoking", "invalidating", "evictRevoked"} =>
          r.event \in Revocation /\ \A v \in r.todo : version[v].status # "absent"

(* What a publish compiled is the draft's document as long as the draft has  *)
(* the record_version the publish read.                                      *)
CompiledIsCurrent(r) ==
    r.pc \in {"compiled", "eligibility", "publishing"} =>
        /\ r.rv <= version[r.ver].rv
        /\ DraftAt(r.ver, r.rv) => version[r.ver].xml = r.xml

(* What a save is to replace is what its client fetched, as long as the draft *)
(* it fetched has the record_version it fetched.                             *)
FetchedIsCurrent(r) ==
    r.pc \in {"editing", "savingMeta", "saving"} =>
        /\ r.base \in Versions
        /\ version[r.base].status # "absent"
        /\ r.rv <= version[r.base].rv
        /\ DraftAt(r.base, r.rv) => version[r.base].xml = r.xml

(* The version an unforced publish was compared with keeps its structure. *)
ComparedIsKept(r) ==
    r.pc \in {"eligibility", "publishing"} /\ ~r.force /\ r.active # None =>
        /\ version[r.active].status \in Numbered
        /\ SameShape(r.xml, r.active)

RequestsOK ==
    \A c \in Clients :
        /\ RequestComplete(req[c])
        /\ CompiledIsCurrent(req[c])
        /\ FetchedIsCurrent(req[c])
        /\ ComparedIsKept(req[c])

(* Assignee rows belong to versions that were published. *)
AssigneesOfNumbered ==
    \A v \in Versions : assignee[v] # {} => version[v].status \in Numbered

IInv == TypeOK /\ RowsComplete /\ RequestsOK /\ AssigneesOfNumbered
        /\ ActiveIsPublished /\ PlanIsOfOwnSource /\ VersionsNumbered

(* The deliveries of an event under way. *)
Delivering(c, e) ==
    req[c].pc \in {"revoking", "invalidating", "evictRevoked"} /\ req[c].event = e

EventsKnown ==
    /\ \A e, f \in revoked : e.id = f.id => e = f
    /\ \A c \in Clients : req[c].pc \in {"revoking", "invalidating", "evictRevoked"} =>
          /\ req[c].event \in revoked
          /\ req[c].todo \subseteq Affected(req[c].event)
          /\ req[c].pc # "revoking" => req[c].ver \in Affected(req[c].event)

(* An unacknowledged event with v still before every delivery of it. *)
StillReaches(e, v) ==
    /\ e.id \in pending /\ v \in e.known
    /\ \A c \in Clients : Delivering(c, e) =>
          v \in req[c].todo \/ (req[c].ver = v /\ At(c, "invalidating"))

RevocationsReach ==
    \A v \in Versions : Live(v) =>
        \A u \in assignee[v] \ member :
            \/ u \in unseen[v]
            \/ \E e \in revoked : e.user = u /\ StillReaches(e, v)

(* An unacknowledged event that will evict v, or be delivered again. *)
StillEvicts(e, v) ==
    /\ e.id \in pending /\ v \in Affected(e)
    /\ \A c \in Clients : Delivering(c, e) =>
          v \in req[c].todo \/ (req[c].ver = v /\ ~At(c, "revoking")) \/ req[c].failed

EntriesOwed ==
    /\ \A v \in planCache : version[v].status \in Numbered
    /\ \A c \in Clients : req[c].pc \in {"filling", "rechecking", "dropping"} =>
          version[req[c].ver].status \in Numbered
    /\ \A v \in planCache : ~Live(v) =>
          \/ v \in lostEvict
          \/ \E c \in Clients : /\ req[c].ver = v
                                /\ req[c].pc \in {"evicting", "rechecking", "dropping"}
          \/ /\ version[v].status = "PUBLISHED"
             /\ \/ \E c \in Clients : req[c].ver = v /\ At(c, "evictRevoked")
                \/ \E e \in revoked : StillEvicts(e, v)

RevocationInv ==
    EventsKnown /\ RevocationsReach /\ OldRevocationSparesNew /\ EntriesOwed

-----------------------------------------------------------------------------
(* What the documentation says and the code does not do. *)

(* "Admin B attempts to save their work, which would overwrite Admin A's     *)
(* changes": 409.  (docs/lld/definition_service.md:1318)                     *)
NoSaveLost ==
    [][\A c \in Clients, v \in Versions :
          SavesOver(c, v) => version[v].xml = req[c].xml]_vars

(* The count of the templates in use is serializable "to prevent parallel    *)
(* bypasses".  (docs/lld/definition_service.md:1227)                         *)
QuotaHolds == Cardinality(InUse) <= Limit

=============================================================================
