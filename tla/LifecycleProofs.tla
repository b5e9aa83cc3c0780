--------------------------- MODULE LifecycleProofs ---------------------------
(***************************************************************************)
(* Proofs about WorkflowLifecycle, for every number of workflows, versions,*)
(* documents, users, clients and revocations.  The inductive invariant is  *)
(* IInv of LifecycleProperties.                                            *)
(*                                                                         *)
(* The argument has two halves.  TableSteps says what the steps do to the  *)
(* tables, and the invariants of the tables follow from its cases.         *)
(* RequestSteps says that a step moves at most one request, to one that    *)
(* has what its next step uses.                                            *)
(***************************************************************************)
EXTENDS LifecycleProperties, FiniteSetTheorems, TLAPS

-----------------------------------------------------------------------------
(* What the steps do to the tables. *)

InsertsWorkflow ==
    BelowQuota /\ \E w \in Workflows, v \in Versions, d \in Docs, m \in Metas :
        InsertWorkflow(w, v, d, m) /\ UNCHANGED assignee

InitCommits == \E c \in Clients : InitCommit(c)

InsertsDraft ==
    InitCommits /\ \E w \in Workflows, v \in Versions, d \in Docs :
        /\ workflow[w].exists
        /\ InsertDraft(w, v, d)
        /\ UNCHANGED <<workflow, assignee>>

Saves ==
    \E w \in Workflows, v \in Versions, token \in Nat, d \in Docs \cup {None}, m \in Metas :
        /\ SaveDraft(v, token, d)
        /\ workflow' \in {workflow, [workflow EXCEPT ![w].meta = m]}
        /\ UNCHANGED assignee

Deletes ==
    \E v \in Versions : DeleteDraftVersion(v) /\ UNCHANGED <<workflow, assignee>>

Publishes ==
    \E w \in Workflows, v \in Versions, n \in Nat, d \in Docs, token \in Nat :
        /\ workflow[w].exists
        /\ DraftAt(v, token)
        /\ d = version[v].xml
        /\ version[v].wf = w
        /\ IsNextNumber(n, w)
        /\ version' = [version EXCEPT ![v] = PublishedRow(v, n, d)]
        /\ assignee' = [assignee EXCEPT ![v] = AssigneesOf[d]]
        /\ SetActive(w, v)

Promotes ==
    \E w \in Workflows, v \in Versions :
        /\ workflow[w].exists
        /\ workflow[w].active # None \/ HasDraft(w) \/ BelowQuota
        /\ MayPointAt(w, version[v])
        /\ SetActive(w, v)
        /\ UNCHANGED <<version, assignee>>

Archives ==
    \E w \in Workflows, v \in Versions, c \in Clients :
        /\ v = workflow[w].active
        /\ ArchiveVersion(v)
        /\ SetActive(w, None)
        /\ UNCHANGED assignee
        /\ req'[c].pc = "evicting" /\ req'[c].ver = v

Invalidates ==
    \E v \in Versions, c \in Clients :
        /\ SetVersionInvalid(v)
        /\ UNCHANGED <<workflow, assignee>>
        /\ req[c].pc = "invalidating" /\ req[c].ver = v
        /\ req'[c].pc = "evictRevoked" /\ req'[c].ver = v

TableStep ==
    \/ UNCHANGED tables
    \/ InsertsWorkflow \/ InsertsDraft \/ Saves \/ Deletes
    \/ Publishes \/ Promotes \/ Archives \/ Invalidates

-----------------------------------------------------------------------------
(* Facts about one request *)

LEMMA IdleIsRequest == Idle \in Request
  BY DEF Idle, Request, Stage

(* The fields of a request have their types. *)
LEMMA RequestFields ==
  ASSUME NEW r \in Request
  PROVE  /\ r.pc \in Stage
         /\ r.wf \in Workflows \cup {None}
         /\ r.base \in Versions \cup {None}
         /\ r.ver \in Versions \cup {None}
         /\ r.rv \in Nat
         /\ r.xml \in Docs \cup {None}
         /\ r.active \in Versions \cup {None}
         /\ r.force \in BOOLEAN
         /\ r.meta \in Metas \cup {None}
         /\ r.patch \in Patches \cup {None}
         /\ r.event \in Revocation \cup {None}
         /\ r.todo \in SUBSET Versions
         /\ r.failed \in BOOLEAN
  BY DEF Request

(* A request is as the invariant has it. *)
Sound(r) == /\ r \in Request
            /\ RequestComplete(r)
            /\ CompiledIsCurrent(r) /\ FetchedIsCurrent(r) /\ ComparedIsKept(r)

LEMMA SoundRequests == IInv => \A c \in Clients : Sound(req[c])
  BY DEF IInv, TypeOK, RequestsOK, Sound

LEMMA IdleIsSound == Sound(Idle)'
  BY IdleIsRequest DEF Sound, RequestComplete, CompiledIsCurrent, FetchedIsCurrent,
     ComparedIsKept, Idle, OnWorkflow, OnVersion, WithDocument

(* Soundness reads the tables only. *)
LEMMA SoundStays ==
  ASSUME NEW r, Sound(r), UNCHANGED tables
  PROVE  Sound(r)'
  BY DEF Sound, RequestComplete, CompiledIsCurrent, FetchedIsCurrent, ComparedIsKept,
     DraftAt, SameShape, tables

(* The rows of the tables have their types. *)
LEMMA Rows ==
  ASSUME IInv
  PROVE  /\ \A w \in Workflows :
               /\ workflow[w] \in WorkflowRow
               /\ workflow[w].active \in Versions \cup {None}
               /\ workflow[w].active # None =>
                     workflow[w].exists /\ workflow[w].active \in Versions
               /\ workflow[w].exists => workflow[w].meta \in Metas
         /\ \A v \in Versions :
               /\ version[v] \in VersionRow
               /\ version[v].rv \in Nat
               /\ version[v].status # "absent" =>
                     /\ version[v].xml \in Docs
                     /\ version[v].wf \in Workflows
                     /\ workflow[version[v].wf].exists
  BY DEF IInv, TypeOK, StoreTypeOK, WorkflowRow, VersionRow, RowsComplete, ActiveIsPublished

-----------------------------------------------------------------------------
(* A step moves at most one request, to a sound one. *)
Moves == \/ req' = req
         \/ \E c \in Clients : \E r : GoTo(c, r) /\ Sound(r)'

LEMMA MoveOn ==
  ASSUME NEW c \in Clients, NEW r, GoTo(c, r), Sound(r), UNCHANGED tables
  PROVE  Moves
  BY SoundStays DEF Moves

LEMMA FinishMoves == ASSUME NEW c \in Clients, Done(c) PROVE Moves
  BY IdleIsSound DEF Moves, Done

LEMMA DraftStepMoves ==
  ASSUME IInv, NEW c \in Clients, DraftStep(c)
  PROVE  Moves
<1> USE DEF RequestComplete, CompiledIsCurrent, FetchedIsCurrent, ComparedIsKept,
            OnWorkflow, OnVersion, WithDocument
<1>a. /\ RequestComplete(req[c]) /\ CompiledIsCurrent(req[c])
      /\ FetchedIsCurrent(req[c]) /\ ComparedIsKept(req[c])
  BY SoundRequests DEF Sound
<1>b. req[c] \in Request
  BY SoundRequests DEF Sound
<1>1. CASE InitRead(c)
  <2>1. PICK w, r :
           /\ w \in Workflows
           /\ workflow[w].exists
           /\ workflow[w].active # None
           /\ r = [Idle EXCEPT !.pc = "initDraft", !.wf = w,
                               !.xml = version[workflow[w].active].xml]
           /\ GoTo(c, r)
    BY <1>1 DEF InitRead
  <2>2. version[workflow[w].active].xml \in Docs
    BY <2>1, Rows DEF IInv, ActiveIsPublished
  <2>3. Sound(r)
    BY <2>1, <2>2 DEF Sound, Idle, Request, Stage
  <2> QED BY <1>1, <2>1, <2>3, MoveOn DEF InitRead
<1>2. CASE InitCommit(c) \/ SaveCommit(c) \/ DiscardCommit(c)
  BY <1>2, FinishMoves DEF InitCommit, SaveCommit, DiscardCommit
<1>3. CASE Fetch(c)
  <2>1. PICK w, v, r :
           /\ w \in Workflows /\ v \in Versions
           /\ IsDraftOf(v, w)
           /\ r = [Idle EXCEPT !.pc = "editing", !.wf = w, !.base = v,
                               !.rv = version[v].rv, !.xml = version[v].xml,
                               !.meta = workflow[w].meta]
           /\ GoTo(c, r)
    BY <1>3 DEF Fetch
  <2>2. version[v].rv \in Nat /\ version[v].xml \in Docs /\ workflow[w].exists
        /\ workflow[w].meta \in Metas
    BY <2>1, Rows DEF IsDraftOf
  <2>3. r \in Request
    BY <2>1, <2>2 DEF Idle, Request, Stage
  <2>4. /\ r.pc = "editing" /\ r.wf = w /\ r.base = v
        /\ r.rv = version[v].rv /\ r.xml = version[v].xml
    BY <2>1 DEF Idle
  <2>5. Sound(r)
    BY <2>1, <2>2, <2>3, <2>4 DEF Sound, IsDraftOf
  <2> QED BY <1>3, <2>1, <2>5, MoveOn DEF Fetch
<1>4. CASE SaveBegin(c)
  <2>1. PICK v, p, stage, r :
           /\ v \in Versions /\ p \in Patches
           /\ IsDraftOf(v, req[c].wf)
           /\ stage = SaveStage(p)
           /\ r = [req[c] EXCEPT !.ver = v, !.patch = p, !.pc = stage]
           /\ GoTo(c, r)
    BY <1>4 DEF SaveBegin
  <2>2. req[c].pc = "editing"
    BY <1>4 DEF SaveBegin, At
  <2>3. stage \in {"saving", "savingMeta"}
        /\ (stage = "saving" => p.name = None /\ p.desc = None)
    BY <2>1 DEF SaveStage
  <2>4. r \in Request
    <3>1. v \in Versions /\ p \in Patches
      BY <2>1
    <3>2. [req[c] EXCEPT !.ver = v, !.patch = p, !.pc = stage] \in Request
      BY <3>1, <1>b, <2>3 DEF Request, Stage
    <3> QED BY <2>1, <3>2
  <2>5. /\ r.ver = v /\ r.patch = p /\ r.wf = req[c].wf /\ r.pc = stage
        /\ r.base = req[c].base /\ r.rv = req[c].rv /\ r.xml = req[c].xml
    BY <1>b, <2>1 DEF Request
  <2>6. Sound(r)
    BY <1>a, <2>1, <2>2, <2>3, <2>4, <2>5 DEF Sound, IsDraftOf
  <2> QED BY <1>4, <2>1, <2>6, MoveOn DEF SaveBegin
<1>5. CASE SaveReadMeta(c)
  <2> DEFINE p == req[c].patch
             m == workflow[req[c].wf].meta
  <2>1. req[c].pc = "savingMeta" /\ p \in Patches /\ m \in Metas
    BY <1>a, <1>5, Rows DEF SaveReadMeta, At
  <2>2. PICK q : q = [p EXCEPT !.name = IF @ = None THEN m.name ELSE @,
                               !.desc = IF @ = None THEN m.desc ELSE @]
    OBVIOUS
  <2>3. q \in Patches /\ q.name # None /\ q.desc # None
    BY <2>1, <2>2, NoneIsNoValue DEF Patches, Metas
  <2>4. PICK r : r = [req[c] EXCEPT !.pc = "saving", !.patch = q] /\ GoTo(c, r)
    BY <1>5, <2>2 DEF SaveReadMeta
  <2>5. r \in Request
    BY <1>b, <2>3, <2>4 DEF Request, Stage
  <2>6. /\ r.pc = "saving" /\ r.patch = q /\ r.wf = req[c].wf /\ r.ver = req[c].ver
        /\ r.base = req[c].base /\ r.rv = req[c].rv /\ r.xml = req[c].xml
    BY <1>b, <2>4 DEF Request
  <2>7. Sound(r)
    BY <1>a, <2>1, <2>3, <2>5, <2>6 DEF Sound
  <2> QED BY <1>5, <2>4, <2>7, MoveOn DEF SaveReadMeta
<1>6. CASE DiscardRead(c)
  <2>1. PICK v, r :
           /\ v \in Versions
           /\ version[v].status = "DRAFT"
           /\ r = [Idle EXCEPT !.pc = "discarding", !.ver = v]
           /\ GoTo(c, r)
    BY <1>6 DEF DiscardRead
  <2>2. Sound(r)
    BY <2>1 DEF Sound, Idle, Request, Stage
  <2> QED BY <1>6, <2>1, <2>2, MoveOn DEF DiscardRead
<1> QED BY <1>1, <1>2, <1>3, <1>4, <1>5, <1>6, IInv, DraftStep(c) DEF DraftStep


LEMMA VersionStepMoves ==
  ASSUME IInv, NEW c \in Clients, VersionStep(c)
  PROVE  Moves
<1> USE DEF RequestComplete, CompiledIsCurrent, FetchedIsCurrent, ComparedIsKept,
            OnWorkflow, OnVersion, WithDocument
<1>a. /\ RequestComplete(req[c]) /\ CompiledIsCurrent(req[c])
      /\ FetchedIsCurrent(req[c]) /\ ComparedIsKept(req[c])
  BY SoundRequests DEF Sound
<1>b. req[c] \in Request
  BY SoundRequests DEF Sound
<1>1. CASE Create(c)
  BY <1>1 DEF Create, Moves
<1>2. CASE CloneRead(c)
  <2>1. PICK v, r :
           /\ v \in Versions
           /\ version[v].status \in Numbered
           /\ r = [Idle EXCEPT !.pc = "cloning", !.xml = version[v].xml]
           /\ GoTo(c, r)
    BY <1>2 DEF CloneRead
  <2>2. version[v].xml \in Docs
    BY <2>1, Rows DEF Numbered
  <2>3. Sound(r)
    BY <2>1, <2>2 DEF Sound, Idle, Request, Stage
  <2> QED BY <1>2, <2>1, <2>3, MoveOn DEF CloneRead
<1>3. CASE CloneCommit(c) \/ PublishCommit(c) \/ PromoteCommit(c) \/ Evict(c)
  BY <1>3, FinishMoves DEF CloneCommit, PublishCommit, PromoteCommit, Evict
<1>4. CASE PublishRead(c)
  <2>1. PICK w, v, force, r :
           /\ w \in Workflows /\ v \in Versions /\ force \in BOOLEAN
           /\ IsDraftOf(v, w)
           /\ r = [Idle EXCEPT !.pc = "compiled", !.wf = w, !.ver = v,
                               !.rv = version[v].rv, !.xml = version[v].xml,
                               !.force = force]
           /\ GoTo(c, r)
    BY <1>4 DEF PublishRead
  <2>2. version[v].rv \in Nat /\ version[v].xml \in Docs /\ workflow[w].exists
    BY <2>1, Rows DEF IsDraftOf
  <2>3. r \in Request
    BY <2>1, <2>2 DEF Idle, Request, Stage
  <2>4. /\ r.pc = "compiled" /\ r.wf = w /\ r.ver = v
        /\ r.rv = version[v].rv /\ r.xml = version[v].xml
    BY <2>1 DEF Idle
  <2>5. Sound(r)
    BY <2>1, <2>2, <2>3, <2>4 DEF Sound, IsDraftOf
  <2> QED BY <1>4, <2>1, <2>5, MoveOn DEF PublishRead
<1>5. CASE CheckStructure(c)
  <2>1. PICK a, r :
           /\ a = workflow[req[c].wf].active
           /\ ~req[c].force => SameShape(req[c].xml, a)
           /\ r = [req[c] EXCEPT !.pc = "eligibility", !.active = a]
           /\ GoTo(c, r)
    BY <1>5 DEF CheckStructure
  <2>2. req[c].pc = "compiled"
    BY <1>5 DEF CheckStructure, At
  <2>3. r \in Request
    <3>1. req[c].wf \in Workflows
      BY <1>a, <2>2
    <3>2. a \in Versions \cup {None}
      BY <2>1, <3>1, Rows
    <3>3. [req[c] EXCEPT !.pc = "eligibility", !.active = a] \in Request
      BY <1>b, <3>2 DEF Request, Stage
    <3> QED BY <2>1, <3>3
  <2>4. /\ r.pc = "eligibility" /\ r.wf = req[c].wf /\ r.ver = req[c].ver
        /\ r.xml = req[c].xml /\ r.rv = req[c].rv
        /\ r.force = req[c].force /\ r.active = a
    BY <1>b, <2>1 DEF Request
  <2>5. a # None => version[a].status \in Numbered
    BY <1>a, <2>1, <2>2 DEF IInv, ActiveIsPublished, Numbered
  <2>6. Sound(r)
    BY <1>a, <2>1, <2>2, <2>3, <2>4, <2>5 DEF Sound
  <2> QED BY <1>5, <2>1, <2>6, MoveOn DEF CheckStructure
<1>6. CASE CheckEligibility(c)
  <2>1. PICK r : r = [req[c] EXCEPT !.pc = "publishing"] /\ GoTo(c, r)
    BY <1>6 DEF CheckEligibility
  <2>2. req[c].pc = "eligibility"
    BY <1>6 DEF CheckEligibility, At
  <2>3. r \in Request
    BY <1>b, <2>1 DEF Request, Stage
  <2>4. /\ r.pc = "publishing" /\ r.wf = req[c].wf /\ r.ver = req[c].ver
        /\ r.xml = req[c].xml /\ r.rv = req[c].rv
        /\ r.force = req[c].force /\ r.active = req[c].active
    BY <1>b, <2>1 DEF Request
  <2>5. Sound(r)
    BY <1>a, <2>2, <2>3, <2>4 DEF Sound
  <2> QED BY <1>6, <2>1, <2>5, MoveOn DEF CheckEligibility
<1>7. CASE PromoteRead(c)
  <2>1. PICK w, v, r :
           /\ w \in Workflows /\ v \in Versions
           /\ version[v].wf = w
           /\ Live(v)
           /\ r = [Idle EXCEPT !.pc = "promoting", !.wf = w, !.ver = v]
           /\ GoTo(c, r)
    BY <1>7 DEF PromoteRead
  <2>2. workflow[w].exists
    BY <2>1, Rows DEF Live
  <2>3. Sound(r)
    BY <2>1, <2>2 DEF Sound, Idle, Request, Stage, Live
  <2> QED BY <1>7, <2>1, <2>3, MoveOn DEF PromoteRead
<1>8. CASE ArchiveRead(c)
  <2>1. PICK w, r :
           /\ w \in Workflows
           /\ workflow[w].active # None
           /\ r = [Idle EXCEPT !.pc = "archiving", !.wf = w]
           /\ GoTo(c, r)
    BY <1>8 DEF ArchiveRead
  <2>2. workflow[w].exists
    BY <2>1, Rows
  <2>3. Sound(r)
    BY <2>1, <2>2 DEF Sound, Idle, Request, Stage
  <2> QED BY <1>8, <2>1, <2>3, MoveOn DEF ArchiveRead
<1>9. CASE ArchiveCommit(c)
  <2>1. PICK v, r :
           /\ v = workflow[req[c].wf].active
           /\ v # None
           /\ ArchiveVersion(v)
           /\ r = [req[c] EXCEPT !.pc = "evicting", !.ver = v]
           /\ GoTo(c, r)
    BY <1>9 DEF ArchiveCommit
  <2>2. req[c].pc = "archiving"
    BY <1>9 DEF ArchiveCommit, At
  <2>3. v \in Versions
    BY <1>a, <2>1, <2>2, Rows
  <2>4. r \in Request /\ r.pc = "evicting" /\ r.ver = v
    BY <1>b, <2>1, <2>3 DEF Request, Stage
  <2>5. version'[v].status = "ARCHIVED"
    BY <2>1, <2>3 DEF ArchiveVersion, VersionRow, IInv, TypeOK, StoreTypeOK
  <2>6. Sound(r)'
    BY <2>3, <2>4, <2>5 DEF Sound
  <2> QED BY <2>1, <2>6 DEF Moves
<1> QED BY <1>1, <1>2, <1>3, <1>4, <1>5, <1>6, <1>7, <1>8, <1>9, VersionStep(c) DEF VersionStep

LEMMA RevocationStepMoves ==
  ASSUME IInv, NEW c \in Clients, RevocationStep(c)
  PROVE  Moves
<1> USE DEF RequestComplete, CompiledIsCurrent, FetchedIsCurrent, ComparedIsKept,
            OnWorkflow, OnVersion, WithDocument
<1>a. /\ RequestComplete(req[c]) /\ CompiledIsCurrent(req[c])
      /\ FetchedIsCurrent(req[c]) /\ ComparedIsKept(req[c])
  BY SoundRequests DEF Sound
<1>b. req[c] \in Request
  BY SoundRequests DEF Sound
<1>1. CASE RevocationDeliver(c)
  <2>1. PICK e, r :
           /\ e \in revoked
           /\ r = [Idle EXCEPT !.pc = "revoking", !.event = e, !.todo = Affected(e)]
           /\ GoTo(c, r)
    BY <1>1 DEF RevocationDeliver
  <2>2. e \in Revocation /\ e.known \in SUBSET Versions
    BY <2>1 DEF IInv, TypeOK, Revocation
  <2>3. /\ Affected(e) \in SUBSET Versions
        /\ \A v \in Affected(e) : version[v].status # "absent"
    BY <2>2 DEF Affected, IInv, AssigneesOfNumbered, Numbered
  <2>4. r \in Request /\ r.pc = "revoking" /\ r.event = e /\ r.todo = Affected(e)
    BY <2>1, <2>2, <2>3 DEF Idle, Request, Stage
  <2>5. Sound(r)
    BY <2>2, <2>3, <2>4 DEF Sound
  <2> QED BY <1>1, <2>1, <2>5, MoveOn DEF RevocationDeliver
<1>2. CASE RevocationNext(c)
  <2>1. PICK v, stage, r :
           /\ v \in req[c].todo /\ stage \in {"revoking", "invalidating"}
           /\ r = [req[c] EXCEPT !.todo = @ \ {v}, !.ver = v, !.pc = stage]
           /\ GoTo(c, r)
    BY <1>2 DEF RevocationNext
  <2>2. req[c].pc = "revoking"
    BY <1>2 DEF RevocationNext, At
  <2>3. v \in Versions /\ req[c].todo \in SUBSET Versions
    BY <2>1, <1>b, RequestFields
  <2>4. r \in Request
    BY <1>b, <2>1, <2>3 DEF Request, Stage
  <2>5. /\ r.pc = stage /\ r.event = req[c].event /\ r.ver = v
        /\ r.todo = req[c].todo \ {v}
    BY <1>b, <2>1 DEF Request
  <2>6. Sound(r)
    BY <2>1, <1>a, <2>2, <2>3, <2>4, <2>5 DEF Sound
  <2> QED BY <1>2, <2>1, <2>6, MoveOn DEF RevocationNext
<1>3. CASE Invalidate(c)
  <2>1. PICK r : r = [req[c] EXCEPT !.pc = "evictRevoked"] /\ GoTo(c, r)
    BY <1>3 DEF Invalidate
  <2>2. req[c].pc = "invalidating" /\ SetVersionInvalid(req[c].ver)
    BY <1>3 DEF Invalidate, At
  <2>3. r \in Request
    BY <1>b, <2>1 DEF Request, Stage
  <2>4. /\ r.pc = "evictRevoked" /\ r.event = req[c].event /\ r.ver = req[c].ver
        /\ r.todo = req[c].todo /\ r.todo \in SUBSET Versions
    BY <1>b, <2>1 DEF Request
  <2>5. \A v \in Versions : version'[v].status = version[v].status
    BY <2>2, Rows DEF SetVersionInvalid, VersionRow, IInv, TypeOK, StoreTypeOK
  <2>6. Sound(r)'
    BY <1>a, <2>2, <2>3, <2>4, <2>5 DEF Sound
  <2> QED BY <2>1, <2>6 DEF Moves
<1>4. CASE EvictRevoked(c)
  <2>1. PICK r :
           /\ \/ r = [req[c] EXCEPT !.pc = "revoking"]
              \/ r = [req[c] EXCEPT !.pc = "revoking", !.failed = TRUE]
           /\ GoTo(c, r)
    BY <1>4 DEF EvictRevoked
  <2>2. req[c].pc = "evictRevoked"
    BY <1>4 DEF EvictRevoked, At
  <2>3. r \in Request
    <3>1. CASE r = [req[c] EXCEPT !.pc = "revoking"]
      BY <1>b, <3>1 DEF Request, Stage
    <3>2. CASE r = [req[c] EXCEPT !.pc = "revoking", !.failed = TRUE]
      BY <1>b, <3>2 DEF Request, Stage
    <3> QED BY <2>1, <3>1, <3>2
  <2>4. r.pc = "revoking" /\ r.event = req[c].event /\ r.todo = req[c].todo
    BY <1>b, <2>1 DEF Request
  <2>5. Sound(r)
    BY <1>a, <2>2, <2>3, <2>4 DEF Sound
  <2> QED BY <1>4, <2>1, <2>5, MoveOn DEF EvictRevoked
<1>5. CASE RevocationFinish(c)
  BY <1>5, FinishMoves DEF RevocationFinish
<1> QED BY <1>1, <1>2, <1>3, <1>4, <1>5, RevocationStep(c) DEF RevocationStep

LEMMA PlanStepMoves ==
  ASSUME IInv, NEW c \in Clients, PlanStep(c)
  PROVE  Moves
<1> USE DEF RequestComplete, CompiledIsCurrent, FetchedIsCurrent, ComparedIsKept,
            OnWorkflow, OnVersion, WithDocument
<1>a. /\ RequestComplete(req[c]) /\ CompiledIsCurrent(req[c])
      /\ FetchedIsCurrent(req[c]) /\ ComparedIsKept(req[c])
  BY SoundRequests DEF Sound
<1>b. req[c] \in Request
  BY SoundRequests DEF Sound
<1>1. CASE PlanRead(c)
  <2>1. PICK v, r :
           /\ v \in Versions
           /\ Live(v)
           /\ r = [Idle EXCEPT !.pc = "filling", !.ver = v]
           /\ GoTo(c, r)
    BY <1>1 DEF PlanRead
  <2>2. Sound(r)
    BY <2>1 DEF Sound, Idle, Request, Stage, Live
  <2> QED BY <1>1, <2>1, <2>2, MoveOn DEF PlanRead
<1>2. ASSUME NEW stage \in {"rechecking", "dropping"},
             GoTo(c, [req[c] EXCEPT !.pc = stage]),
             req[c].pc \in {"filling", "rechecking"},
             UNCHANGED tables
      PROVE  Moves
  <2>1. PICK r : r = [req[c] EXCEPT !.pc = stage] /\ GoTo(c, r)
    BY <1>2
  <2>2. r \in Request /\ r.pc = stage /\ r.ver = req[c].ver
    BY <1>b, <2>1 DEF Request, Stage
  <2>3. Sound(r)
    BY <1>a, <1>2, <2>2 DEF Sound
  <2> QED BY <1>2, <2>1, <2>3, MoveOn
<1>3. CASE PlanFill(c)
  BY <1>2, <1>3, FinishMoves DEF PlanFill, At
<1>4. CASE PlanRecheck(c)
  BY <1>2, <1>4, FinishMoves DEF PlanRecheck, At
<1>5. CASE PlanDrop(c)
  BY <1>5, FinishMoves DEF PlanDrop
<1> QED BY <1>1, <1>3, <1>4, <1>5, PlanStep(c) DEF PlanStep

LEMMA RequestSteps == IInv /\ [Next]_vars => Moves
<1> SUFFICES ASSUME IInv, [Next]_vars PROVE Moves
  OBVIOUS
<1>1. ASSUME NEW c \in Clients, Abandon(c) PROVE Moves
  BY <1>1, FinishMoves DEF Abandon
<1>2. CASE UNCHANGED vars \/ (\E w \in Workflows : LockExpire(w))
           \/ (\E u \in Users : Revoke(u) \/ Rejoin(u)) \/ (\E v \in Versions : PlanExpire(v))
  BY <1>2 DEF Moves, vars, LockExpire, Revoke, Rejoin, PlanExpire
<1> QED BY <1>1, <1>2, DraftStepMoves, VersionStepMoves, RevocationStepMoves,
           PlanStepMoves DEF Next

-----------------------------------------------------------------------------
(* Only these steps change a table.  A publish writes the document it read:  *)
(* CompiledIsCurrent.                                                        *)

LEMMA PublishCommitPublishes ==
  ASSUME IInv, NEW c \in Clients, PublishCommit(c)
  PROVE  Publishes
<1> DEFINE v == req[c].ver
           w == req[c].wf
<1>1. /\ req[c].pc = "publishing"
      /\ DraftAt(v, req[c].rv)
      /\ SetActive(w, v)
      /\ assignee' = [assignee EXCEPT ![v] = AssigneesOf[req[c].xml]]
  BY DEF PublishCommit, At
<1>2. req[c].rv \in Nat /\ w \in Workflows /\ v \in Versions /\ req[c].xml \in Docs
      /\ workflow[w].exists /\ req[c].xml = version[v].xml
  BY <1>1, SoundRequests, RequestFields
  DEF Sound, RequestComplete, CompiledIsCurrent, OnWorkflow, OnVersion, WithDocument
<1>3. PICK n \in 1..Cardinality(Versions) :
         /\ IsNextNumber(n, w)
         /\ version' = [version EXCEPT ![v] = PublishedRow(v, n, req[c].xml)]
  BY DEF PublishCommit
<1>4. n \in Nat
  BY <1>3, VersionsFinite, FS_CardinalityType
<1>5. version[v].wf = w
  <2>1. MayPointAt(w, version'[v])
    BY DEF PublishCommit
  <2>2. version'[v].wf = version[v].wf
    BY <1>2, <1>3 DEF PublishedRow, IInv, TypeOK, StoreTypeOK, VersionRow
  <2> QED BY <2>1, <2>2 DEF MayPointAt
<1> QED BY <1>1, <1>2, <1>3, <1>4, <1>5 DEF Publishes

LEMMA SaveCommitSaves ==
  ASSUME IInv, NEW c \in Clients, SaveCommit(c)
  PROVE  Saves
<1> DEFINE p == req[c].patch
           w == req[c].wf
<1>1. req[c].pc = "saving" /\ SaveDraft(req[c].ver, req[c].rv, p.xml) /\ UNCHANGED assignee
  BY DEF SaveCommit, At
<1>2. /\ w \in Workflows /\ req[c].ver \in Versions /\ req[c].rv \in Nat
      /\ p \in Patches /\ (p.name = None <=> p.desc = None)
  BY <1>1, SoundRequests, RequestFields
  DEF Sound, RequestComplete, OnWorkflow, OnVersion
<1>3. p.xml \in Docs \cup {None}
  BY <1>2 DEF Patches
<1>4. PICK m \in Metas : workflow' \in {workflow, [workflow EXCEPT ![w].meta = m]}
  <2>1. CASE p.name = None
    <3>1. workflow[w].meta \in Metas
      BY <1>1, <1>2, SoundRequests, Rows DEF Sound, RequestComplete, OnWorkflow
    <3> QED BY <2>1, <3>1 DEF SaveCommit
  <2>2. CASE p.name # None
    <3>1. [name |-> p.name, desc |-> p.desc] \in Metas
      BY <1>2, <2>2 DEF Patches, Metas
    <3> QED BY <2>2, <3>1 DEF SaveCommit
  <2> QED BY <2>1, <2>2
<1> QED BY <1>1, <1>2, <1>3, <1>4 DEF Saves

LEMMA TableSteps == IInv /\ [Next]_vars => TableStep
<1> SUFFICES ASSUME IInv, [Next]_vars PROVE TableStep
  OBVIOUS
<1> USE DEF TableStep
<1>1. ASSUME NEW c \in Clients, DraftStep(c) PROVE TableStep
  <2>1. CASE InitCommit(c)
    <3>1. PICK v \in Versions : InsertDraft(req[c].wf, v, req[c].xml)
      BY <2>1 DEF InitCommit
    <3>2. req[c].wf \in Workflows /\ workflow[req[c].wf].exists /\ req[c].xml \in Docs
      BY <2>1, SoundRequests DEF InitCommit, At, Sound, RequestComplete, OnWorkflow, WithDocument
    <3> QED BY <2>1, <3>1, <3>2 DEF InitCommits, InitCommit, InsertsDraft
  <2>2. CASE SaveCommit(c)
    BY <2>2, SaveCommitSaves
  <2>3. CASE DiscardCommit(c)
    <3>1. req[c].ver \in Versions
      BY <2>3, SoundRequests DEF DiscardCommit, At, Sound, RequestComplete, OnVersion
    <3> QED BY <2>3, <3>1 DEF DiscardCommit, Deletes
  <2> QED BY <1>1, <2>1, <2>2, <2>3
      DEF DraftStep, InitRead, Fetch, SaveBegin, SaveReadMeta, DiscardRead
<1>2. ASSUME NEW c \in Clients, VersionStep(c) PROVE TableStep
  <2>1. CASE Create(c)
    <3>1. PICK w \in Workflows, v \in Versions, d \in Docs, n \in Names :
             InsertWorkflow(w, v, d, [name |-> n, desc |-> n])
      BY <2>1 DEF Create
    <3>2. [name |-> n, desc |-> n] \in Metas
      BY DEF Metas
    <3> QED BY <2>1, <3>1, <3>2 DEF Create, InsertsWorkflow
  <2>2. CASE CloneCommit(c)
    <3>1. PICK w \in Workflows, v \in Versions, n \in Names :
             InsertWorkflow(w, v, req[c].xml, [name |-> n, desc |-> n])
      BY <2>2 DEF CloneCommit
    <3>2. [name |-> n, desc |-> n] \in Metas
      BY DEF Metas
    <3>3. req[c].xml \in Docs
      BY <2>2, SoundRequests DEF CloneCommit, At, Sound, RequestComplete, WithDocument
    <3> QED BY <2>2, <3>1, <3>2, <3>3 DEF CloneCommit, InsertsWorkflow
  <2>3. CASE PublishCommit(c)
    BY <2>3, PublishCommitPublishes
  <2>4. CASE PromoteCommit(c)
    <3>1. req[c].wf \in Workflows /\ req[c].ver \in Versions /\ workflow[req[c].wf].exists
      BY <2>4, SoundRequests DEF PromoteCommit, At, Sound, RequestComplete, OnWorkflow, OnVersion
    <3>2. UNCHANGED <<version, assignee>>
          /\ \/ UNCHANGED workflow
             \/ /\ \/ workflow[req[c].wf].active # None
                   \/ HasDraft(req[c].wf) \/ BelowQuota
                /\ MayPointAt(req[c].wf, version[req[c].ver])
                /\ SetActive(req[c].wf, req[c].ver)
      BY <2>4 DEF PromoteCommit
    <3> QED BY <3>1, <3>2 DEF Promotes, tables
  <2>5. CASE ArchiveCommit(c)
    <3>1. req[c].wf \in Workflows
      BY <2>5, SoundRequests DEF ArchiveCommit, At, Sound, RequestComplete, OnWorkflow
    <3>2. PICK v : /\ v = workflow[req[c].wf].active /\ v # None
                   /\ ArchiveVersion(v) /\ SetActive(req[c].wf, None)
      BY <2>5 DEF ArchiveCommit
    <3>3. v \in Versions
      BY <3>1, <3>2, Rows
    <3>4. req'[c].pc = "evicting" /\ req'[c].ver = v
      BY <2>5, <3>2 DEF ArchiveCommit, GoTo, IInv, TypeOK, Request
    <3> QED BY <2>5, <3>1, <3>2, <3>3, <3>4 DEF ArchiveCommit, Archives
  <2> QED BY <1>2, <2>1, <2>2, <2>3, <2>4, <2>5
      DEF VersionStep, CloneRead, PublishRead, CheckStructure, CheckEligibility, PromoteRead,
          ArchiveRead, Evict
<1>3. ASSUME NEW c \in Clients, RevocationStep(c) PROVE TableStep
  <2>1. CASE Invalidate(c)
    <3>1. req[c].ver \in Versions
      BY <2>1, SoundRequests DEF Invalidate, At, Sound, RequestComplete, OnVersion
    <3>2. req'[c].pc = "evictRevoked" /\ req'[c].ver = req[c].ver
      BY <2>1 DEF Invalidate, GoTo, IInv, TypeOK, Request
    <3> QED BY <2>1, <3>1, <3>2 DEF Invalidate, At, Invalidates
  <2> QED BY <1>3, <2>1
      DEF RevocationStep, RevocationDeliver, RevocationNext, EvictRevoked, RevocationFinish
<1>4. ASSUME NEW c \in Clients, PlanStep(c) \/ Abandon(c) PROVE TableStep
  BY <1>4 DEF PlanStep, PlanRead, PlanFill, PlanRecheck, PlanDrop, Abandon
<1>5. CASE UNCHANGED vars \/ (\E w \in Workflows : LockExpire(w))
           \/ (\E u \in Users : Revoke(u) \/ Rejoin(u)) \/ (\E v \in Versions : PlanExpire(v))
  BY <1>5 DEF vars, tables, LockExpire, Revoke, Rejoin, PlanExpire
<1> QED BY <1>1, <1>2, <1>3, <1>4, <1>5 DEF Next

-----------------------------------------------------------------------------
(* The invariants of the tables *)

LEMMA NoRowTyped == ASSUME NEW w \in Workflows, NEW d \in Docs
  PROVE [NoRow EXCEPT !.status = "DRAFT", !.wf = w, !.xml = d, !.rv = 1] \in VersionRow
  BY DEF NoRow, VersionRow, Status

LEMMA SavedRowTyped ==
  ASSUME NEW row \in VersionRow, NEW d \in Docs \cup {None}
  PROVE  /\ Touched(row, SavedRow(row, d)) \in VersionRow
         /\ Touched(row, SavedRow(row, d)).status = row.status
         /\ Touched(row, SavedRow(row, d)).wf = row.wf
         /\ Touched(row, SavedRow(row, d)).xml \in {row.xml} \cup Docs
         /\ \/ Touched(row, SavedRow(row, d)) = row
            \/ Touched(row, SavedRow(row, d)).rv = row.rv + 1
<1>1. PICK saved \in VersionRow :
         /\ saved = SavedRow(row, d)
         /\ saved.status = row.status /\ saved.wf = row.wf /\ saved.xml \in {row.xml} \cup Docs
  <2>1. CASE d = None
    BY <2>1 DEF SavedRow
  <2>2. CASE d # None
    <3>1. [row EXCEPT !.xml = d, !.plan = None, !.valid = TRUE] \in VersionRow
      BY <2>2 DEF VersionRow
    <3> QED BY <2>2, <3>1 DEF SavedRow, VersionRow
  <2> QED BY <2>1, <2>2
<1>2. PICK n \in Nat : n = row.rv + 1
  BY DEF VersionRow
<1>3. [saved EXCEPT !.rv = n] \in VersionRow
  BY <1>2 DEF VersionRow
<1> QED BY <1>1, <1>2, <1>3 DEF Touched, VersionRow

LEMMA PublishedRowTyped ==
  ASSUME NEW v \in Versions, version[v] \in VersionRow, NEW n \in Nat, NEW d \in Docs
  PROVE  /\ PublishedRow(v, n, d) \in VersionRow
         /\ PublishedRow(v, n, d).status = "PUBLISHED"
         /\ PublishedRow(v, n, d).rv = version[v].rv + 1
         /\ PublishedRow(v, n, d).plan = d
         /\ PublishedRow(v, n, d).num = n
         /\ PublishedRow(v, n, d).wf = version[v].wf
         /\ PublishedRow(v, n, d).xml = version[v].xml
<1>1. PICK k \in Nat : k = version[v].rv + 1
  BY DEF VersionRow
<1>2. [version[v] EXCEPT !.status = "PUBLISHED", !.num = n, !.plan = d, !.rv = k] \in VersionRow
  BY DEF VersionRow, Status
<1> QED BY <1>1, <1>2 DEF PublishedRow, VersionRow

LEMMA StoreTyped == IInv /\ TableStep => StoreTypeOK'
<1> SUFFICES ASSUME IInv, TableStep PROVE StoreTypeOK'
  OBVIOUS
<1>a. StoreTypeOK
  BY DEF IInv, TypeOK
<1> USE DEF StoreTypeOK
<1>1. CASE UNCHANGED tables
  BY <1>a, <1>1 DEF tables
<1>2. CASE InsertsWorkflow
  <2>1. PICK w \in Workflows, v \in Versions, d \in Docs, m \in Metas :
           InsertWorkflow(w, v, d, m) /\ UNCHANGED assignee
    BY <1>2 DEF InsertsWorkflow
  <2>2. [exists |-> TRUE, active |-> None, meta |-> m] \in WorkflowRow
    BY DEF WorkflowRow
  <2> QED BY <1>a, <2>1, <2>2, NoRowTyped DEF InsertWorkflow
<1>3. CASE InsertsDraft
  BY <1>a, <1>3, NoRowTyped DEF InsertsDraft, InsertDraft
<1>4. CASE Saves
  <2>1. PICK w \in Workflows, v \in Versions, token \in Nat, d \in Docs \cup {None}, m \in Metas :
           /\ SaveDraft(v, token, d)
           /\ workflow' \in {workflow, [workflow EXCEPT ![w].meta = m]}
           /\ UNCHANGED assignee
    BY <1>4 DEF Saves
  <2>2. workflow' \in [Workflows -> WorkflowRow]
    BY <1>a, <2>1 DEF WorkflowRow
  <2>3. version' \in [Versions -> VersionRow]
    BY <1>a, <2>1, SavedRowTyped DEF SaveDraft
  <2> QED BY <1>a, <2>1, <2>2, <2>3
<1>5. CASE Deletes
  BY <1>a, <1>5 DEF Deletes, DeleteDraftVersion, VersionRow, Status
<1>6. CASE Publishes
  <2>1. PICK w \in Workflows, v \in Versions, n \in Nat, d \in Docs :
           /\ version' = [version EXCEPT ![v] = PublishedRow(v, n, d)]
           /\ assignee' = [assignee EXCEPT ![v] = AssigneesOf[d]]
           /\ SetActive(w, v)
    BY <1>6 DEF Publishes
  <2>2. PublishedRow(v, n, d) \in VersionRow
    BY <1>a, PublishedRowTyped
  <2>3. AssigneesOf[d] \in SUBSET Users
    BY AssigneesAreUsers
  <2>4. workflow' \in [Workflows -> WorkflowRow]
    BY <1>a, <2>1 DEF SetActive, WorkflowRow
  <2> QED BY <1>a, <2>1, <2>2, <2>3, <2>4
<1>7. CASE Promotes
  BY <1>a, <1>7 DEF Promotes, SetActive, WorkflowRow
<1>8. CASE Archives
  BY <1>a, <1>8 DEF Archives, ArchiveVersion, SetActive, WorkflowRow, VersionRow, Status
<1>9. CASE Invalidates
  BY <1>a, <1>9 DEF Invalidates, SetVersionInvalid, VersionRow
<1> QED BY <1>1, <1>2, <1>3, <1>4, <1>5, <1>6, <1>7, <1>8, <1>9 DEF TableStep

(* Rows stay, their record_versions do not decrease, and a draft's document   *)
(* changes only with its record_version.                                     *)
RowsStay ==
    /\ \A w \in Workflows : workflow[w].exists => workflow'[w].exists
    /\ \A v \in Versions : version[v].status # "absent" =>
          /\ version'[v].status # "absent"
          /\ version[v].rv <= version'[v].rv
          /\ version'[v].status = "DRAFT" =>
                /\ version[v].status = "DRAFT"
                /\ version'[v].rv = version[v].rv => version'[v].xml = version[v].xml

LEMMA TablesPersist == IInv /\ TableStep => RowsStay
<1> SUFFICES ASSUME IInv, TableStep PROVE RowsStay
  OBVIOUS
<1>a. /\ workflow \in [Workflows -> WorkflowRow]
      /\ version \in [Versions -> VersionRow]
      /\ \A v \in Versions : version[v].rv \in Nat
  BY DEF IInv, TypeOK, StoreTypeOK, VersionRow
<1> USE DEF RowsStay
<1>1. CASE UNCHANGED tables
  BY <1>a, <1>1 DEF tables
<1>2. CASE InsertsWorkflow
  BY <1>a, <1>2 DEF InsertsWorkflow, InsertWorkflow
<1>3. CASE InsertsDraft
  BY <1>a, <1>3 DEF InsertsDraft, InsertDraft
<1>4. CASE Saves
  <2>1. PICK w \in Workflows, v \in Versions, token \in Nat, d \in Docs \cup {None}, m \in Metas :
           /\ SaveDraft(v, token, d)
           /\ workflow' \in {workflow, [workflow EXCEPT ![w].meta = m]}
    BY <1>4 DEF Saves
  <2>2. \A x \in Workflows : workflow'[x].exists = workflow[x].exists
    BY <1>a, <2>1 DEF WorkflowRow
  <2>3. /\ \A x \in Versions : version'[x].status = version[x].status
        /\ \A x \in Versions \ {v} : version'[x] = version[x]
    BY <1>a, <2>1, SavedRowTyped DEF SaveDraft
  <2>4. version'[v] = version[v] \/ version'[v].rv = version[v].rv + 1
    BY <1>a, <2>1, SavedRowTyped DEF SaveDraft
  <2> QED BY <1>a, <2>2, <2>3, <2>4
<1>5. CASE Deletes
  BY <1>a, <1>5 DEF Deletes, DeleteDraftVersion, VersionRow
<1>6. CASE Publishes
  <2>1. PICK w \in Workflows, v \in Versions, n \in Nat, d \in Docs :
           /\ version' = [version EXCEPT ![v] = PublishedRow(v, n, d)]
           /\ SetActive(w, v)
    BY <1>6 DEF Publishes
  <2>2. \A x \in Workflows : workflow'[x].exists = workflow[x].exists
    BY <1>a, <2>1 DEF SetActive, WorkflowRow
  <2>3. version'[v].status = "PUBLISHED" /\ version'[v].rv = version[v].rv + 1
    BY <1>a, <2>1, PublishedRowTyped
  <2> QED BY <1>a, <2>1, <2>2, <2>3
<1>7. CASE Promotes
  BY <1>a, <1>7 DEF Promotes, SetActive, WorkflowRow
<1>8. CASE Archives
  BY <1>a, <1>8 DEF Archives, ArchiveVersion, SetActive, WorkflowRow, VersionRow
<1>9. CASE Invalidates
  BY <1>a, <1>9 DEF Invalidates, SetVersionInvalid, VersionRow
<1> QED BY <1>1, <1>2, <1>3, <1>4, <1>5, <1>6, <1>7, <1>8, <1>9 DEF TableStep

LEMMA RowsCompleteKept == IInv /\ TableStep => RowsComplete'
<1> SUFFICES ASSUME IInv, TableStep PROVE RowsComplete'
  OBVIOUS
<1>a. /\ workflow \in [Workflows -> WorkflowRow]
      /\ version \in [Versions -> VersionRow]
      /\ RowsComplete
      /\ RowsStay
  BY TablesPersist DEF IInv, TypeOK, StoreTypeOK
<1> USE DEF RowsComplete, RowsStay
<1>1. CASE UNCHANGED tables
  BY <1>a, <1>1 DEF tables
<1>2. CASE InsertsWorkflow
  <2>1. PICK w \in Workflows, v \in Versions, d \in Docs, m \in Metas :
           InsertWorkflow(w, v, d, m)
    BY <1>2 DEF InsertsWorkflow
  <2>2. /\ workflow'[w].exists /\ workflow'[w].meta = m
        /\ \A x \in Workflows \ {w} : workflow'[x] = workflow[x]
    BY <1>a, <2>1 DEF InsertWorkflow
  <2>3. /\ version'[v].xml = d /\ version'[v].wf = w
        /\ \A x \in Versions \ {v} : version'[x] = version[x]
    BY <1>a, <2>1 DEF InsertWorkflow, NoRow
  <2> QED BY <1>a, <2>2, <2>3
<1>3. CASE InsertsDraft
  <2>1. PICK w \in Workflows, v \in Versions, d \in Docs :
           workflow[w].exists /\ InsertDraft(w, v, d) /\ UNCHANGED workflow
    BY <1>3 DEF InsertsDraft
  <2>2. /\ version'[v].xml = d /\ version'[v].wf = w
        /\ \A x \in Versions \ {v} : version'[x] = version[x]
    BY <1>a, <2>1 DEF InsertDraft, NoRow
  <2> QED BY <1>a, <2>1, <2>2
<1>4. CASE Saves
  <2>1. PICK w \in Workflows, v \in Versions, token \in Nat, d \in Docs \cup {None}, m \in Metas :
           /\ SaveDraft(v, token, d)
           /\ workflow' \in {workflow, [workflow EXCEPT ![w].meta = m]}
    BY <1>4 DEF Saves
  <2>2. \A x \in Workflows : /\ workflow'[x].exists = workflow[x].exists
                             /\ workflow'[x].meta \in {workflow[x].meta, m}
    BY <1>a, <2>1 DEF WorkflowRow
  <2>3. \A x \in Versions : /\ version'[x].status = version[x].status
                            /\ version'[x].wf = version[x].wf
                            /\ version'[x].xml \in {version[x].xml} \cup Docs
    BY <1>a, <2>1, SavedRowTyped DEF SaveDraft
  <2> QED BY <1>a, <2>2, <2>3
<1>5. CASE Deletes
  BY <1>a, <1>5 DEF Deletes, DeleteDraftVersion, VersionRow
<1>6. CASE Publishes
  <2>1. PICK w \in Workflows, v \in Versions, n \in Nat, d \in Docs, token \in Nat :
           /\ DraftAt(v, token)
           /\ version' = [version EXCEPT ![v] = PublishedRow(v, n, d)]
           /\ SetActive(w, v)
    BY <1>6 DEF Publishes
  <2>2. \A x \in Workflows : /\ workflow'[x].exists = workflow[x].exists
                             /\ workflow'[x].meta = workflow[x].meta
    BY <1>a, <2>1 DEF SetActive, WorkflowRow
  <2>3. version'[v].wf = version[v].wf /\ version'[v].xml = version[v].xml
    BY <1>a, <2>1, PublishedRowTyped
  <2> QED BY <1>a, <2>1, <2>2, <2>3 DEF DraftAt
<1>7. CASE Promotes
  BY <1>a, <1>7 DEF Promotes, SetActive, WorkflowRow
<1>8. CASE Archives
  <2>1. PICK w \in Workflows, v \in Versions :
           ArchiveVersion(v) /\ SetActive(w, None)
    BY <1>8 DEF Archives
  <2>2. \A x \in Workflows : /\ workflow'[x].exists = workflow[x].exists
                             /\ workflow'[x].meta = workflow[x].meta
    BY <1>a, <2>1 DEF SetActive, WorkflowRow
  <2>3. /\ version[v].status = "PUBLISHED"
        /\ \A x \in Versions : /\ version'[x].wf = version[x].wf
                               /\ version'[x].xml = version[x].xml
                               /\ x # v => version'[x] = version[x]
    BY <1>a, <2>1 DEF ArchiveVersion, VersionRow
  <2> QED BY <1>a, <2>2, <2>3
<1>9. CASE Invalidates
  BY <1>a, <1>9 DEF Invalidates, SetVersionInvalid, VersionRow
<1> QED BY <1>1, <1>2, <1>3, <1>4, <1>5, <1>6, <1>7, <1>8, <1>9 DEF TableStep

(* The active pointer: only a publish or a promote sets it, and a row leaves  *)
(* PUBLISHED only by the archive that clears the pointer to it.              *)
LEMMA ActiveIsPublishedKept == IInv /\ TableStep => ActiveIsPublished'
<1> SUFFICES ASSUME IInv, TableStep PROVE ActiveIsPublished'
  OBVIOUS
<1>a. /\ workflow \in [Workflows -> WorkflowRow]
      /\ version \in [Versions -> VersionRow]
      /\ ActiveIsPublished
      /\ \A w \in Workflows : workflow[w].active # None => workflow[w].active \in Versions
  BY Rows DEF IInv, TypeOK, StoreTypeOK
<1> USE DEF ActiveIsPublished
<1>1. CASE UNCHANGED tables
  BY <1>a, <1>1 DEF tables
<1>2. CASE InsertsWorkflow
  <2>1. PICK w \in Workflows, v \in Versions, d \in Docs, m \in Metas :
           InsertWorkflow(w, v, d, m)
    BY <1>2 DEF InsertsWorkflow
  <2>2. /\ workflow'[w].active = None
        /\ \A x \in Workflows \ {w} : workflow'[x] = workflow[x]
    BY <1>a, <2>1 DEF InsertWorkflow
  <2>3. version[v].status = "absent" /\ \A x \in Versions \ {v} : version'[x] = version[x]
    BY <1>a, <2>1 DEF InsertWorkflow
  <2> QED BY <1>a, <2>2, <2>3
<1>3. CASE InsertsDraft
  BY <1>a, <1>3 DEF InsertsDraft, InsertDraft
<1>4. CASE Saves
  <2>1. PICK w \in Workflows, v \in Versions, token \in Nat, d \in Docs \cup {None}, m \in Metas :
           /\ SaveDraft(v, token, d)
           /\ workflow' \in {workflow, [workflow EXCEPT ![w].meta = m]}
    BY <1>4 DEF Saves
  <2>2. \A x \in Workflows : /\ workflow'[x].exists = workflow[x].exists
                             /\ workflow'[x].active = workflow[x].active
    BY <1>a, <2>1 DEF WorkflowRow
  <2>3. \A x \in Versions : /\ version'[x].status = version[x].status
                            /\ version'[x].wf = version[x].wf
    BY <1>a, <2>1, SavedRowTyped DEF SaveDraft
  <2> QED BY <1>a, <2>2, <2>3
<1>5. CASE Deletes
  BY <1>a, <1>5 DEF Deletes, DeleteDraftVersion, VersionRow
<1>6. CASE Publishes
  <2>1. PICK w \in Workflows, v \in Versions, n \in Nat, d \in Docs, token \in Nat :
           /\ workflow[w].exists
           /\ DraftAt(v, token)
           /\ version[v].wf = w
           /\ version' = [version EXCEPT ![v] = PublishedRow(v, n, d)]
           /\ SetActive(w, v)
    BY <1>6 DEF Publishes
  <2>2. /\ workflow'[w].exists /\ workflow'[w].active = v
        /\ \A x \in Workflows \ {w} : workflow'[x] = workflow[x]
    BY <1>a, <2>1 DEF SetActive, WorkflowRow
  <2>3. /\ version'[v].status = "PUBLISHED" /\ version'[v].wf = w
        /\ \A x \in Versions \ {v} : version'[x] = version[x]
    BY <1>a, <2>1, PublishedRowTyped
  <2> QED BY <1>a, <2>1, <2>2, <2>3 DEF DraftAt
<1>7. CASE Promotes
  BY <1>a, <1>7 DEF Promotes, SetActive, MayPointAt, WorkflowRow
<1>8. CASE Archives
  <2>1. PICK w \in Workflows, v \in Versions :
           /\ v = workflow[w].active
           /\ ArchiveVersion(v)
           /\ SetActive(w, None)
    BY <1>8 DEF Archives
  <2>2. /\ workflow'[w].active = None
        /\ \A x \in Workflows \ {w} : workflow'[x] = workflow[x]
    BY <1>a, <2>1 DEF SetActive, WorkflowRow
  <2>3. /\ version[v].wf = w
        /\ \A x \in Versions \ {v} : version'[x] = version[x]
    BY <1>a, <2>1, NoneIsNoValue DEF ArchiveVersion
  <2> QED BY <1>a, <2>2, <2>3
<1>9. CASE Invalidates
  BY <1>a, <1>9 DEF Invalidates, SetVersionInvalid, VersionRow
<1> QED BY <1>1, <1>2, <1>3, <1>4, <1>5, <1>6, <1>7, <1>8, <1>9 DEF TableStep

(* What was published stays as it was published. *)
PublishedStays ==
    \A v \in Versions :
        version[v].status \in Numbered =>
            /\ \A f \in {"xml", "plan", "num", "wf"} : version'[v][f] = version[v][f]
            /\ \/ version'[v].status = version[v].status
               \/ version'[v].status = "ARCHIVED"
            /\ version'[v].valid => version[v].valid

LEMMA TablesKeepPublished == IInv /\ TableStep => PublishedStays
<1> SUFFICES ASSUME IInv, TableStep,
                    NEW v \in Versions, version[v].status \in Numbered
             PROVE  /\ version'[v].xml = version[v].xml
                    /\ version'[v].plan = version[v].plan
                    /\ version'[v].num = version[v].num
                    /\ version'[v].wf = version[v].wf
                    /\ \/ version'[v].status = version[v].status
                       \/ version'[v].status = "ARCHIVED"
                    /\ version'[v].valid => version[v].valid
  BY DEF PublishedStays
<1>a. version \in [Versions -> VersionRow] /\ version[v] \in VersionRow
  BY DEF IInv, TypeOK, StoreTypeOK
<1>b. version[v].status \notin {"absent", "DRAFT"}
  BY DEF Numbered
<1>1. CASE version' = version
  BY <1>1
<1>2. CASE InsertsWorkflow \/ InsertsDraft
  BY <1>a, <1>b, <1>2 DEF InsertsWorkflow, InsertWorkflow, InsertsDraft, InsertDraft
<1>3. CASE Saves \/ Deletes \/ Publishes
  <2>1. PICK x, row : /\ x \in Versions /\ version[x].status = "DRAFT"
                      /\ version' = [version EXCEPT ![x] = row]
    <3>1. CASE Saves
      BY <3>1 DEF Saves, SaveDraft, DraftAt
    <3>2. CASE Deletes
      <4>1. PICK x \in Versions : DeleteDraftVersion(x)
        BY <3>2 DEF Deletes
      <4> QED BY <4>1 DEF DeleteDraftVersion
    <3>3. CASE Publishes
      BY <3>3 DEF Publishes, DraftAt
    <3> QED BY <1>3, <3>1, <3>2, <3>3
  <2> QED BY <1>a, <1>b, <2>1
<1>4. CASE Archives
  BY <1>a, <1>4 DEF Archives, ArchiveVersion, VersionRow
<1>5. CASE Invalidates
  BY <1>a, <1>5 DEF Invalidates, SetVersionInvalid, VersionRow
<1> QED BY <1>1, <1>2, <1>3, <1>4, <1>5 DEF TableStep, tables, Promotes

(* Only a publish numbers a version ... *)
LEMMA OnlyPublishNumbers ==
  ASSUME IInv, TableStep, ~Publishes
  PROVE  \A v \in Versions : version'[v].status \in Numbered => version[v].status \in Numbered
<1>a. version \in [Versions -> VersionRow]
  BY DEF IInv, TypeOK, StoreTypeOK
<1>1. CASE Saves
  BY <1>a, <1>1, SavedRowTyped DEF Saves, SaveDraft
<1>2. CASE Deletes
  BY <1>a, <1>2 DEF Deletes, DeleteDraftVersion, VersionRow, Numbered
<1>3. CASE InsertsWorkflow \/ InsertsDraft
  BY <1>a, <1>3 DEF InsertsWorkflow, InsertWorkflow, InsertsDraft, InsertDraft, NoRow, Numbered
<1>4. CASE Archives
  BY <1>a, <1>4 DEF Archives, ArchiveVersion, VersionRow, Numbered
<1>5. CASE Invalidates
  BY <1>a, <1>5 DEF Invalidates, SetVersionInvalid, VersionRow
<1> QED BY <1>1, <1>2, <1>3, <1>4, <1>5 DEF TableStep, tables, Promotes

(* ... and only an insertion makes a draft. *)
Inserts == InsertsWorkflow \/ InsertsDraft

LEMMA OnlyInsertsDraft ==
  ASSUME IInv, TableStep, ~Inserts
  PROVE  \A v \in Versions : version'[v].status = "DRAFT" =>
            version[v].status = "DRAFT" /\ version'[v].wf = version[v].wf
<1>a. version \in [Versions -> VersionRow]
  BY DEF IInv, TypeOK, StoreTypeOK
<1>1. CASE Saves
  BY <1>a, <1>1, SavedRowTyped DEF Saves, SaveDraft
<1>2. CASE Deletes
  BY <1>a, <1>2 DEF Deletes, DeleteDraftVersion, VersionRow
<1>3. CASE Publishes
  <2>1. PICK v \in Versions, n \in Nat, d \in Docs :
           version' = [version EXCEPT ![v] = PublishedRow(v, n, d)]
    BY <1>3 DEF Publishes
  <2> QED BY <1>a, <2>1, PublishedRowTyped
<1>4. CASE Archives
  BY <1>a, <1>4 DEF Archives, ArchiveVersion, VersionRow
<1>5. CASE Invalidates
  BY <1>a, <1>5 DEF Invalidates, SetVersionInvalid, VersionRow
<1> QED BY <1>1, <1>2, <1>3, <1>4, <1>5 DEF TableStep, Inserts, tables, Promotes

(* At most one draft: an insertion finds none (idx_wv_single_draft), or a new *)
(* workflow, of which no version can be there.                               *)
OneDraft ==
    \A w \in Workflows : \A v, x \in Versions : IsDraftOf(v, w) /\ IsDraftOf(x, w) => v = x

LEMMA OneDraftKept == IInv /\ TableStep => OneDraft'
<1> SUFFICES ASSUME IInv, TableStep PROVE OneDraft'
  OBVIOUS
<1>a. version \in [Versions -> VersionRow] /\ OneDraft
  BY DEF IInv, TypeOK, StoreTypeOK, VersionsNumbered, OneDraft
<1>1. CASE Inserts
  <2>1. PICK w \in Workflows, v \in Versions, d \in Docs :
           /\ version' = [version EXCEPT ![v] = [NoRow EXCEPT !.status = "DRAFT", !.wf = w,
                                                             !.xml = d, !.rv = 1]]
           /\ \A x \in Versions : ~IsDraftOf(x, w)
    <3>1. CASE InsertsWorkflow
      <4>1. PICK w \in Workflows, v \in Versions, d \in Docs, m \in Metas :
               InsertWorkflow(w, v, d, m)
        BY <3>1 DEF InsertsWorkflow
      <4>2. \A x \in Versions : ~IsDraftOf(x, w)
        BY <4>1, Rows DEF InsertWorkflow, IsDraftOf
      <4> QED BY <4>1, <4>2 DEF InsertWorkflow
    <3>2. CASE InsertsDraft
      BY <3>2 DEF InsertsDraft, InsertDraft, HasDraft
    <3> QED BY <1>1, <3>1, <3>2 DEF Inserts
  <2>2. /\ version'[v].wf = w
        /\ \A x \in Versions \ {v} : version'[x] = version[x]
    BY <1>a, <2>1 DEF NoRow
  <2> QED BY <1>a, <2>1, <2>2 DEF OneDraft, IsDraftOf
<1>2. CASE ~Inserts
  BY <1>a, <1>2, OnlyInsertsDraft DEF OneDraft, IsDraftOf
<1> QED BY <1>1, <1>2

(* The numbers of a workflow are 1 to as many as there are: the next number   *)
(* is one more than all of them (NextVersionNumber).                         *)
Counting ==
    \A w \in Workflows : {version[v].num : v \in NumbersOf(w)} = 1..Cardinality(NumbersOf(w))

LEMMA CountingKept == IInv /\ TableStep => Counting'
<1> SUFFICES ASSUME IInv, TableStep, NEW w \in Workflows
             PROVE  {version'[v].num : v \in NumbersOf(w)'} = 1..Cardinality(NumbersOf(w)')
  BY DEF Counting
<1>a. /\ version \in [Versions -> VersionRow]
      /\ {version[v].num : v \in NumbersOf(w)} = 1..Cardinality(NumbersOf(w))
      /\ PublishedStays
  BY TablesKeepPublished DEF IInv, TypeOK, StoreTypeOK, VersionsNumbered
<1>b. \A v \in NumbersOf(w) : v \in NumbersOf(w)' /\ version'[v].num = version[v].num
  BY <1>a DEF NumbersOf, PublishedStays, Numbered
<1>1. CASE NumbersOf(w)' = NumbersOf(w)
  BY <1>a, <1>b, <1>1
<1>2. CASE NumbersOf(w)' # NumbersOf(w)
  <2>1. PICK x \in NumbersOf(w)' : x \notin NumbersOf(w)
    BY <1>b, <1>2
  <2>2. Publishes
    BY <1>a, <2>1, OnlyPublishNumbers DEF NumbersOf, PublishedStays
  <2>3. PICK y \in Workflows, v \in Versions, n \in Nat, d \in Docs, token \in Nat :
           /\ DraftAt(v, token)
           /\ version[v].wf = y
           /\ IsNextNumber(n, y)
           /\ version' = [version EXCEPT ![v] = PublishedRow(v, n, d)]
           /\ SetActive(y, v)
    BY <2>2 DEF Publishes
  <2>4. /\ version'[v].status = "PUBLISHED" /\ version'[v].num = n /\ version'[v].wf = y
        /\ \A z \in Versions \ {v} : version'[z] = version[z]
    BY <1>a, <2>3, PublishedRowTyped
  <2>5. y = w /\ x = v /\ v \notin NumbersOf(w) /\ NumbersOf(w)' = NumbersOf(w) \cup {v}
    BY <2>1, <2>3, <2>4 DEF NumbersOf, Numbered, DraftAt
  <2>6. PICK k \in Nat : k = Cardinality(NumbersOf(w)) /\ Cardinality(NumbersOf(w)') = k + 1
    <3>1. IsFiniteSet(NumbersOf(w))
      BY VersionsFinite, FS_Subset DEF NumbersOf
    <3> QED BY <2>5, <3>1, FS_CardinalityType, FS_AddElement
  <2>7. n = k + 1
    <3>1. /\ \A z \in NumbersOf(w) : version[z].num < n
          /\ n = 1 \/ \E z \in NumbersOf(w) : version[z].num = n - 1
      BY <2>3, <2>5 DEF IsNextNumber, NumbersOf
    <3>2. \A i \in 1..k : \E z \in NumbersOf(w) : version[z].num = i
      BY <1>a, <2>6
    <3>3. \A i \in 1..k : i < n
      BY <3>1, <3>2
    <3>4. n = 1 \/ n - 1 \in 1..k
      <4>1. CASE n = 1
        BY <4>1
      <4>2. CASE n # 1
        <5>1. PICK z \in NumbersOf(w) : version[z].num = n - 1
          BY <3>1, <4>2
        <5>2. version[z].num \in {version[q].num : q \in NumbersOf(w)}
          OBVIOUS
        <5>3. version[z].num \in 1..k
          BY <1>a, <2>6, <5>2
        <5> QED BY <5>1, <5>3
      <4> QED BY <4>1, <4>2
    <3>5. n # 0
      BY <3>4
    <3> QED BY <3>3, <3>4, <3>5
  <2>8. {version'[z].num : z \in NumbersOf(w)'} = {version[z].num : z \in NumbersOf(w)} \cup {n}
    BY <1>b, <2>4, <2>5
  <2>9. 1..(k + 1) = (1..k) \cup {k + 1}
    BY <2>6
  <2> QED BY <1>a, <2>6, <2>7, <2>8, <2>9
<1> QED BY <1>1, <1>2

LEMMA VersionsNumberedKept == IInv /\ TableStep => VersionsNumbered'
<1>1. OneDraft' /\ Counting' => VersionsNumbered'
  BY DEF OneDraft, Counting, VersionsNumbered
<1> QED BY <1>1, OneDraftKept, CountingKept

(* The plan and the assignees of a published version: a publish writes both   *)
(* from the document of the row, and nothing writes them again.              *)
LEMMA PlanIsOfOwnSourceKept ==
  IInv /\ TableStep => PlanIsOfOwnSource' /\ AssigneesOfNumbered'
<1> SUFFICES ASSUME IInv, TableStep PROVE PlanIsOfOwnSource' /\ AssigneesOfNumbered'
  OBVIOUS
<1>a. /\ version \in [Versions -> VersionRow]
      /\ assignee \in [Versions -> SUBSET Users]
      /\ PlanIsOfOwnSource /\ AssigneesOfNumbered /\ PublishedStays
  BY TablesKeepPublished DEF IInv, TypeOK, StoreTypeOK
<1>1. CASE Publishes
  <2>1. PICK v \in Versions, n \in Nat, d \in Docs :
           /\ d = version[v].xml
           /\ version' = [version EXCEPT ![v] = PublishedRow(v, n, d)]
           /\ assignee' = [assignee EXCEPT ![v] = AssigneesOf[d]]
    BY <1>1 DEF Publishes
  <2>2. /\ version'[v].status = "PUBLISHED" /\ version'[v].xml = d /\ version'[v].plan = d
        /\ \A x \in Versions \ {v} : version'[x] = version[x]
    BY <1>a, <2>1, PublishedRowTyped
  <2>3. /\ assignee'[v] = AssigneesOf[d]
        /\ \A x \in Versions \ {v} : assignee'[x] = assignee[x]
    BY <1>a, <2>1
  <2> QED BY <1>a, <2>2, <2>3 DEF PlanIsOfOwnSource, AssigneesOfNumbered, Numbered
<1>2. CASE ~Publishes
  <2>1. assignee' = assignee
    BY <1>2 DEF TableStep, tables, InsertsWorkflow, InsertsDraft, Saves, Deletes, Promotes,
                Archives, Invalidates
  <2>2. \A v \in Versions : version'[v].status \in Numbered => version[v].status \in Numbered
    BY <1>2, OnlyPublishNumbers
  <2>3. \A v \in Versions : version[v].status \in Numbered => 
           /\ version'[v].xml = version[v].xml /\ version'[v].plan = version[v].plan
           /\ version'[v].status \in Numbered
    BY <1>a DEF PublishedStays, Numbered
  <2> QED BY <1>a, <2>1, <2>2, <2>3 DEF PlanIsOfOwnSource, AssigneesOfNumbered
<1> QED BY <1>1, <1>2

(* Requests: the others' stay sound, because rows stay; the one that moved is *)
(* sound.                                                                    *)
LEMMA RequestsKept ==
  IInv /\ TableStep /\ Moves => RequestsOK' /\ req' \in [Clients -> Request]
<1> SUFFICES ASSUME IInv, TableStep, Moves
             PROVE  RequestsOK' /\ req' \in [Clients -> Request]
  OBVIOUS
<1>a. RowsStay /\ RowsComplete'
  BY TablesPersist, RowsCompleteKept
<1>b. req \in [Clients -> Request]
  BY DEF IInv, TypeOK
<1>1. ASSUME NEW r, Sound(r) PROVE Sound(r)'
  <2>1. r \in Request /\ r.rv \in Nat /\ r.todo \in SUBSET Versions
    BY <1>1, RequestFields DEF Sound
  <2>2. RequestComplete(r)'
    BY <1>a, <1>1, <2>1 DEF Sound, RequestComplete, RowsStay
  <2>3. CompiledIsCurrent(r)'
    <3> SUFFICES ASSUME r.pc \in {"compiled", "eligibility", "publishing"}
                 PROVE  /\ r.rv <= version'[r.ver].rv
                        /\ version'[r.ver].status = "DRAFT" /\ version'[r.ver].rv = r.rv
                              => version'[r.ver].xml = r.xml
      BY DEF CompiledIsCurrent, DraftAt
    <3>1. /\ r.ver \in Versions
          /\ version[r.ver].status # "absent"
          /\ r.rv <= version[r.ver].rv
          /\ version[r.ver].status = "DRAFT" /\ version[r.ver].rv = r.rv
                => version[r.ver].xml = r.xml
      BY <1>1 DEF Sound, RequestComplete, CompiledIsCurrent, OnVersion, DraftAt
    <3>2. version[r.ver].rv \in Nat /\ version'[r.ver].rv \in Nat
      BY <3>1, Rows, StoreTyped DEF StoreTypeOK, VersionRow
    <3> QED BY <1>a, <2>1, <3>1, <3>2 DEF RowsStay
  <2>4. FetchedIsCurrent(r)'
    <3> SUFFICES ASSUME r.pc \in {"editing", "savingMeta", "saving"}
                 PROVE  /\ r.base \in Versions
                        /\ version'[r.base].status # "absent"
                        /\ r.rv <= version'[r.base].rv
                        /\ version'[r.base].status = "DRAFT" /\ version'[r.base].rv = r.rv
                              => version'[r.base].xml = r.xml
      BY DEF FetchedIsCurrent, DraftAt
    <3>1. /\ r.base \in Versions
          /\ version[r.base].status # "absent"
          /\ r.rv <= version[r.base].rv
          /\ version[r.base].status = "DRAFT" /\ version[r.base].rv = r.rv
                => version[r.base].xml = r.xml
      BY <1>1 DEF Sound, FetchedIsCurrent, DraftAt
    <3>2. version[r.base].rv \in Nat /\ version'[r.base].rv \in Nat
      BY <3>1, Rows, StoreTyped DEF StoreTypeOK, VersionRow
    <3> QED BY <1>a, <2>1, <3>1, <3>2 DEF RowsStay
  <2>5. ComparedIsKept(r)'
    <3> SUFFICES ASSUME r.pc \in {"eligibility", "publishing"}, ~r.force, r.active # None
                 PROVE  /\ version'[r.active].status \in Numbered
                        /\ ShapeOf[r.xml] = ShapeOf[version'[r.active].xml]
      BY DEF ComparedIsKept, SameShape
    <3>1. /\ r.active \in Versions
          /\ version[r.active].status \in Numbered
          /\ ShapeOf[r.xml] = ShapeOf[version[r.active].xml]
      BY <1>1, <2>1, RequestFields DEF Sound, ComparedIsKept, SameShape
    <3> QED BY <3>1, TablesKeepPublished DEF PublishedStays, Numbered
  <2> QED BY <2>1, <2>2, <2>3, <2>4, <2>5 DEF Sound
<1>2. \A c \in Clients : Sound(req[c])'
  <2>1. ASSUME NEW c \in Clients PROVE \E r : r = req'[c] /\ Sound(r)'
    <3>1. CASE req' = req
      BY <1>1, <3>1, SoundRequests
    <3>2. CASE req' # req
      <4>1. PICK x, r : x \in Clients /\ GoTo(x, r) /\ Sound(r)'
        BY <3>2 DEF Moves
      <4>2. CASE c = x
        BY <1>b, <4>1, <4>2 DEF GoTo
      <4>3. CASE c # x
        <5>1. req'[c] = req[c]
          BY <1>b, <4>1, <4>3 DEF GoTo
        <5> QED BY <1>1, <5>1, SoundRequests
      <4> QED BY <4>2, <4>3
    <3> QED BY <3>1, <3>2
  <2> QED BY <2>1 DEF Sound, RequestComplete, CompiledIsCurrent, FetchedIsCurrent,
             ComparedIsKept, DraftAt, SameShape
<1>3. req' \in [Clients -> Request]
  BY <1>b, <1>2 DEF Moves, GoTo, Sound
<1> QED BY <1>2, <1>3 DEF Sound, RequestsOK

-----------------------------------------------------------------------------
(* The lock, the cache and what Org & Membership knows *)

RestTyped ==
    /\ draftLock \in [Workflows -> Clients \cup {None}]
    /\ planCache \in SUBSET Versions
    /\ lostEvict \in SUBSET Versions
    /\ member \in SUBSET Users
    /\ revoked \in SUBSET Revocation
    /\ pending \in SUBSET (1..MaxRevocations)
    /\ unseen \in [Versions -> SUBSET Users]

LEMMA LockTyped ==
  ASSUME IInv, NEW c \in Clients, NEW w, ReleaseLock(c, w) \/ UNCHANGED draftLock
  PROVE  draftLock' \in [Workflows -> Clients \cup {None}]
  BY DEF IInv, TypeOK, ReleaseLock

LEMMA RestTypes == IInv /\ [Next]_vars => RestTyped'
<1> SUFFICES ASSUME IInv, [Next]_vars PROVE RestTyped'
  OBVIOUS
<1>a. RestTyped
  BY DEF IInv, TypeOK, RestTyped
<1> USE DEF RestTyped
<1>1. ASSUME NEW c \in Clients, DraftStep(c) PROVE RestTyped'
  <2>1. CASE SaveBegin(c)
    BY <1>a, <2>1 DEF SaveBegin, cacheVars, memberVars
  <2>2. CASE SaveCommit(c)
    BY <1>a, <2>2, LockTyped DEF SaveCommit, cacheVars, memberVars
  <2> QED BY <1>a, <1>1, <2>1, <2>2
      DEF DraftStep, InitRead, InitCommit, Fetch, SaveReadMeta, DiscardRead, DiscardCommit,
          cacheVars, memberVars
<1>2. ASSUME NEW c \in Clients, VersionStep(c) PROVE RestTyped'
  <2>1. CASE PublishCommit(c)
    <3>1. req[c].xml \in Docs
      BY <2>1, SoundRequests DEF PublishCommit, At, Sound, RequestComplete, WithDocument
    <3>2. AssigneesOf[req[c].xml] \ member \in SUBSET Users
      BY <3>1, AssigneesAreUsers
    <3> QED BY <1>a, <2>1, <3>2 DEF PublishCommit, cacheVars
  <2>2. CASE Evict(c)
    BY <1>a, <2>2 DEF Evict, memberVars
  <2> QED BY <1>a, <1>2, <2>1, <2>2
      DEF VersionStep, Create, CloneRead, CloneCommit, PublishRead, CheckStructure,
          CheckEligibility, PromoteRead, PromoteCommit, ArchiveRead, ArchiveCommit,
          cacheVars, memberVars
<1>3. ASSUME NEW c \in Clients, RevocationStep(c) PROVE RestTyped'
  <2>1. CASE EvictRevoked(c)
    <3>1. req[c].ver \in Versions
      BY <2>1, SoundRequests DEF EvictRevoked, At, Sound, RequestComplete, OnVersion
    <3> QED BY <1>a, <2>1, <3>1 DEF EvictRevoked, memberVars
  <2>2. CASE RevocationFinish(c)
    BY <1>a, <2>2 DEF RevocationFinish, cacheVars
  <2> QED BY <1>a, <1>3, <2>1, <2>2
      DEF RevocationStep, RevocationDeliver, RevocationNext, Invalidate, cacheVars, memberVars
<1>4. ASSUME NEW c \in Clients, PlanStep(c) PROVE RestTyped'
  <2>1. CASE PlanFill(c)
    <3>1. req[c].ver \in Versions
      BY <2>1, SoundRequests DEF PlanFill, At, Sound, RequestComplete, OnVersion
    <3> QED BY <1>a, <2>1, <3>1 DEF PlanFill, memberVars
  <2> QED BY <1>a, <1>4, <2>1
      DEF PlanStep, PlanRead, PlanRecheck, PlanDrop, cacheVars, memberVars
<1>5. ASSUME NEW c \in Clients, Abandon(c) PROVE RestTyped'
  <2>1. LosesEviction(c) => req[c].ver \in Versions
    BY SoundRequests DEF LosesEviction, At, Sound, RequestComplete, OnVersion
  <2> QED BY <1>a, <1>5, <2>1, LockTyped DEF Abandon, memberVars
<1>6. ASSUME NEW u \in Users, Revoke(u) PROVE RestTyped'
  <2>1. PICK id \in 1..MaxRevocations, known \in {{v \in Versions : assignee[v] # {}}, Versions} :
          /\ revoked' = revoked \cup {[id |-> id, user |-> u, known |-> known]}
          /\ pending' = pending \cup {id}
    BY <1>6 DEF Revoke
  <2>2. [id |-> id, user |-> u, known |-> known] \in Revocation
    BY DEF Revocation
  <2> QED BY <1>a, <1>6, <2>1, <2>2 DEF Revoke, cacheVars
<1>7. CASE UNCHANGED vars \/ (\E w \in Workflows : LockExpire(w))
           \/ (\E u \in Users : Rejoin(u)) \/ (\E v \in Versions : PlanExpire(v))
  BY <1>a, <1>7 DEF vars, LockExpire, Rejoin, PlanExpire, cacheVars, memberVars
<1> QED BY <1>1, <1>2, <1>3, <1>4, <1>5, <1>6, <1>7 DEF Next

-----------------------------------------------------------------------------
(* The theorems *)

LEMMA InitIsOk == Init => IInv
<1> SUFFICES ASSUME Init PROVE IInv
  OBVIOUS
<1>1. TypeOK
  BY IdleIsRequest DEF Init, StoreInit, TypeOK, StoreTypeOK, WorkflowRow, VersionRow, NoRow, Status
<1>2. RowsComplete /\ AssigneesOfNumbered /\ ActiveIsPublished /\ PlanIsOfOwnSource
  BY DEF Init, StoreInit, NoRow, RowsComplete, AssigneesOfNumbered, ActiveIsPublished,
         PlanIsOfOwnSource, Numbered
<1>3. RequestsOK
  BY DEF Init, RequestsOK, RequestComplete, CompiledIsCurrent, FetchedIsCurrent,
         ComparedIsKept, Idle, OnWorkflow, OnVersion, WithDocument
<1>4. VersionsNumbered
  <2>1. \A w \in Workflows : NumbersOf(w) = {}
    BY DEF Init, StoreInit, NoRow, NumbersOf, Numbered
  <2>2. \A w \in Workflows, v \in Versions : ~IsDraftOf(v, w)
    BY DEF Init, StoreInit, NoRow, IsDraftOf
  <2>3. \A w \in Workflows : {version[v].num : v \in NumbersOf(w)} = 1..Cardinality(NumbersOf(w))
    BY <2>1, FS_EmptySet
  <2> QED BY <2>2, <2>3 DEF VersionsNumbered
<1> QED BY <1>1, <1>2, <1>3, <1>4 DEF IInv

(* Every step keeps the inductive invariant. *)
LEMMA StepKeepsIInv == IInv /\ [Next]_vars => IInv'
<1> SUFFICES ASSUME IInv, [Next]_vars PROVE IInv'
  OBVIOUS
<1>1. TableStep /\ Moves
  BY TableSteps, RequestSteps
<1>2. RequestsOK' /\ req' \in [Clients -> Request]
  BY <1>1, RequestsKept
<1>3. TypeOK'
  BY <1>1, <1>2, StoreTyped, RestTypes DEF TypeOK, RestTyped
<1> QED BY <1>1, <1>2, <1>3, RowsCompleteKept, ActiveIsPublishedKept, PlanIsOfOwnSourceKept,
           VersionsNumberedKept DEF IInv

(* In every reachable state rows are complete, requests hold what their next  *)
(* step uses, and the draft a publish compiled is the draft its token names: *)
(* the invariant from which the theorems below follow.                       *)
THEOREM Inductive == Spec => []IInv
<1>1. Init => IInv
  BY InitIsOk
<1>2. IInv /\ [Next]_vars => IInv'
  BY StepKeepsIInv
<1> QED BY <1>1, <1>2, PTL DEF Spec

(* Every variable keeps its type. *)
THEOREM TypeCorrect == Spec => []TypeOK
<1>1. IInv => TypeOK
  BY DEF IInv
<1> QED BY <1>1, Inductive, PTL

(* However publishes, promotes, archives and discards of any number of        *)
(* clients interleave, the active pointer names a PUBLISHED version of its   *)
(* own workflow (UpdateActiveVersion, WorkflowService.Archive).              *)
THEOREM ActivePointerSound == Spec => []ActiveIsPublished
<1>1. IInv => ActiveIsPublished
  BY DEF IInv
<1> QED BY <1>1, Inductive, PTL

(* The plan and the assignee rows of a published version were made from the   *)
(* very document it holds, whatever was saved between preflight and commit   *)
(* (PublishVersion's record_version guard).                                  *)
THEOREM PublishedPlanSound == Spec => []PlanIsOfOwnSource
<1>1. IInv => PlanIsOfOwnSource
  BY DEF IInv
<1> QED BY <1>1, Inductive, PTL

(* A published version is immutable but for ARCHIVED and invalid, and never   *)
(* goes away.                                                                *)
THEOREM PublishedImmutable == Spec => PublishedNeverChanges
<1>1. IInv /\ [Next]_vars => [PublishedStays]_version
  BY TableSteps, TablesKeepPublished
<1> QED BY <1>1, Inductive, PTL DEF Spec, PublishedNeverChanges, PublishedStays

(* Version numbers run 1, 2, ... in every workflow, and there is one draft at *)
(* most, however many clients publish and begin drafts at once.              *)
THEOREM NumberedWithoutGaps == Spec => []VersionsNumbered
<1>1. IInv => VersionsNumbered
  BY DEF IInv
<1> QED BY <1>1, Inductive, PTL

-----------------------------------------------------------------------------
(* What single steps never do *)

SaveKeepsWork ==
    \A c \in Clients, v \in Versions :
        SavesOver(c, v) /\ req[c].base = v => version[v].xml = req[c].xml

LEMMA SavesOverWhatWasFetched == IInv => SaveKeepsWork
<1> SUFFICES ASSUME IInv, NEW c \in Clients, NEW v \in Versions,
                    SavesOver(c, v), req[c].base = v
             PROVE  version[v].xml = req[c].xml
  BY DEF SaveKeepsWork
<1>1. req[c].pc = "saving" /\ DraftAt(v, req[c].rv)
  BY DEF SavesOver, SaveCommit, SaveDraft, At
<1>2. FetchedIsCurrent(req[c])
  BY SoundRequests DEF Sound
<1> QED BY <1>1, <1>2 DEF FetchedIsCurrent

(* A save replaces what its client fetched, if the draft is the one fetched:  *)
(* the token of UpdateDraftVersion is enough, even when the lock expires.    *)
THEOREM NoWorkLostInDraft == Spec => NoSaveLostInDraft
<1>1. IInv => SaveKeepsWork
  BY SavesOverWhatWasFetched
<1> QED BY <1>1, Inductive, PTL DEF NoSaveLostInDraft, SaveKeepsWork

PublishKeepsShape ==
    \A c \in Clients :
        LET r == req[c]
            a == workflow[r.wf].active
        IN  PublishCommit(c) /\ ~r.force /\ a = r.active
               => SameShape(version'[r.ver].xml, a)

LEMMA PublishesWhatWasCompared == IInv => PublishKeepsShape
<1> SUFFICES ASSUME IInv, NEW c \in Clients, PublishCommit(c), ~req[c].force,
                    workflow[req[c].wf].active = req[c].active
             PROVE  SameShape(version'[req[c].ver].xml, req[c].active)
  BY DEF PublishKeepsShape
<1>1. req[c].pc = "publishing" /\ DraftAt(req[c].ver, req[c].rv)
  BY DEF PublishCommit, At
<1>2. Sound(req[c])
  BY SoundRequests
<1>3. req[c].ver \in Versions /\ version[req[c].ver] \in VersionRow /\ req[c].xml \in Docs
      /\ version[req[c].ver].xml = req[c].xml
  BY <1>1, <1>2, Rows DEF Sound, RequestComplete, CompiledIsCurrent, OnVersion, WithDocument
<1>4. PICK n \in 1..Cardinality(Versions) :
         version' = [version EXCEPT ![req[c].ver] = PublishedRow(req[c].ver, n, req[c].xml)]
  BY DEF PublishCommit
<1>5. n \in Nat
  BY <1>4, VersionsFinite, FS_CardinalityType
<1>6. version'[req[c].ver].xml = req[c].xml
  BY <1>3, <1>4, <1>5, PublishedRowTyped DEF IInv, TypeOK, StoreTypeOK
<1>7. SameShape(req[c].xml, req[c].active)
  BY <1>1, <1>2 DEF Sound, ComparedIsKept, SameShape
<1> QED BY <1>6, <1>7

(* An unforced publish leaves the structure its preflight compared with, as   *)
(* long as the pointer has not moved (checkStructuralDivergence).            *)
THEOREM UnforcedPublishKeepsShape == Spec => UnforcedKeepsShape
<1>1. IInv => PublishKeepsShape
  BY PublishesWhatWasCompared
<1> QED BY <1>1, Inductive, PTL DEF UnforcedKeepsShape, PublishKeepsShape

LockIsHolders ==
    \A w \in Workflows :
        draftLock[w] # None /\ draftLock'[w] # draftLock[w]
           => \/ UNCHANGED req
              \/ req'[draftLock[w]] # req[draftLock[w]]

LEMMA LocksAreFreedByHolders == IInv /\ [Next]_vars => LockIsHolders
<1> SUFFICES ASSUME IInv, [Next]_vars, NEW w \in Workflows,
                    draftLock[w] # None, draftLock'[w] # draftLock[w], req' # req
             PROVE  req'[draftLock[w]] # req[draftLock[w]]
  BY DEF LockIsHolders
<1>a. draftLock \in [Workflows -> Clients \cup {None}] /\ req \in [Clients -> Request]
  BY DEF IInv, TypeOK
<1>1. ASSUME NEW c \in Clients, NEW x, ReleaseLock(c, x), Done(c), req[c].pc # "idle"
      PROVE  req'[draftLock[w]] # req[draftLock[w]]
  <2>1. draftLock[w] = c
    BY <1>a, <1>1 DEF ReleaseLock
  <2>2. req'[c].pc = "idle"
    BY <1>a, <1>1 DEF Done, GoTo, Idle
  <2> QED BY <1>1, <2>1, <2>2
<1>2. ASSUME NEW c \in Clients, DraftStep(c) PROVE req'[draftLock[w]] # req[draftLock[w]]
  <2>1. CASE SaveBegin(c)
    BY <1>a, <2>1 DEF SaveBegin
  <2>2. CASE SaveCommit(c)
    BY <1>1, <2>2 DEF SaveCommit, At
  <2> QED BY <1>2, <2>1, <2>2
      DEF DraftStep, InitRead, InitCommit, Fetch, SaveReadMeta, DiscardRead, DiscardCommit
<1>3. ASSUME NEW c \in Clients, Abandon(c) PROVE req'[draftLock[w]] # req[draftLock[w]]
  BY <1>1, <1>3 DEF Abandon
<1>4. ASSUME NEW c \in Clients, VersionStep(c) \/ RevocationStep(c) \/ PlanStep(c)
      PROVE  UNCHANGED draftLock
  BY <1>4 DEF VersionStep, Create, CloneRead, CloneCommit, PublishRead, CheckStructure,
          CheckEligibility, PublishCommit, PromoteRead, PromoteCommit, ArchiveRead,
          ArchiveCommit, Evict, RevocationStep, RevocationDeliver, RevocationNext,
          Invalidate, EvictRevoked, RevocationFinish, PlanStep, PlanRead, PlanFill,
          PlanRecheck, PlanDrop
<1>5. (UNCHANGED vars \/ (\E x \in Workflows : LockExpire(x))
         \/ (\E u \in Users : Revoke(u) \/ Rejoin(u)) \/ (\E v \in Versions : PlanExpire(v)))
      => req' = req
  BY DEF vars, LockExpire, Revoke, Rejoin, PlanExpire
<1> QED BY <1>2, <1>3, <1>4, <1>5 DEF Next

(* No request frees another's draft lock: the release compares the token.     *)
THEOREM LocksFreedByHolder == Spec => LockFreedByHolder
<1>1. IInv /\ [Next]_vars => LockIsHolders
  BY LocksAreFreedByHolders
<1> QED BY <1>1, Inductive, PTL DEF Spec, LockFreedByHolder, LockIsHolders

-----------------------------------------------------------------------------
(* The quota *)

(* What keeps a workflow out of use: no draft begins, no pointer is set.      *)
LEMMA InUseFrom ==
  ASSUME NEW w \in Workflows, w \in InUse',
         workflow'[w].exists => workflow[w].exists,
         workflow'[w].active # None => workflow[w].active # None,
         \A v \in Versions : IsDraftOf(v, w)' => IsDraftOf(v, w)
  PROVE  w \in InUse
  BY DEF InUse, HasDraft

LEMMA InUseFindsRoom ==
  IInv /\ TableStep /\ ~BelowQuota /\ ~InitCommits => InUse' \subseteq InUse
<1> SUFFICES ASSUME IInv, TableStep, ~BelowQuota, ~InitCommits, NEW w \in Workflows, w \in InUse'
             PROVE  w \in InUse
  BY DEF InUse
<1>a. workflow \in [Workflows -> WorkflowRow]
  BY DEF IInv, TypeOK, StoreTypeOK
<1>b. \A v \in Versions : IsDraftOf(v, w)' => IsDraftOf(v, w)
  BY OnlyInsertsDraft DEF Inserts, InsertsWorkflow, InsertsDraft, IsDraftOf
<1>1. CASE UNCHANGED workflow
  BY <1>b, <1>1, InUseFrom
<1>2. CASE Saves
  <2>1. PICK x \in Workflows, m \in Metas : workflow' \in {workflow, [workflow EXCEPT ![x].meta = m]}
    BY <1>2 DEF Saves
  <2>2. workflow'[w].exists = workflow[w].exists /\ workflow'[w].active = workflow[w].active
    BY <1>a, <2>1 DEF WorkflowRow
  <2> QED BY <1>b, <2>2, InUseFrom
<1>3. CASE Publishes
  <2>1. PICK x \in Workflows, v \in Versions, token \in Nat :
           /\ workflow[x].exists
           /\ DraftAt(v, token)
           /\ version[v].wf = x
           /\ SetActive(x, v)
    BY <1>3 DEF Publishes
  <2>2. x \in InUse
    BY <2>1 DEF InUse, HasDraft, IsDraftOf, DraftAt
  <2>3. w # x => workflow'[w] = workflow[w]
    BY <1>a, <2>1 DEF SetActive
  <2> QED BY <1>b, <2>2, <2>3, InUseFrom
<1>4. CASE Promotes
  <2>1. PICK x \in Workflows, v \in Versions :
           /\ workflow[x].exists
           /\ workflow[x].active # None \/ HasDraft(x)
           /\ SetActive(x, v)
    BY <1>4 DEF Promotes
  <2>2. x \in InUse
    BY <2>1 DEF InUse
  <2>3. w # x => workflow'[w] = workflow[w]
    BY <1>a, <2>1 DEF SetActive
  <2> QED BY <1>b, <2>2, <2>3, InUseFrom
<1>5. CASE Archives
  <2>1. PICK x \in Workflows : SetActive(x, None)
    BY <1>5 DEF Archives
  <2>2. /\ workflow'[w].exists = workflow[w].exists
        /\ workflow'[w].active \in {workflow[w].active, None}
    BY <1>a, <2>1 DEF SetActive, WorkflowRow
  <2> QED BY <1>b, <2>2, InUseFrom
<1> QED BY <1>1, <1>2, <1>3, <1>4, <1>5
        DEF TableStep, tables, InsertsWorkflow, InsertsDraft, Deletes, Invalidates

(* Except through DraftService.Init, no interleaving of creates, clones,      *)
(* publishes, promotes and archives puts a template into use without room.   *)
THEOREM QuotaPassedOnlyByInit == Spec => OnlyInitPassesQuota
<1>1. IInv /\ [Next]_vars =>
         [~BelowQuota /\ ~(InUse' \subseteq InUse)
            => \E c \in Clients : InitCommit(c)]_<<workflow, version>>
  BY TableSteps, InUseFindsRoom DEF InitCommits
<1> QED BY <1>1, Inductive, PTL DEF Spec, OnlyInitPassesQuota

-----------------------------------------------------------------------------
(* What a step is to the revocations and to the plan cache. *)

Handling == {"revoking", "invalidating", "evictRevoked"}
Owing == {"evicting", "rechecking", "dropping"}
Elsewhere == Stage \ (Handling \cup Owing \cup {"filling"})
OthersStay(c) == \A x \in Clients \ {c} : req'[x] = req[x]
SameDelivery(c) == req'[c].event = req[c].event /\ req'[c].failed = req[c].failed

(* A step of the lifecycle proper. *)
Ordinary(c) ==
    /\ req[c].pc \in Elsewhere /\ req'[c].pc \in Elsewhere
    /\ UNCHANGED <<cacheVars, member, revoked, pending>>
    /\ UNCHANGED <<assignee, unseen>> \/ PublishCommit(c)

ArchivesActive(c) ==
    /\ req[c].pc = "archiving" /\ req'[c].pc = "evicting"
    /\ UNCHANGED <<cacheVars, memberVars, assignee>>

Abandons(c) ==
    /\ req'[c].pc = "idle"
    /\ lostEvict' = IF LosesEviction(c) THEN lostEvict \cup {req[c].ver} ELSE lostEvict
    /\ UNCHANGED <<tables, planCache, memberVars>>

Evicts(c) ==
    /\ req[c].pc \in {"evicting", "dropping"} /\ req'[c].pc = "idle"
    /\ planCache' = planCache \ {req[c].ver}
    /\ UNCHANGED <<tables, lostEvict, memberVars>>

Begins(c) ==
    /\ req[c].pc = "idle" /\ req'[c].pc = "revoking"
    /\ req'[c].event \in revoked /\ req'[c].todo = Affected(req'[c].event)
    /\ UNCHANGED <<tables, cacheVars, memberVars>>

Looks(c) ==
    /\ req[c].pc = "revoking" /\ req'[c].ver \in req[c].todo /\ SameDelivery(c)
    /\ req'[c].todo = req[c].todo \ {req'[c].ver}
    /\ \/ req'[c].pc = "invalidating"
       \/ req'[c].pc = "revoking" /\ version[req'[c].ver].status \in {"ARCHIVED", "deleted"}
    /\ UNCHANGED <<tables, cacheVars, memberVars>>

Marks(c) ==
    /\ req[c].pc = "invalidating" /\ req'[c].pc = "evictRevoked" /\ SameDelivery(c)
    /\ req'[c].ver = req[c].ver /\ req'[c].todo = req[c].todo
    /\ ~version'[req[c].ver].valid
    /\ UNCHANGED <<assignee, cacheVars, memberVars>>

Drops(c) ==
    /\ req[c].pc = "evictRevoked" /\ req'[c].pc = "revoking"
    /\ req'[c].event = req[c].event /\ req'[c].todo = req[c].todo
    /\ \/ /\ planCache' = planCache \ {req[c].ver}
          /\ req'[c].failed = req[c].failed
          /\ UNCHANGED lostEvict
       \/ /\ req'[c].failed
          /\ lostEvict' = IF LosesEviction(c) THEN lostEvict \cup {req[c].ver} ELSE lostEvict
          /\ UNCHANGED planCache
    /\ UNCHANGED <<tables, memberVars>>

Finishes(c) ==
    /\ req[c].pc = "revoking" /\ req[c].todo = {} /\ req'[c].pc = "idle"
    /\ pending' = IF req[c].failed THEN pending ELSE pending \ {req[c].event.id}
    /\ UNCHANGED <<tables, cacheVars, member, revoked, unseen>>

Reads(c) ==
    /\ req[c].pc = "idle" /\ req'[c].pc = "filling"
    /\ req'[c].ver \in Versions /\ Live(req'[c].ver)
    /\ UNCHANGED <<tables, cacheVars, memberVars>>

Fills(c) ==
    /\ req[c].pc = "filling"
    /\ planCache' = planCache \cup {req[c].ver}
    /\ \/ req'[c].pc = "rechecking" /\ req'[c].ver = req[c].ver /\ UNCHANGED lostEvict
       \/ req'[c].pc = "idle" /\ lostEvict' = lostEvict \cup {req[c].ver}
    /\ UNCHANGED <<tables, memberVars>>

Rechecks(c) ==
    /\ req[c].pc = "rechecking"
    /\ \/ req'[c].pc = "idle" /\ Live(req[c].ver)
       \/ req'[c].pc = "dropping" /\ req'[c].ver = req[c].ver
    /\ UNCHANGED <<tables, cacheVars, memberVars>>

Delivers(c) == Begins(c) \/ Looks(c) \/ Marks(c) \/ Drops(c) \/ Finishes(c)
Caches(c) == Reads(c) \/ Fills(c) \/ Rechecks(c)
Effect(c) ==
    /\ OthersStay(c)
    /\ \/ Ordinary(c) \/ ArchivesActive(c) \/ Abandons(c) \/ Evicts(c)
       \/ Delivers(c) \/ Caches(c)

World ==
    /\ UNCHANGED <<tables, req>>
    /\ \/ UNCHANGED <<cacheVars, memberVars>>
       \/ \E u \in Users : Revoke(u) \/ Rejoin(u)
       \/ \E v \in Versions : PlanExpire(v)

(* A step that reads for an operation which has just begun. *)
LEMMA StartIsOrdinary ==
  ASSUME IInv, NEW c \in Clients, NEW r, GoTo(c, r), At(c, "idle"), r.pc \in Elsewhere,
         UNCHANGED <<tables, cacheVars, memberVars>>
  PROVE  Effect(c)
<1>1. req'[c] = r /\ OthersStay(c)
  BY DEF IInv, TypeOK, GoTo, OthersStay
<1> QED BY <1>1 DEF Effect, Ordinary, Elsewhere, Handling, Owing, Stage, At, tables, memberVars

(* A commit that answers the request. *)
LEMMA DoneIsOrdinary ==
  ASSUME IInv, NEW c \in Clients, Done(c), req[c].pc \in Elsewhere,
         UNCHANGED <<cacheVars, member, revoked, pending>>,
         UNCHANGED <<assignee, unseen>> \/ PublishCommit(c)
  PROVE  Effect(c)
<1>1. req'[c].pc = "idle" /\ OthersStay(c)
  BY DEF IInv, TypeOK, Done, GoTo, Idle, OthersStay
<1> QED BY <1>1 DEF Effect, Ordinary, Elsewhere, Handling, Owing, Stage

LEMMA DraftStepEffect ==
  ASSUME IInv, NEW c \in Clients, DraftStep(c)
  PROVE  Effect(c)
<1>a. req \in [Clients -> Request] /\ req[c] \in Request
  BY DEF IInv, TypeOK
<1> USE DEF Elsewhere, Handling, Owing, Stage
<1>1. CASE InitRead(c)
  <2>1. PICK w, r : /\ r = [Idle EXCEPT !.pc = "initDraft", !.wf = w,
                                  !.xml = version[workflow[w].active].xml]
                    /\ GoTo(c, r)
    BY <1>1 DEF InitRead
  <2>2. r.pc \in Elsewhere
    BY <2>1 DEF Idle
  <2> QED BY <1>1, <2>1, <2>2, StartIsOrdinary DEF InitRead, MayStart
<1>2. CASE Fetch(c)
  <2>1. PICK w, v, r : /\ r = [Idle EXCEPT !.pc = "editing", !.wf = w, !.base = v,
                                  !.rv = version[v].rv, !.xml = version[v].xml,
                                  !.meta = workflow[w].meta]
                       /\ GoTo(c, r)
    BY <1>2 DEF Fetch
  <2>2. r.pc \in Elsewhere
    BY <2>1 DEF Idle
  <2> QED BY <1>2, <2>1, <2>2, StartIsOrdinary DEF Fetch, MayStart
<1>3. CASE DiscardRead(c)
  <2>1. PICK v, r : r = [Idle EXCEPT !.pc = "discarding", !.ver = v] /\ GoTo(c, r)
    BY <1>3 DEF DiscardRead
  <2>2. r.pc \in Elsewhere
    BY <2>1 DEF Idle
  <2> QED BY <1>3, <2>1, <2>2, StartIsOrdinary DEF DiscardRead, MayStart
<1>4. CASE InitCommit(c) \/ SaveCommit(c) \/ DiscardCommit(c)
  BY <1>4, DoneIsOrdinary DEF InitCommit, SaveCommit, DiscardCommit, At, memberVars
<1>5. CASE SaveBegin(c)
  <2>1. PICK v, p, stage :
           /\ v \in Versions /\ p \in Patches
           /\ stage = SaveStage(p)
           /\ req' = [req EXCEPT ![c] = [req[c] EXCEPT !.ver = v, !.patch = p, !.pc = stage]]
    BY <1>5 DEF SaveBegin, GoTo
  <2>2. req'[c].pc \in {"saving", "savingMeta"} /\ OthersStay(c)
    BY <1>a, <2>1 DEF Request, SaveStage, OthersStay
  <2> QED BY <1>5, <2>2 DEF SaveBegin, At, Effect, Ordinary, tables, memberVars
<1>6. CASE SaveReadMeta(c)
  <2>1. PICK q : req' = [req EXCEPT ![c] = [req[c] EXCEPT !.pc = "saving", !.patch = q]]
    BY <1>6 DEF SaveReadMeta, GoTo
  <2>2. req'[c].pc = "saving" /\ OthersStay(c)
    BY <1>a, <2>1 DEF Request, OthersStay
  <2> QED BY <1>6, <2>2 DEF SaveReadMeta, At, Effect, Ordinary, tables, memberVars
<1> QED BY <1>1, <1>2, <1>3, <1>4, <1>5, <1>6, DraftStep(c) DEF DraftStep

LEMMA VersionStepEffect ==
  ASSUME IInv, NEW c \in Clients, VersionStep(c)
  PROVE  Effect(c)
<1>a. req \in [Clients -> Request] /\ req[c] \in Request
  BY DEF IInv, TypeOK
<1> USE DEF Elsewhere, Handling, Owing, Stage
<1>1. CASE Create(c)
  BY <1>1 DEF Create, MayStart, At, Effect, Ordinary, OthersStay, memberVars
<1>2. CASE CloneRead(c)
  <2>1. PICK v, r : r = [Idle EXCEPT !.pc = "cloning", !.xml = version[v].xml] /\ GoTo(c, r)
    BY <1>2 DEF CloneRead
  <2>2. r.pc \in Elsewhere
    BY <2>1 DEF Idle
  <2> QED BY <1>2, <2>1, <2>2, StartIsOrdinary DEF CloneRead, MayStart
<1>3. CASE PublishRead(c)
  <2>1. PICK w, v, force, r :
           /\ r = [Idle EXCEPT !.pc = "compiled", !.wf = w, !.ver = v,
                               !.rv = version[v].rv, !.xml = version[v].xml,
                               !.force = force]
           /\ GoTo(c, r)
    BY <1>3 DEF PublishRead
  <2>2. r.pc \in Elsewhere
    BY <2>1 DEF Idle
  <2> QED BY <1>3, <2>1, <2>2, StartIsOrdinary DEF PublishRead, MayStart
<1>4. CASE PromoteRead(c)
  <2>1. PICK w, v, r : /\ r = [Idle EXCEPT !.pc = "promoting", !.wf = w, !.ver = v]
                       /\ GoTo(c, r)
    BY <1>4 DEF PromoteRead
  <2>2. r.pc \in Elsewhere
    BY <2>1 DEF Idle
  <2> QED BY <1>4, <2>1, <2>2, StartIsOrdinary DEF PromoteRead, MayStart
<1>5. CASE ArchiveRead(c)
  <2>1. PICK w, r : r = [Idle EXCEPT !.pc = "archiving", !.wf = w] /\ GoTo(c, r)
    BY <1>5 DEF ArchiveRead
  <2>2. r.pc \in Elsewhere
    BY <2>1 DEF Idle
  <2> QED BY <1>5, <2>1, <2>2, StartIsOrdinary DEF ArchiveRead, MayStart
<1>6. CASE CloneCommit(c) \/ PublishCommit(c) \/ PromoteCommit(c)
  <2>1. req[c].pc \in Elsewhere /\ Done(c) /\ UNCHANGED <<cacheVars, member, revoked, pending>>
    BY <1>6 DEF CloneCommit, PublishCommit, PromoteCommit, At, memberVars
  <2>2. UNCHANGED <<assignee, unseen>> \/ PublishCommit(c)
    BY <1>6 DEF CloneCommit, PromoteCommit, memberVars
  <2> QED BY <2>1, <2>2, DoneIsOrdinary
<1>7. CASE CheckStructure(c)
  <2>1. PICK a : req' = [req EXCEPT ![c] = [req[c] EXCEPT !.pc = "eligibility", !.active = a]]
    BY <1>7 DEF CheckStructure, GoTo
  <2>2. req'[c].pc = "eligibility" /\ OthersStay(c)
    BY <1>a, <2>1 DEF Request, OthersStay
  <2> QED BY <1>7, <2>2 DEF CheckStructure, At, Effect, Ordinary, tables, memberVars
<1>8. CASE CheckEligibility(c)
  <2>1. req'[c].pc = "publishing" /\ OthersStay(c)
    BY <1>a, <1>8 DEF CheckEligibility, GoTo, Request, OthersStay
  <2> QED BY <1>8, <2>1 DEF CheckEligibility, At, Effect, Ordinary, tables, memberVars
<1>9. CASE ArchiveCommit(c)
  <2>1. PICK v : req' = [req EXCEPT ![c] = [req[c] EXCEPT !.pc = "evicting", !.ver = v]]
    BY <1>9 DEF ArchiveCommit, GoTo
  <2>2. req'[c].pc = "evicting" /\ OthersStay(c)
    BY <1>a, <2>1 DEF Request, OthersStay
  <2> QED BY <1>9, <2>2 DEF ArchiveCommit, At, Effect, ArchivesActive
<1>10. CASE Evict(c)
  <2>1. req'[c].pc = "idle" /\ OthersStay(c)
    BY <1>a, <1>10 DEF Evict, Done, GoTo, Idle, OthersStay
  <2> QED BY <1>10, <2>1 DEF Evict, At, Effect, Evicts
<1> QED BY <1>1, <1>2, <1>3, <1>4, <1>5, <1>6, <1>7, <1>8, <1>9, <1>10, VersionStep(c)
        DEF VersionStep

LEMMA RevocationStepEffect ==
  ASSUME IInv, NEW c \in Clients, RevocationStep(c)
  PROVE  Effect(c)
<1>a. req \in [Clients -> Request] /\ req[c] \in Request
  BY DEF IInv, TypeOK
<1>b. OthersStay(c)
  BY <1>a DEF RevocationStep, RevocationDeliver, RevocationNext, Invalidate, EvictRevoked,
              RevocationFinish, GoTo, Done, OthersStay
<1> SUFFICES Delivers(c)
  BY <1>b DEF Effect
<1> USE DEF At
<1>1. CASE RevocationDeliver(c)
  <2>1. PICK e, r : /\ e \in revoked
                    /\ r = [Idle EXCEPT !.pc = "revoking", !.event = e, !.todo = Affected(e)]
                    /\ req' = [req EXCEPT ![c] = r]
    BY <1>1 DEF RevocationDeliver, GoTo
  <2>2. r.pc = "revoking" /\ r.event = e /\ r.todo = Affected(e) /\ req'[c] = r
    BY <1>a, <2>1 DEF Idle
  <2>3. Begins(c)
    BY <1>1, <2>1, <2>2 DEF RevocationDeliver, MayStart, Begins
  <2> QED BY <2>3 DEF Delivers
<1>2. CASE RevocationNext(c)
  <2>1. PICK v, stage, r :
           /\ v \in req[c].todo
           /\ \/ stage = "invalidating"
              \/ stage = "revoking" /\ version[v].status \in {"ARCHIVED", "deleted"}
           /\ r = [req[c] EXCEPT !.todo = @ \ {v}, !.ver = v, !.pc = stage]
           /\ req' = [req EXCEPT ![c] = r]
    BY <1>2 DEF RevocationNext, GoTo
  <2>2. /\ r.pc = stage /\ r.ver = v /\ r.todo = req[c].todo \ {v}
        /\ r.event = req[c].event /\ r.failed = req[c].failed /\ req'[c] = r
    BY <1>a, <2>1 DEF Request
  <2>3. Looks(c)
    BY <1>2, <2>1, <2>2 DEF RevocationNext, Looks, SameDelivery
  <2> QED BY <2>3 DEF Delivers
<1>3. CASE Invalidate(c)
  <2>1. PICK r : r = [req[c] EXCEPT !.pc = "evictRevoked"] /\ req' = [req EXCEPT ![c] = r]
    BY <1>3 DEF Invalidate, GoTo
  <2>2. /\ r.pc = "evictRevoked" /\ r.ver = req[c].ver /\ r.todo = req[c].todo
        /\ r.event = req[c].event /\ r.failed = req[c].failed /\ req'[c] = r
    BY <1>a, <2>1 DEF Request
  <2>3. req[c].pc = "invalidating" /\ req[c].ver \in Versions
    BY <1>3, SoundRequests DEF Invalidate, Sound, RequestComplete, OnVersion
  <2>4. ~version'[req[c].ver].valid
    BY <1>3, <2>3, Rows DEF Invalidate, SetVersionInvalid, IInv, TypeOK, StoreTypeOK, VersionRow
  <2>5. Marks(c)
    BY <1>3, <2>2, <2>3, <2>4 DEF Invalidate, Marks, SameDelivery
  <2> QED BY <2>5 DEF Delivers
<1>4. CASE EvictRevoked(c)
  <2>1. PICK r :
           /\ \/ /\ r = [req[c] EXCEPT !.pc = "revoking"]
                 /\ planCache' = planCache \ {req[c].ver}
                 /\ UNCHANGED lostEvict
              \/ /\ r = [req[c] EXCEPT !.pc = "revoking", !.failed = TRUE]
                 /\ lostEvict' = IF LosesEviction(c) THEN lostEvict \cup {req[c].ver} ELSE lostEvict
                 /\ UNCHANGED planCache
           /\ req' = [req EXCEPT ![c] = r]
    BY <1>4 DEF EvictRevoked, GoTo
  <2>2. /\ r.pc = "revoking" /\ r.todo = req[c].todo /\ r.event = req[c].event
        /\ req'[c] = r
    BY <1>a, <2>1 DEF Request
  <2>3. r = [req[c] EXCEPT !.pc = "revoking"] => r.failed = req[c].failed
    BY <1>a DEF Request
  <2>4. r = [req[c] EXCEPT !.pc = "revoking", !.failed = TRUE] => r.failed
    BY <1>a DEF Request
  <2>5. Drops(c)
    BY <1>4, <2>1, <2>2, <2>3, <2>4 DEF EvictRevoked, Drops
  <2> QED BY <2>5 DEF Delivers
<1>5. CASE RevocationFinish(c)
  <2>1. req'[c].pc = "idle"
    BY <1>a, <1>5 DEF RevocationFinish, Done, GoTo, Idle
  <2>2. Finishes(c)
    BY <1>5, <2>1 DEF RevocationFinish, Finishes
  <2> QED BY <2>2 DEF Delivers
<1> QED BY <1>1, <1>2, <1>3, <1>4, <1>5, RevocationStep(c) DEF RevocationStep

LEMMA PlanStepEffect ==
  ASSUME IInv, NEW c \in Clients, PlanStep(c)
  PROVE  Effect(c)
<1>a. req \in [Clients -> Request] /\ req[c] \in Request
  BY DEF IInv, TypeOK
<1>b. OthersStay(c)
  BY <1>a DEF PlanStep, PlanRead, PlanFill, PlanRecheck, PlanDrop, GoTo, Done, OthersStay
<1>c. Done(c) => req'[c].pc = "idle"
  BY <1>a DEF Done, GoTo, Idle
<1>d. \A stage \in {"rechecking", "dropping"} :
         GoTo(c, [req[c] EXCEPT !.pc = stage]) => req'[c].pc = stage /\ req'[c].ver = req[c].ver
  BY <1>a DEF GoTo, Request
<1> USE DEF At
<1>1. CASE PlanRead(c)
  <2>1. PICK v, r : /\ v \in Versions /\ Live(v)
                    /\ r = [Idle EXCEPT !.pc = "filling", !.ver = v]
                    /\ req' = [req EXCEPT ![c] = r]
    BY <1>1 DEF PlanRead, GoTo
  <2>2. r.pc = "filling" /\ r.ver = v /\ req'[c] = r
    BY <1>a, <2>1 DEF Idle
  <2>3. Reads(c)
    BY <1>1, <2>1, <2>2 DEF PlanRead, MayStart, Reads
  <2> QED BY <1>b, <2>3 DEF Effect, Caches
<1>2. CASE PlanFill(c)
  <2>1. Fills(c)
    BY <1>2, <1>c, <1>d DEF PlanFill, Fills
  <2> QED BY <1>b, <2>1 DEF Effect, Caches
<1>3. CASE PlanRecheck(c)
  <2>1. Rechecks(c)
    BY <1>3, <1>c, <1>d DEF PlanRecheck, Rechecks
  <2> QED BY <1>b, <2>1 DEF Effect, Caches
<1>4. CASE PlanDrop(c)
  <2>1. Evicts(c)
    BY <1>4, <1>c DEF PlanDrop, Evicts
  <2> QED BY <1>b, <2>1 DEF Effect
<1> QED BY <1>1, <1>2, <1>3, <1>4, PlanStep(c) DEF PlanStep

LEMMA StepEffects == IInv /\ [Next]_vars => World \/ \E c \in Clients : Effect(c)
<1> SUFFICES ASSUME IInv, [Next]_vars PROVE World \/ \E c \in Clients : Effect(c)
  OBVIOUS
<1>1. ASSUME NEW c \in Clients, Abandon(c) PROVE Effect(c)
  <2>1. req'[c].pc = "idle" /\ OthersStay(c)
    BY <1>1 DEF Abandon, Done, GoTo, Idle, OthersStay, IInv, TypeOK
  <2> QED BY <1>1, <2>1 DEF Abandon, Abandons, Effect
<1>2. CASE UNCHANGED vars \/ (\E w \in Workflows : LockExpire(w))
  BY <1>2 DEF vars, LockExpire, World, tables, cacheVars, memberVars
<1>3. CASE (\E u \in Users : Revoke(u) \/ Rejoin(u)) \/ (\E v \in Versions : PlanExpire(v))
  BY <1>3 DEF Revoke, Rejoin, PlanExpire, World
<1> QED BY <1>1, <1>2, <1>3, DraftStepEffect, VersionStepEffect, RevocationStepEffect,
           PlanStepEffect DEF Next

-----------------------------------------------------------------------------
(* What the steps leave to the revocations. *)

(* A version with assignee rows keeps them, and no version loses one. *)
RowsKept ==
    \A v \in Versions : /\ assignee[v] # {} => assignee'[v] = assignee[v]
                        /\ assignee[v] \subseteq assignee'[v]

LEMMA AssigneeRowsKept == IInv /\ TableStep => RowsKept
<1> SUFFICES ASSUME IInv, TableStep PROVE RowsKept
  OBVIOUS
<1>a. assignee \in [Versions -> SUBSET Users]
  BY DEF IInv, TypeOK, StoreTypeOK
<1>1. CASE Publishes
  <2>1. PICK v \in Versions, d \in Docs : version[v].status = "DRAFT"
                                           /\ assignee' = [assignee EXCEPT ![v] = AssigneesOf[d]]
    BY <1>1 DEF Publishes, DraftAt
  <2>2. assignee[v] = {}
    BY <2>1 DEF IInv, AssigneesOfNumbered, Numbered
  <2> QED BY <1>a, <2>1, <2>2 DEF RowsKept
<1>2. CASE UNCHANGED assignee
  BY <1>2 DEF RowsKept
<1> QED BY <1>1, <1>2 DEF TableStep, tables, InsertsWorkflow, InsertsDraft, Saves, Deletes,
                          Promotes, Archives, Invalidates

(* Only a publish makes a version live. *)
LiveOnlyByPublish ==
    \A v \in Versions : Live(v)' => Live(v) \/ (Publishes /\ ~(version[v].status \in Numbered))

LEMMA LiveByPublish == IInv /\ TableStep => LiveOnlyByPublish
<1> SUFFICES ASSUME IInv, TableStep, NEW v \in Versions, Live(v)', ~Live(v)
             PROVE  Publishes /\ ~(version[v].status \in Numbered)
  BY DEF LiveOnlyByPublish
<1>1. version'[v].status = "PUBLISHED" /\ version'[v].valid
  BY DEF Live
<1>2. ~(version[v].status \in Numbered)
  BY <1>1, TablesKeepPublished DEF PublishedStays, Live, Numbered
<1>3. Publishes
  BY <1>1, <1>2, OnlyPublishNumbers DEF Numbered
<1> QED BY <1>2, <1>3

(* A version becomes invalid by an invalidation only. *)
InvalidOnlyByDelivery ==
    \A v \in Versions : ~version'[v].valid =>
        \/ ~version[v].valid
        \/ \E c \in Clients : /\ req[c].pc = "invalidating" /\ req[c].ver = v
                              /\ req'[c].pc = "evictRevoked" /\ req'[c].ver = v

LEMMA InvalidByDelivery == IInv /\ TableStep => InvalidOnlyByDelivery
<1> SUFFICES ASSUME IInv, TableStep, NEW v \in Versions, ~version'[v].valid, version[v].valid
             PROVE  \E c \in Clients : /\ req[c].pc = "invalidating" /\ req[c].ver = v
                                       /\ req'[c].pc = "evictRevoked" /\ req'[c].ver = v
  BY DEF InvalidOnlyByDelivery
<1>a. version \in [Versions -> VersionRow]
  BY DEF IInv, TypeOK, StoreTypeOK
<1>1. CASE UNCHANGED version
  BY <1>1
<1>2. CASE InsertsWorkflow \/ InsertsDraft
  BY <1>a, <1>2 DEF InsertsWorkflow, InsertWorkflow, InsertsDraft, InsertDraft, NoRow
<1>3. CASE Saves
  <2>1. PICK x \in Versions, d \in Docs \cup {None} :
           version' = [version EXCEPT ![x] = Touched(version[x], SavedRow(version[x], d))]
    BY <1>3 DEF Saves, SaveDraft
  <2>2. SavedRow(version[x], d).valid \in {version[x].valid, TRUE}
    BY <1>a DEF SavedRow, VersionRow
  <2>3. Touched(version[x], SavedRow(version[x], d)).valid = SavedRow(version[x], d).valid
    BY <1>a DEF Touched, SavedRow, VersionRow
  <2> QED BY <1>a, <2>1, <2>2, <2>3
<1>4. CASE Deletes
  BY <1>a, <1>4 DEF Deletes, DeleteDraftVersion, VersionRow
<1>5. CASE Publishes
  <2>1. PICK x \in Versions, n \in Nat, d \in Docs :
           version' = [version EXCEPT ![x] = PublishedRow(x, n, d)]
    BY <1>5 DEF Publishes
  <2>2. PublishedRow(x, n, d).valid = version[x].valid
    BY <1>a DEF PublishedRow, VersionRow
  <2> QED BY <1>a, <2>1, <2>2
<1>6. CASE Archives
  BY <1>a, <1>6 DEF Archives, ArchiveVersion, VersionRow
<1>7. CASE Invalidates
  <2>1. PICK x \in Versions, c \in Clients :
           /\ SetVersionInvalid(x)
           /\ UNCHANGED <<workflow, assignee>>
           /\ req[c].pc = "invalidating" /\ req[c].ver = x
           /\ req'[c].pc = "evictRevoked" /\ req'[c].ver = x
    BY <1>7 DEF Invalidates
  <2> QED BY <1>a, <2>1 DEF SetVersionInvalid, VersionRow
<1> QED BY <1>1, <1>2, <1>3, <1>4, <1>5, <1>6, <1>7 DEF TableStep, tables, Promotes

(* A version stops being live by an archive, whose client goes on to evict,  *)
(* or stays PUBLISHED and becomes invalid.                                   *)
PublishedGoesByArchive ==
    \A v \in Versions : version[v].status = "PUBLISHED" =>
        \/ version'[v].status = "PUBLISHED"
        \/ \E c \in Clients : req'[c].pc = "evicting" /\ req'[c].ver = v

LEMMA PublishedGoes == IInv /\ TableStep => PublishedGoesByArchive
<1> SUFFICES ASSUME IInv, TableStep, NEW v \in Versions, version[v].status = "PUBLISHED",
                    version'[v].status # "PUBLISHED"
             PROVE  \E c \in Clients : req'[c].pc = "evicting" /\ req'[c].ver = v
  BY DEF PublishedGoesByArchive
<1>a. version \in [Versions -> VersionRow]
  BY DEF IInv, TypeOK, StoreTypeOK
<1>1. CASE Archives
  <2>1. PICK w \in Workflows, x \in Versions, c \in Clients :
           /\ x = workflow[w].active
           /\ ArchiveVersion(x)
           /\ SetActive(w, None)
           /\ UNCHANGED assignee
           /\ req'[c].pc = "evicting" /\ req'[c].ver = x
    BY <1>1 DEF Archives
  <2> QED BY <1>a, <2>1 DEF ArchiveVersion
<1>2. CASE Invalidates
  BY <1>a, <1>2 DEF Invalidates, SetVersionInvalid, VersionRow
<1>3. CASE InsertsWorkflow \/ InsertsDraft
  BY <1>a, <1>3 DEF InsertsWorkflow, InsertWorkflow, InsertsDraft, InsertDraft
<1>4. CASE Saves \/ Deletes \/ Publishes
  <2>1. PICK x, row : version[x].status = "DRAFT" /\ version' = [version EXCEPT ![x] = row]
    <3>1. CASE Saves
      BY <3>1 DEF Saves, SaveDraft, DraftAt
    <3>2. CASE Deletes
      <4>1. PICK x \in Versions : DeleteDraftVersion(x)
        BY <3>2 DEF Deletes
      <4> QED BY <4>1 DEF DeleteDraftVersion
    <3>3. CASE Publishes
      BY <3>3 DEF Publishes, DraftAt
    <3> QED BY <1>4, <3>1, <3>2, <3>3
  <2> QED BY <1>a, <2>1
<1> QED BY <1>1, <1>2, <1>3, <1>4 DEF TableStep, tables, Promotes

-----------------------------------------------------------------------------
(* Events *)

LEMMA AffectedGrows ==
  ASSUME RowsKept, NEW e, e.known \subseteq Versions
  PROVE  Affected(e) \subseteq Affected(e)'
  BY DEF RowsKept, Affected

LEMMA EventTypes == IInv => \A e \in revoked : /\ e.known \in SUBSET Versions
                                               /\ e.user \in Users
                                               /\ e.id \in Nat
  BY DEF IInv, TypeOK, Revocation

(* The events that occurred are never forgotten, and a new one has a new id. *)
LEMMA RevokeIsNew ==
  ASSUME IInv, NEW u \in Users, Revoke(u)
  PROVE  \E e : /\ revoked' = revoked \cup {e} /\ pending' = pending \cup {e.id}
                /\ e.user = u /\ member' = member \ {u}
                /\ {v \in Versions : assignee[v] # {}} \subseteq e.known /\ e.known \subseteq Versions
                /\ \A f \in revoked : f.id # e.id
<1>1. PICK id, known, e :
         /\ id \in 1..MaxRevocations
         /\ known \in {{v \in Versions : assignee[v] # {}}, Versions}
         /\ {f.id : f \in revoked} = 1..(id - 1)
         /\ e = [id |-> id, user |-> u, known |-> known]
         /\ revoked' = revoked \cup {e}
         /\ pending' = pending \cup {id}
         /\ member' = member \ {u}
  BY DEF Revoke
<1>2. \A f \in revoked : f.id # e.id
  <2> SUFFICES ASSUME NEW f \in revoked, f.id = id PROVE FALSE
    BY <1>1
  <2>1. id \in 1..(id - 1) /\ id \in Int
    BY <1>1 DEF BoundsAreNat
  <2> QED BY <2>1
<1> QED BY <1>1, <1>2

LEMMA RevokedGrows == IInv /\ [Next]_vars => revoked \subseteq revoked'
<1> SUFFICES ASSUME IInv, [Next]_vars PROVE revoked \subseteq revoked'
  OBVIOUS
<1> USE DEF memberVars
<1>1. CASE World
  BY <1>1 DEF World, Revoke, Rejoin, PlanExpire
<1>2. ASSUME NEW c \in Clients, Effect(c) PROVE revoked \subseteq revoked'
  BY <1>2 DEF Effect, Ordinary, ArchivesActive, Abandons, Evicts, Delivers, Begins, Looks,
              Marks, Drops, Finishes, Caches, Reads, Fills, Rechecks
<1> QED BY <1>1, <1>2, StepEffects

(* A request handles an event at v: it has what the invariant asks for. *)
HandlesKnown(c) ==
    req[c].pc \in Handling =>
        /\ req[c].event \in revoked
        /\ req[c].todo \subseteq Affected(req[c].event)
        /\ req[c].pc # "revoking" => req[c].ver \in Affected(req[c].event)

LEMMA HandlersKnown ==
  ASSUME IInv, EventsKnown, [Next]_vars, NEW c \in Clients
  PROVE  HandlesKnown(c)'
<1>a. HandlesKnown(c)
  BY DEF EventsKnown, HandlesKnown, Handling
<1>b. revoked \subseteq revoked'
  BY RevokedGrows
<1>c. \A e \in revoked : Affected(e) \subseteq Affected(e)'
  BY TableSteps, AssigneeRowsKept, AffectedGrows, EventTypes
<1>d. TableStep
  BY TableSteps
<1>1. CASE req'[c] = req[c]
  BY <1>a, <1>b, <1>c, <1>1 DEF HandlesKnown
<1>2. CASE Delivers(c)
  BY <1>a, <1>b, <1>c, <1>2
     DEF HandlesKnown, Handling, Delivers, Begins, Looks, Marks, Drops, Finishes, SameDelivery
<1>3. CASE Ordinary(c) \/ ArchivesActive(c) \/ Abandons(c) \/ Evicts(c) \/ Caches(c)
  <2>1. req'[c].pc \notin Handling
    BY <1>3 DEF Ordinary, ArchivesActive, Abandons, Evicts, Caches, Reads, Fills, Rechecks,
                Handling, Elsewhere
  <2> QED BY <2>1 DEF HandlesKnown
<1>4. World => req'[c] = req[c]
  BY DEF World
<1>5. ASSUME NEW x \in Clients, Effect(x)
      PROVE  req'[c] = req[c] \/ Delivers(c) \/ Ordinary(c) \/ ArchivesActive(c)
             \/ Abandons(c) \/ Evicts(c) \/ Caches(c)
  BY <1>5 DEF Effect, OthersStay
<1> QED BY <1>1, <1>2, <1>3, <1>4, <1>5, StepEffects

LEMMA EventsKnownKept == IInv /\ EventsKnown /\ [Next]_vars => EventsKnown'
<1> SUFFICES ASSUME IInv, EventsKnown, [Next]_vars PROVE EventsKnown'
  OBVIOUS
<1>1. \A e, f \in revoked' : e.id = f.id => e = f
  <2>1. CASE UNCHANGED revoked
    BY <2>1 DEF EventsKnown
  <2>2. ASSUME NEW u \in Users, Revoke(u) PROVE \A e, f \in revoked' : e.id = f.id => e = f
    BY <2>2, RevokeIsNew DEF EventsKnown
  <2>3. ASSUME NEW c \in Clients, Effect(c) PROVE UNCHANGED revoked
    BY <2>3 DEF Effect, Ordinary, ArchivesActive, Abandons, Evicts, Delivers, Begins, Looks,
                Marks, Drops, Finishes, Caches, Reads, Fills, Rechecks, memberVars
  <2>4. World => UNCHANGED revoked \/ \E u \in Users : Revoke(u)
    BY DEF World, Rejoin, PlanExpire, memberVars
  <2> QED BY <2>1, <2>2, <2>3, <2>4, StepEffects
<1> QED BY <1>1, HandlersKnown DEF EventsKnown, HandlesKnown, Handling

-----------------------------------------------------------------------------
(* OldRevocationSparesNew *)

LEMMA OldSparesNewKept ==
  IInv /\ EventsKnown /\ OldRevocationSparesNew /\ [Next]_vars => OldRevocationSparesNew'
<1> SUFFICES ASSUME IInv, EventsKnown, OldRevocationSparesNew, [Next]_vars,
                    NEW v \in Versions, ~version'[v].valid
             PROVE  \E e \in revoked' : v \in e.known /\ e.user \in assignee'[v]
  BY DEF OldRevocationSparesNew
<1>1. PICK e \in revoked : v \in e.known /\ e.user \in assignee[v]
  <2>1. CASE ~version[v].valid
    BY <2>1 DEF OldRevocationSparesNew
  <2>2. ASSUME NEW c \in Clients, req[c].pc = "invalidating", req[c].ver = v
        PROVE  \E e \in revoked : v \in e.known /\ e.user \in assignee[v]
    BY <2>2 DEF EventsKnown, Affected
  <2> QED BY <2>1, <2>2, TableSteps, InvalidByDelivery DEF InvalidOnlyByDelivery
<1> QED BY <1>1, RevokedGrows, TableSteps, AssigneeRowsKept DEF RowsKept

-----------------------------------------------------------------------------
(* RevocationReachesVersions: an event that has not been acknowledged has    *)
(* every live version of its user before all of its deliveries.              *)

LEMMA PendingUntilFinished ==
  ASSUME IInv, [Next]_vars, NEW id \in pending, id \notin pending'
  PROVE  \E c \in Clients : Finishes(c) /\ ~req[c].failed /\ req[c].event.id = id
<1> USE DEF memberVars
<1>1. World => pending \subseteq pending'
  BY DEF World, Revoke, Rejoin, PlanExpire
<1>2. ASSUME NEW c \in Clients, Effect(c) PROVE Finishes(c) \/ pending' = pending
  BY <1>2 DEF Effect, Ordinary, ArchivesActive, Abandons, Evicts, Delivers, Begins, Looks,
              Marks, Drops, Caches, Reads, Fills, Rechecks
<1>3. ASSUME NEW c \in Clients, Finishes(c) PROVE ~req[c].failed /\ req[c].event.id = id
  BY <1>3 DEF Finishes
<1> QED BY <1>1, <1>2, <1>3, StepEffects

(* What any one request does in a step. *)
LEMMA RequestEffects ==
  ASSUME IInv, [Next]_vars, NEW c \in Clients
  PROVE  req'[c] = req[c] \/ Effect(c)
<1>1. World => req'[c] = req[c]
  BY DEF World
<1>2. ASSUME NEW x \in Clients, Effect(x) PROVE req'[c] = req[c] \/ Effect(c)
  BY <1>2 DEF Effect, OthersStay
<1> QED BY <1>1, <1>2, StepEffects

(* Only a step of a delivery leaves a request in a delivery. *)
LEMMA EffectDelivers ==
  ASSUME NEW c \in Clients, Effect(c), req'[c].pc \in Handling
  PROVE  Begins(c) \/ Looks(c) \/ Marks(c) \/ Drops(c)
  BY DEF Effect, Ordinary, ArchivesActive, Abandons, Evicts, Delivers, Finishes, Caches, Reads,
         Fills, Rechecks, Handling, Elsewhere

LEMMA ReachKept ==
  ASSUME IInv, EventsKnown, [Next]_vars, NEW v \in Versions, Live(v), Live(v)',
         NEW e \in revoked, e.user \in assignee[v], StillReaches(e, v)
  PROVE  StillReaches(e, v)'
<1>1. e.id \in pending'
  <2> SUFFICES ASSUME e.id \notin pending' PROVE FALSE
    OBVIOUS
  <2>1. PICK c \in Clients : Finishes(c) /\ req[c].event.id = e.id
    BY PendingUntilFinished DEF StillReaches
  <2>2. req[c].pc = "revoking" /\ req[c].todo = {}
    BY <2>1 DEF Finishes
  <2>3. req[c].event = e
    BY <2>1, <2>2 DEF EventsKnown
  <2> QED BY <2>2, <2>3 DEF StillReaches, Delivering, At
<1>2. ASSUME NEW c \in Clients, Delivering(c, e)'
      PROVE  v \in req'[c].todo \/ (req'[c].ver = v /\ req'[c].pc = "invalidating")
  <2>1. CASE req'[c] = req[c]
    BY <1>2, <2>1 DEF StillReaches, Delivering, At
  <2>2. CASE Begins(c)
    BY <1>2, <2>2 DEF Begins, Delivering, StillReaches, Affected
  <2>3. CASE Looks(c)
    <3>1. v \in req[c].todo
      BY <1>2, <2>3 DEF Looks, SameDelivery, Delivering, StillReaches, At
    <3> QED BY <2>3, <3>1 DEF Looks, Live
  <2>4. CASE Marks(c)
    BY <1>2, <2>4 DEF Marks, SameDelivery, Delivering, StillReaches, Live
  <2>5. CASE Drops(c)
    BY <1>2, <2>5 DEF Drops, Delivering, StillReaches, At
  <2> QED BY <1>2, <2>1, <2>2, <2>3, <2>4, <2>5, RequestEffects, EffectDelivers
          DEF Delivering, Handling
<1> QED BY <1>1, <1>2 DEF StillReaches, At

(* A live version with a default assignee was just published, or was live.   *)
LEMMA LiveBefore ==
  ASSUME IInv, [Next]_vars, NEW v \in Versions, Live(v)', assignee'[v] # {}
  PROVE  \/ \E c \in Clients : PublishCommit(c) /\ req[c].ver = v
         \/ Live(v) /\ assignee'[v] = assignee[v] /\ unseen'[v] = unseen[v]
<1>1. ASSUME NEW c \in Clients, PublishCommit(c), req[c].ver # v
      PROVE  Live(v) /\ assignee'[v] = assignee[v] /\ unseen'[v] = unseen[v]
  <2>1. /\ assignee'[v] = assignee[v] /\ unseen'[v] = unseen[v]
        /\ version'[v] = version[v]
    BY <1>1 DEF PublishCommit, IInv, TypeOK, StoreTypeOK
  <2> QED BY <2>1 DEF Live
<1>2. CASE UNCHANGED <<assignee, unseen>>
  <2>1. version[v].status \in Numbered
    BY <1>2 DEF IInv, AssigneesOfNumbered
  <2>2. Live(v)
    BY <2>1, TableSteps, LiveByPublish DEF LiveOnlyByPublish
  <2> QED BY <1>2, <2>2
<1>3. ASSUME NEW c \in Clients, Effect(c) PROVE UNCHANGED <<assignee, unseen>> \/ PublishCommit(c)
  BY <1>3 DEF Effect, Ordinary, ArchivesActive, Abandons, Evicts, Delivers, Begins, Looks,
              Marks, Drops, Finishes, Caches, Reads, Fills, Rechecks, tables, memberVars
<1>4. World => UNCHANGED <<assignee, unseen>>
  BY DEF World, Revoke, Rejoin, PlanExpire, tables, memberVars
<1> QED BY <1>1, <1>2, <1>3, <1>4, StepEffects

LEMMA ReachesKept ==
  IInv /\ EventsKnown /\ RevocationsReach /\ [Next]_vars => RevocationsReach'
<1> SUFFICES ASSUME IInv, EventsKnown, RevocationsReach, [Next]_vars,
                    NEW v \in Versions, Live(v)', NEW u \in assignee'[v], u \notin member'
             PROVE  \/ u \in unseen'[v]
                    \/ \E e \in revoked' : e.user = u /\ StillReaches(e, v)'
  BY DEF RevocationsReach
<1>1. ASSUME NEW c \in Clients, PublishCommit(c), req[c].ver = v PROVE u \in unseen'[v]
  BY <1>1 DEF PublishCommit, IInv, TypeOK, StoreTypeOK
<1>2. ASSUME Live(v), assignee'[v] = assignee[v], unseen'[v] = unseen[v], u \notin member
      PROVE  \/ u \in unseen'[v]
             \/ \E e \in revoked' : e.user = u /\ StillReaches(e, v)'
  BY <1>2, ReachKept, RevokedGrows DEF RevocationsReach
<1>3. ASSUME u \in member, assignee'[v] = assignee[v]
      PROVE  \E e \in revoked' : e.user = u /\ StillReaches(e, v)'
  <2>1. World /\ \E x \in Users : Revoke(x) /\ x = u
    <3>1. ASSUME NEW c \in Clients, Effect(c) PROVE UNCHANGED member
      BY <3>1 DEF Effect, Ordinary, ArchivesActive, Abandons, Evicts, Delivers, Begins, Looks,
                  Marks, Drops, Finishes, Caches, Reads, Fills, Rechecks, memberVars
    <3>2. World /\ ~UNCHANGED member
      BY <1>3, <3>1, StepEffects
    <3> QED BY <1>3, <3>2 DEF World, Revoke, Rejoin, PlanExpire, memberVars
  <2>2. PICK e : /\ revoked' = revoked \cup {e} /\ pending' = pending \cup {e.id}
                 /\ e.user = u
                 /\ {x \in Versions : assignee[x] # {}} \subseteq e.known
                 /\ \A f \in revoked : f.id # e.id
    BY <2>1, RevokeIsNew
  <2>3. v \in e.known
    BY <1>3, <2>2
  <2>4. \A c \in Clients : ~Delivering(c, e)'
    BY <2>1, <2>2 DEF World, EventsKnown, Delivering
  <2> QED BY <2>2, <2>3, <2>4 DEF StillReaches
<1> QED BY <1>1, <1>2, <1>3, LiveBefore

-----------------------------------------------------------------------------
(* StaleEntryIsOwed: whoever made a version stale evicts it, or its event is *)
(* delivered again.                                                          *)

LEMMA NumberedKept ==
  ASSUME IInv, [Next]_vars, NEW v \in Versions, version[v].status \in Numbered
  PROVE  version'[v].status \in Numbered
  BY TableSteps, TablesKeepPublished DEF PublishedStays, Numbered

Filling == {"filling", "rechecking", "dropping"}

LEMMA FillingNumbered ==
  ASSUME IInv, EntriesOwed, [Next]_vars, NEW c \in Clients, req'[c].pc \in Filling
  PROVE  req'[c].ver \in Versions /\ version'[req'[c].ver].status \in Numbered
<1>1. CASE req[c].pc \in Filling /\ req'[c].ver = req[c].ver
  <2>1. req[c].ver \in Versions /\ version[req[c].ver].status \in Numbered
    BY <1>1, SoundRequests DEF Sound, RequestComplete, OnVersion, EntriesOwed, Filling
  <2> QED BY <1>1, <2>1, NumberedKept
<1>2. CASE Reads(c)
  BY <1>2, NumberedKept DEF Reads, Live, Numbered
<1>3. CASE Fills(c) \/ Rechecks(c)
  BY <1>1, <1>3 DEF Fills, Rechecks, Filling
<1>4. CASE Effect(c)
  <2>1. Reads(c) \/ Fills(c) \/ Rechecks(c)
    BY <1>4 DEF Effect, Ordinary, ArchivesActive, Abandons, Evicts, Delivers, Begins, Looks,
                Marks, Drops, Finishes, Caches, Filling, Elsewhere, Handling, Owing
  <2> QED BY <1>2, <1>3, <2>1
<1> QED BY <1>1, <1>4, RequestEffects

LEMMA EntriesNumbered ==
  ASSUME IInv, EntriesOwed, [Next]_vars, NEW v \in planCache'
  PROVE  version'[v].status \in Numbered
<1>1. ASSUME NEW c \in Clients, Fills(c) PROVE version[req[c].ver].status \in Numbered
  BY <1>1 DEF Fills, EntriesOwed
<1>2. CASE v \in planCache
  <2>1. v \in Versions /\ version[v].status \in Numbered
    BY <1>2 DEF EntriesOwed, IInv, TypeOK
  <2> QED BY <2>1, NumberedKept
<1>3. ASSUME NEW c \in Clients, Fills(c), v = req[c].ver PROVE version'[v].status \in Numbered
  BY <1>1, <1>3, NumberedKept, SoundRequests DEF Fills, Sound, RequestComplete, OnVersion
<1>4. ASSUME NEW c \in Clients, Effect(c) PROVE v \in planCache \/ (Fills(c) /\ v = req[c].ver)
  BY <1>4 DEF Effect, Ordinary, ArchivesActive, Abandons, Evicts, Delivers, Begins, Looks,
              Marks, Drops, Finishes, Caches, Reads, Fills, Rechecks, cacheVars
<1>5. World => v \in planCache
  BY DEF World, Revoke, Rejoin, PlanExpire, cacheVars
<1> QED BY <1>2, <1>3, <1>4, <1>5, StepEffects

(* Why an entry that is not live is owed its eviction. *)
Owed(v) ==
    \/ v \in lostEvict
    \/ \E c \in Clients : req[c].ver = v /\ req[c].pc \in Owing
    \/ /\ version[v].status = "PUBLISHED"
       /\ \/ \E c \in Clients : req[c].ver = v /\ At(c, "evictRevoked")
          \/ \E e \in revoked : StillEvicts(e, v)

(* An eviction that was lost stays on record until the entry expires. *)
LEMMA LostKept ==
  ASSUME IInv, [Next]_vars, NEW v \in lostEvict, v \in planCache'
  PROVE  v \in lostEvict'
<1>1. ASSUME NEW c \in Clients, Effect(c) PROVE lostEvict \subseteq lostEvict'
  BY <1>1 DEF Effect, Ordinary, ArchivesActive, Abandons, Evicts, Delivers, Begins, Looks,
              Marks, Drops, Finishes, Caches, Reads, Fills, Rechecks, cacheVars
<1>2. World => v \in lostEvict'
  BY DEF World, Revoke, Rejoin, PlanExpire, cacheVars
<1> QED BY <1>1, <1>2, StepEffects

(* A request that is to evict v does, or loses it. *)
LEMMA OwerKept ==
  ASSUME IInv, [Next]_vars, NEW v \in planCache', ~Live(v)', ~Live(v),
         NEW c \in Clients, req[c].ver = v, req[c].pc \in Owing
  PROVE  Owed(v)'
<1>1. CASE req'[c] = req[c]
  BY <1>1 DEF Owed
<1>2. CASE Effect(c)
  <2>1. Evicts(c) => FALSE
    BY DEF Evicts
  <2>2. Abandons(c) => v \in lostEvict'
    BY DEF Abandons, LosesEviction, Owing
  <2>3. Rechecks(c) => req'[c].ver = v /\ req'[c].pc = "dropping"
    BY DEF Rechecks
  <2>4. Evicts(c) \/ Abandons(c) \/ Rechecks(c)
    BY <1>2 DEF Effect, Ordinary, ArchivesActive, Delivers, Begins, Looks, Marks, Drops,
                Finishes, Caches, Reads, Fills, Owing, Elsewhere
  <2> QED BY <2>1, <2>2, <2>3, <2>4 DEF Owed, Owing
<1> QED BY <1>1, <1>2, RequestEffects

(* The event of an eviction that failed will be delivered again. *)
LEMMA RedeliveryEvicts ==
  ASSUME IInv, EventsKnown, [Next]_vars, NEW c \in Clients, Effect(c), At(c, "evictRevoked"),
         Redelivered(c), pending' = pending, revoked' = revoked,
         req'[c].pc = "idle" \/ req'[c].failed,
         NEW e, e = req[c].event, NEW v, v = req[c].ver
  PROVE  e \in revoked' /\ StillEvicts(e, v)'
<1>1. e \in revoked /\ v \in Affected(e)
  BY DEF EventsKnown, At
<1>2. v \in Affected(e)'
  BY <1>1, TableSteps, AssigneeRowsKept, AffectedGrows, EventTypes
<1>3. \A x \in Clients \ {c} : req'[x].event # e
  BY DEF Effect, OthersStay, Redelivered
<1>4. \A x \in Clients : Delivering(x, e)' => x = c /\ req'[c].failed
  BY <1>3 DEF Delivering
<1>5. e.id \in pending'
  BY DEF Redelivered
<1> QED BY <1>1, <1>2, <1>4, <1>5 DEF StillEvicts

LEMMA RevokerKept ==
  ASSUME IInv, EventsKnown, [Next]_vars, NEW v \in planCache',
         version'[v].status = "PUBLISHED",
         NEW c \in Clients, req[c].ver = v, At(c, "evictRevoked")
  PROVE  Owed(v)'
<1>1. CASE req'[c] = req[c]
  BY <1>1 DEF Owed, At
<1>2. CASE Effect(c)
  <2>1. CASE Drops(c)
    <3>1. req'[c].failed /\ req'[c].event = req[c].event
      BY <2>1 DEF Drops
    <3>2. CASE Redelivered(c)
      <4>1. pending' = pending /\ revoked' = revoked
        BY <2>1 DEF Drops, memberVars
      <4> QED BY <1>2, <3>1, <3>2, <4>1, RedeliveryEvicts DEF Owed
    <3>3. CASE ~Redelivered(c)
      BY <2>1, <3>3 DEF Drops, LosesEviction, Owed
    <3> QED BY <3>2, <3>3
  <2>2. CASE Abandons(c)
    <3>1. CASE Redelivered(c)
      <4>1. pending' = pending /\ revoked' = revoked /\ req'[c].pc = "idle"
        BY <2>2 DEF Abandons, memberVars
      <4> QED BY <1>2, <3>1, <4>1, RedeliveryEvicts DEF Owed
    <3>2. CASE ~Redelivered(c)
      BY <2>2, <3>2 DEF Abandons, LosesEviction, Owed
    <3> QED BY <3>1, <3>2
  <2>3. Drops(c) \/ Abandons(c)
    BY <1>2 DEF Effect, Ordinary, ArchivesActive, Evicts, Delivers, Begins, Looks, Marks,
                Finishes, Caches, Reads, Fills, Rechecks, At, Elsewhere, Handling
  <2> QED BY <2>1, <2>2, <2>3
<1> QED BY <1>1, <1>2, RequestEffects

LEMMA EvictionKept ==
  ASSUME IInv, EventsKnown, [Next]_vars, NEW v \in planCache', v \in Versions,
         version[v].status = "PUBLISHED", NEW e \in revoked, StillEvicts(e, v)
  PROVE  StillEvicts(e, v)'
<1>1. e.id \in pending'
  <2> SUFFICES ASSUME e.id \notin pending' PROVE FALSE
    OBVIOUS
  <2>1. PICK c \in Clients : Finishes(c) /\ ~req[c].failed /\ req[c].event.id = e.id
    BY PendingUntilFinished DEF StillEvicts
  <2>2. req[c].pc = "revoking" /\ req[c].todo = {}
    BY <2>1 DEF Finishes
  <2>3. req[c].event = e
    BY <2>1, <2>2 DEF EventsKnown
  <2> QED BY <2>1, <2>2, <2>3 DEF StillEvicts, Delivering, At
<1>2. v \in Affected(e) /\ v \in Affected(e)'
  BY TableSteps, AssigneeRowsKept, AffectedGrows, EventTypes DEF StillEvicts
<1>3. ASSUME NEW c \in Clients, Delivering(c, e)'
      PROVE  v \in req'[c].todo \/ (req'[c].ver = v /\ req'[c].pc # "revoking") \/ req'[c].failed
  <2>a. req[c].pc \in Handling /\ req[c].event = e =>
           v \in req[c].todo \/ (req[c].ver = v /\ req[c].pc # "revoking") \/ req[c].failed
    BY DEF StillEvicts, Delivering, At, Handling
  <2>1. CASE req'[c] = req[c]
    BY <1>3, <2>a, <2>1 DEF Delivering, Handling
  <2>2. CASE Begins(c)
    BY <1>2, <1>3, <2>2 DEF Begins, Delivering
  <2>3. CASE Looks(c)
    BY <1>3, <2>a, <2>3 DEF Looks, SameDelivery, Delivering, Handling
  <2>4. CASE Marks(c)
    BY <1>3, <2>a, <2>4 DEF Marks, SameDelivery, Delivering, Handling
  <2>5. CASE Drops(c)
    BY <1>3, <2>a, <2>5 DEF Drops, Delivering, Handling
  <2> QED BY <1>3, <2>1, <2>2, <2>3, <2>4, <2>5, RequestEffects, EffectDelivers
          DEF Delivering, Handling
<1> QED BY <1>1, <1>2, <1>3 DEF StillEvicts, At

(* A version goes stale under an entry. *)
LEMMA StaleIsOwed ==
  ASSUME IInv, [Next]_vars, NEW v \in planCache', v \in Versions, ~Live(v)', Live(v)
  PROVE  Owed(v)'
<1>1. CASE version'[v].status # "PUBLISHED"
  BY <1>1, TableSteps, PublishedGoes DEF PublishedGoesByArchive, Live, Owed, Owing
<1>2. CASE version'[v].status = "PUBLISHED"
  <2>1. PICK c \in Clients : req'[c].pc = "evictRevoked" /\ req'[c].ver = v
    BY <1>2, TableSteps, InvalidByDelivery DEF InvalidOnlyByDelivery, Live
  <2> QED BY <1>2, <2>1 DEF Owed, At
<1> QED BY <1>1, <1>2

LEMMA OwedKept ==
  ASSUME IInv, EventsKnown, EntriesOwed, [Next]_vars, NEW v \in planCache', ~Live(v)'
  PROVE  Owed(v)'
<1>1. CASE v \notin planCache
  <2>1. PICK c \in Clients : Fills(c) /\ v = req[c].ver
    <3>1. ASSUME NEW c \in Clients, Effect(c) PROVE Fills(c) /\ v = req[c].ver
      BY <1>1, <3>1 DEF Effect, Ordinary, ArchivesActive, Abandons, Evicts, Delivers, Begins,
              Looks, Marks, Drops, Finishes, Caches, Reads, Fills, Rechecks, cacheVars
    <3>2. ~World
      BY <1>1 DEF World, Revoke, Rejoin, PlanExpire, cacheVars
    <3> QED BY <3>1, <3>2, StepEffects
  <2> QED BY <2>1 DEF Fills, Owed, Owing
<1>2. CASE v \in planCache
  <2>a. v \in Versions
    BY <1>2 DEF IInv, TypeOK
  <2>1. CASE Live(v)
    BY <2>a, <2>1, StaleIsOwed
  <2>2. CASE v \in lostEvict
    BY <2>2, LostKept DEF Owed
  <2>3. ASSUME ~Live(v), NEW c \in Clients, req[c].ver = v, req[c].pc \in Owing PROVE Owed(v)'
    BY <2>3, OwerKept
  <2>4. ASSUME version[v].status = "PUBLISHED", version'[v].status = "PUBLISHED",
               NEW c \in Clients, req[c].ver = v, At(c, "evictRevoked")
        PROVE  Owed(v)'
    BY <2>4, RevokerKept
  <2>5. ASSUME version[v].status = "PUBLISHED", version'[v].status = "PUBLISHED",
               NEW e \in revoked, StillEvicts(e, v)
        PROVE  Owed(v)'
    <3>1. StillEvicts(e, v)' /\ e \in revoked'
      BY <2>a, <2>5, EvictionKept, RevokedGrows
    <3> QED BY <2>5, <3>1 DEF Owed
  <2>6. version[v].status = "PUBLISHED" /\ version'[v].status # "PUBLISHED" => Owed(v)'
    BY <2>a, TableSteps, PublishedGoes DEF PublishedGoesByArchive, Owed, Owing
  <2>7. ~Live(v) => Owed(v)
    BY <1>2 DEF EntriesOwed, Owed, Owing
  <2> QED BY <2>1, <2>2, <2>3, <2>4, <2>5, <2>6, <2>7 DEF Owed
<1> QED BY <1>1, <1>2

LEMMA EntriesOwedKept ==
  IInv /\ EventsKnown /\ EntriesOwed /\ [Next]_vars => EntriesOwed'
<1> SUFFICES ASSUME IInv, EventsKnown, EntriesOwed, [Next]_vars PROVE EntriesOwed'
  OBVIOUS
<1>1. \A v \in planCache' : ~Live(v)' => Owed(v)'
  BY OwedKept
<1>2. \A v \in planCache' : version'[v].status \in Numbered
  BY EntriesNumbered
<1>3. \A c \in Clients : req'[c].pc \in Filling => version'[req'[c].ver].status \in Numbered
  BY FillingNumbered
<1> QED BY <1>1, <1>2, <1>3 DEF EntriesOwed, Owed, Owing, Filling

LEMMA RevocationInit == Init => RevocationInv
  BY DEF Init, StoreInit, NoRow, Live, Idle, RevocationInv, EventsKnown, RevocationsReach,
     OldRevocationSparesNew, EntriesOwed

(* In every reachable state an unacknowledged event has every live version of *)
(* its user before it, and every stale entry has someone to evict it.         *)
THEOREM RevocationInductive == Spec => []RevocationInv
<1>1. Init => RevocationInv
  BY RevocationInit
<1>2. IInv /\ RevocationInv /\ [Next]_vars => RevocationInv'
  BY EventsKnownKept, OldSparesNewKept, ReachesKept, EntriesOwedKept DEF RevocationInv
<1> QED BY <1>1, <1>2, Inductive, PTL DEF Spec

(* A revoked user stays the default assignee of a valid version only until    *)
(* the event reaches it, for any number of deliveries, replicas and versions *)
(* (invalidateAssigneeVersions).                                             *)
THEOREM RevokedUsersAreReached == Spec => []RevocationReachesVersions
<1>1. RevocationInv => RevocationReachesVersions
  BY DEF RevocationInv, RevocationsReach, StillReaches, RevocationReachesVersions
<1> QED BY <1>1, RevocationInductive, PTL

(* A revocation invalidates no version published after it.                    *)
THEOREM LateEventsSpareNew == Spec => []OldRevocationSparesNew
<1>1. RevocationInv => OldRevocationSparesNew
  BY DEF RevocationInv
<1> QED BY <1>1, RevocationInductive, PTL

(* An archived or invalid plan stays in the cache only if its eviction is     *)
(* still to come, or was lost with a replica or to Valkey.                   *)
THEOREM StaleEntriesAreOwed == Spec => []StaleEntryIsOwed
<1>1. RevocationInv => StaleEntryIsOwed
  BY DEF RevocationInv, EntriesOwed, StillEvicts, Affected, At, StaleEntryIsOwed
<1> QED BY <1>1, RevocationInductive, PTL

=============================================================================
