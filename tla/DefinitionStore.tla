--------------------------- MODULE DefinitionStore ---------------------------
(***************************************************************************)
(* The tables workflow, workflow_version and workflow_node_assignee of one *)
(* tenant, and the guarded SQL statements the services run on them         *)
(* (db/queries/*.sql, db/migrations/000002, 000003).  A statement is an    *)
(* operator whose conjuncts are the WHERE clause and the unique indexes,   *)
(* and whose result is the row it leaves.                                  *)
(*                                                                         *)
(* A BPMN document is a member of Docs and stands for its compiled plan,   *)
(* artifact hash and module references as well: plan = d means "what the   *)
(* compiler makes of d".                                                   *)
(***************************************************************************)
EXTENDS Naturals, FiniteSets

CONSTANTS
    Workflows,      \* workflow ids
    Versions,       \* version ids (UUIDv7: an id names one row for ever)
    Docs,           \* BPMN documents
    Users,          \* default assignees, each a user in one department
    Names,          \* values of workflow.name and workflow.description
    AssigneesOf,    \* the default assignees of each document
    ShapeOf,        \* the step structure computeDiff compares
    Limit,          \* workflow_template_limit of the tenant's plan
    None            \* SQL NULL

ASSUME NoneIsNoValue ==
    None \notin Workflows \cup Versions \cup Docs \cup Users \cup Names
ASSUME AssigneesAreUsers == AssigneesOf \in [Docs -> SUBSET Users]
ASSUME LimitIsCount == Limit \in Nat
ASSUME VersionsFinite == IsFiniteSet(Versions)

VARIABLES
    workflow,       \* [Workflows -> row]
    version,        \* [Versions -> row]
    assignee        \* [Versions -> users with a workflow_node_assignee row]

tables == <<workflow, version, assignee>>

Metas == [name: Names, desc: Names]

(* A row that was deleted keeps its id out of use. *)
Status == {"absent", "DRAFT", "PUBLISHED", "ARCHIVED", "deleted"}
Numbered == {"PUBLISHED", "ARCHIVED"}

WorkflowRow == [exists: BOOLEAN,
                active: Versions \cup {None},
                meta:   Metas \cup {None}]

VersionRow == [status: Status,
               wf:     Workflows \cup {None},
               xml:    Docs \cup {None},
               plan:   Docs \cup {None},
               num:    Nat,
               valid:  BOOLEAN,
               rv:     Nat]

NoRow == [status |-> "absent", wf |-> None, xml |-> None, plan |-> None,
          num |-> 0, valid |-> TRUE, rv |-> 0]

StoreInit ==
    /\ workflow = [w \in Workflows |-> [exists |-> FALSE, active |-> None, meta |-> None]]
    /\ version = [v \in Versions |-> NoRow]
    /\ assignee = [v \in Versions |-> {}]

StoreTypeOK ==
    /\ workflow \in [Workflows -> WorkflowRow]
    /\ version \in [Versions -> VersionRow]
    /\ assignee \in [Versions -> SUBSET Users]

-----------------------------------------------------------------------------
(* Reads *)

IsDraftOf(v, w) == version[v].status = "DRAFT" /\ version[v].wf = w
HasDraft(w) == \E v \in Versions : IsDraftOf(v, w)

(* CountWorkflowsByTenant: the templates in use. *)
InUse == {w \in Workflows : /\ workflow[w].exists
                            /\ workflow[w].active # None \/ HasDraft(w)}
BelowQuota == Cardinality(InUse) < Limit

(* What the compiled-plan read may cache: PUBLISHED and valid. *)
Live(v) == version[v].status = "PUBLISHED" /\ version[v].valid

(* The WHERE clause of the statements guarded by a record_version. *)
DraftAtAnyToken(v, token) == version[v].status = "DRAFT"    \* mutant: no optimistic lock
DraftAt(v, token) == version[v].status = "DRAFT" /\ version[v].rv = token

(* Mutant: an archived version's number is taken again. *)
IsNextToPublished(n, w) ==
    LET taken == {v \in Versions : version[v].wf = w /\ version[v].status = "PUBLISHED"}
    IN  /\ \A v \in taken : version[v].num < n
        /\ n = 1 \/ \E v \in taken : version[v].num = n - 1

(* NextVersionNumber: MAX(version_number) + 1 over the rows not in DRAFT. *)
IsNextNumber(n, w) ==
    LET taken == {v \in Versions : version[v].wf = w /\ version[v].status \in Numbered}
    IN  /\ \A v \in taken : version[v].num < n
        /\ n = 1 \/ \E v \in taken : version[v].num = n - 1

-----------------------------------------------------------------------------
(* Statements *)

(* CreateWorkflow and CreateWorkflowVersion of a first draft. *)
InsertWorkflow(w, v, d, m) ==
    /\ ~workflow[w].exists
    /\ version[v].status = "absent"
    /\ workflow' = [workflow EXCEPT ![w] = [exists |-> TRUE, active |-> None, meta |-> m]]
    /\ version' = [version EXCEPT ![v] = [NoRow EXCEPT !.status = "DRAFT", !.wf = w,
                                                       !.xml = d, !.rv = 1]]

(* CreateWorkflowVersion, refused by idx_wv_single_draft. *)
InsertDraft(w, v, d) ==
    /\ version[v].status = "absent"
    /\ ~HasDraft(w)
    /\ version' = [version EXCEPT ![v] = [NoRow EXCEPT !.status = "DRAFT", !.wf = w,
                                                       !.xml = d, !.rv = 1]]

(* Mutant: a save without a document writes NULL. *)
SavedRowAlways(row, d) == [row EXCEPT !.xml = d, !.plan = None, !.valid = TRUE]

(* A new document makes the row valid and drops its plan. *)
SavedRow(row, d) ==
    IF d = None THEN row ELSE [row EXCEPT !.xml = d, !.plan = None, !.valid = TRUE]

(* The trigger update_workflow_version_meta bumps record_version only when    *)
(* the row changes: a save of the same document leaves it.                   *)
Touched(old, row) == IF row = old THEN row ELSE [row EXCEPT !.rv = old.rv + 1]

(* UpdateDraftVersion. *)
SaveDraft(v, token, d) ==
    /\ DraftAt(v, token)
    /\ version' = [version EXCEPT ![v] = Touched(version[v], SavedRow(version[v], d))]

(* Mutant: version_number stays NULL. *)
UnnumberedRow(v, n, d) ==
    [version[v] EXCEPT !.status = "PUBLISHED", !.num = None, !.plan = d,
                       !.rv = version[v].rv + 1]

(* The row PublishVersion leaves: is_valid is not touched. *)
PublishedRow(v, n, d) ==
    [version[v] EXCEPT !.status = "PUBLISHED", !.num = n, !.plan = d,
                       !.rv = version[v].rv + 1]

(* UpdateActiveVersion: the pointer may only name a PUBLISHED, valid version *)
(* of this workflow.                                                         *)
MayPointAtValid(w, row) == row.valid /\ row.wf = w     \* mutant: status not asked for
MayPointAt(w, row) == row.status = "PUBLISHED" /\ row.valid /\ row.wf = w

SetActive(w, v) == workflow' = [workflow EXCEPT ![w].active = v]

ArchiveVersion(v) ==
    /\ version[v].status = "PUBLISHED"
    /\ version' = [version EXCEPT ![v].status = "ARCHIVED",
                                  ![v].rv = version[v].rv + 1]

(* Mutant: the status is not part of the WHERE clause. *)
DeleteAnyVersion(v) == version' = [version EXCEPT ![v].status = "deleted"]

DeleteDraftVersion(v) ==
    /\ version[v].status = "DRAFT"
    /\ version' = [version EXCEPT ![v].status = "deleted"]

(* SetVersionInvalid has no status guard; updated_at = now() bumps the row. *)
SetVersionInvalid(v) ==
    /\ version[v].status \notin {"absent", "deleted"}
    /\ version' = [version EXCEPT ![v].valid = FALSE, ![v].rv = version[v].rv + 1]

=============================================================================
