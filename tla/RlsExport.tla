------------------------------ MODULE RlsExport ------------------------------
(***************************************************************************)
(* The RLS violation log and its exporters (service/rls_violation_exporter *)
(* .go).  The policy functions insert violations inside the caller's       *)
(* transaction: ids are drawn at the insert and appear at the commit, in   *)
(* any order, or never.  Every replica counts the rows above the last id   *)
(* it has seen and prunes old rows; a panicked exporter is started again   *)
(* (goSafeRestart, cmd/server/recover.go).                                 *)
(***************************************************************************)
EXTENDS Naturals, FiniteSetsExt

CONSTANTS
    Replicas,       \* replicas, one exporter each
    MaxViolations,  \* bound: violations sampled
    MaxPanics       \* bound: panics of exporters

ASSUME ViolationsBounded == MaxViolations \in Nat

VARIABLES
    log,            \* the state of each row of rls_violation_log
    old,            \* rows older than RLS_VIOLATION_RETENTION
    nextId,         \* the sequence
    exporter,       \* each replica's exporter: where it is, and lastID
    counted,        \* history: how often each replica counted each row
    missed,         \* history: rows each replica's exporter has passed over
    panics          \* panics so far

exportVars == <<log, old, nextId, exporter, counted, missed, panics>>

Ids == 1 .. MaxViolations
Committed == {id \in Ids : log[id] = "committed"}
Newest(ids, least) == Max(ids \cup {least})

RlsExportTypeOK ==
    /\ log \in [Ids -> {"none", "inserted", "committed", "gone"}]
    /\ old \in SUBSET Ids /\ nextId \in 1 .. MaxViolations + 1
    /\ exporter \in [Replicas -> [at: {"start", "wait", "prune", "panicked"},
                                  lastID: 0 .. MaxViolations]]
    /\ counted \in [Replicas -> [Ids -> 0 .. 2]]
    /\ missed \in [Replicas -> SUBSET Ids]
    /\ panics \in 0 .. MaxPanics

RlsExportInit ==
    /\ log = [id \in Ids |-> "none"] /\ old = {} /\ nextId = 1
    /\ exporter = [r \in Replicas |-> [at |-> "start", lastID |-> 0]]
    /\ counted = [r \in Replicas |-> [id \in Ids |-> 0]]
    /\ missed = [r \in Replicas |-> {}]
    /\ panics = 0

Uncounted(r) == {id \in Ids : counted[r][id] = 0}
PassOver(r, ids) == [missed EXCEPT ![r] = @ \cup (ids \cap Uncounted(r))]

-----------------------------------------------------------------------------
(* A row fails a policy and is sampled. *)
Violate ==
    /\ nextId <= MaxViolations
    /\ log' = [log EXCEPT ![nextId] = "inserted"] /\ nextId' = nextId + 1
    /\ UNCHANGED <<old, exporter, counted, missed, panics>>

(* The transaction that met it commits (an exporter may be past the id by    *)
(* now), or rolls back.                                                      *)
Commit(id) ==
    /\ log[id] = "inserted"
    /\ log' = [log EXCEPT ![id] = "committed"]
    /\ missed' = [r \in Replicas |-> IF exporter[r].lastID >= id THEN missed[r] \cup {id}
                                                                 ELSE missed[r]]
    /\ UNCHANGED <<old, nextId, exporter, counted, panics>>

Rollback(id) ==
    /\ log[id] = "inserted"
    /\ log' = [log EXCEPT ![id] = "gone"]
    /\ UNCHANGED <<old, nextId, exporter, counted, missed, panics>>

(* A row comes of age. *)
GetOld(id) ==
    /\ log[id] = "committed" /\ id \notin old
    /\ old' = old \cup {id}
    /\ UNCHANGED <<log, nextId, exporter, counted, missed, panics>>

(* Start: the log's newest id, and nothing before it is counted.  A start    *)
(* that fails is tried again.                                                *)
Start(r) ==
    /\ exporter[r].at = "start"
    /\ exporter' = [exporter EXCEPT ![r] = [at |-> "wait", lastID |-> Newest(Committed, 0)]]
    /\ missed' = PassOver(r, Committed)
    /\ UNCHANGED <<log, old, nextId, counted, panics>>

(* Tick: count the rows after lastID and move it to the newest of them ...   *)
Counts(r, id) == log[id] = "committed" /\ id > exporter[r].lastID
Count(r) ==
    /\ exporter[r].at = "wait"
    /\ LET new == {id \in Ids : Counts(r, id)}
       IN /\ counted' = [counted EXCEPT ![r] =
                           [id \in Ids |-> IF id \in new THEN @[id] + 1 ELSE @[id]]]
          /\ exporter' = [exporter EXCEPT ![r] = [at |-> "prune",
                                                  lastID |-> Newest(new, @.lastID)]]
    /\ UNCHANGED <<log, old, nextId, missed, panics>>

(* ... and prune, unless another replica does (the advisory lock) or the     *)
(* prune fails.                                                              *)
Prune(r) ==
    /\ exporter[r].at = "prune"
    /\ exporter' = [exporter EXCEPT ![r].at = "wait"]
    /\ \/ /\ log' = [id \in Ids |-> IF log[id] = "committed" /\ id \in old THEN "gone" ELSE log[id]]
          /\ missed' = [q \in Replicas |->
                          missed[q] \cup (old \cap Committed \cap Uncounted(q))]
       \/ UNCHANGED <<log, missed>>
    /\ UNCHANGED <<old, nextId, counted, panics>>

(* The exporter panics anywhere, and runs again from its start. *)
Panic(r) ==
    /\ exporter[r].at # "panicked" /\ panics < MaxPanics
    /\ exporter' = [exporter EXCEPT ![r].at = "panicked"]
    /\ panics' = panics + 1
    /\ UNCHANGED <<log, old, nextId, counted, missed>>

NotRestarted(r) ==
    /\ exporter[r].at = "panicked" /\ FALSE
    /\ exporter' = [exporter EXCEPT ![r].at = "start"]
    /\ UNCHANGED <<log, old, nextId, counted, missed, panics>>
Restart(r) ==
    /\ exporter[r].at = "panicked"
    /\ exporter' = [exporter EXCEPT ![r].at = "start"]
    /\ UNCHANGED <<log, old, nextId, counted, missed, panics>>

-----------------------------------------------------------------------------
ExporterStep(r) == Start(r) \/ Count(r) \/ Prune(r) \/ Restart(r)

RlsExportNext ==
    \/ Violate
    \/ \E id \in Ids : Commit(id) \/ Rollback(id) \/ GetOld(id)
    \/ \E r \in Replicas : ExporterStep(r) \/ Panic(r)

RlsExportSpec == RlsExportInit /\ [][RlsExportNext]_exportVars

(* An exporter's ticker goes on. *)
RlsExportFairness == \A r \in Replicas : WF_exportVars(ExporterStep(r))

=============================================================================
