----------------------------- MODULE MCServices -----------------------------
(***************************************************************************)
(* One run over five parts of a replica that share no state: idempotency   *)
(* keys, the plan table, the violation exporter, the stop of the pod and   *)
(* the purge of departed tenants.  part says which of them moves; the      *)
(* others are at rest, in a state where no fair step of theirs is enabled. *)
(***************************************************************************)
EXTENDS IdempotencyProperties, ServerProperties, PlanLimitsProperties, RlsExportProperties

CONSTANT OtherBody
CONSTANTS Purgers, Rows, Paths, Batch, CredentialRetention, ArtifactRetention,
          Interval, MaxBackoff, Horizon, MaxEvents, MaxErrors

VARIABLES now, sent, heard, row, rows, fresh, secrets, purger, errors
VARIABLE part

(* The requests of OtherBody reuse the key for something else. *)
BodyOf == [r \in Requests |-> IF r \in OtherBody THEN "b" ELSE "a"]

Purge  == INSTANCE RetentionProperties

purgeVars == <<now, sent, heard, row, rows, fresh, secrets, purger, errors>>
vars == <<idemVars, planVars, exportVars, podVars, purgeVars, part>>

-----------------------------------------------------------------------------
KeysAtRest ==
    /\ stored = {} /\ marker = {} /\ effects = {} /\ faults = 0 /\ failures = 0
    /\ request = [r \in Requests |-> [Unsent EXCEPT !.at = "answered"]]
    /\ told = [r \in Requests |-> {}]

LimitsAtRest ==
    /\ plans = 1 /\ planAge = [p \in 1 .. MaxPlans |-> IF p = 1 THEN Known ELSE 0]
    /\ table = 0 /\ tableAge = OldestAge /\ retryIn = 0 /\ readErrors = 0
    /\ inflight = {} /\ read = [r \in Reads |-> IdleRead]
    /\ caller = [c \in Callers |-> [IdleCaller EXCEPT !.at = "wait"]]

ExportAtRest ==
    /\ log = [id \in Ids |-> "none"] /\ old = {} /\ nextId = 1 /\ panics = 0
    /\ exporter = [r \in Replicas |-> [at |-> "rest", lastID |-> 0]]
    /\ counted = [r \in Replicas |-> [id \in Ids |-> 0]]
    /\ missed = [r \in Replicas |-> {}]

PurgeAtRest ==
    /\ now = Horizon /\ sent = {} /\ heard = {} /\ errors = 0
    /\ row = Purge!NoLedgerRow /\ rows = {} /\ fresh = {} /\ secrets = {}
    /\ purger = [p \in Purgers |-> Purge!Resting]

Starts(name, init, atRest) == IF part = name THEN init ELSE atRest

Init ==
    /\ part \in {"keys", "limits", "export", "pod", "purge"}
    /\ Starts("keys", IdempotencyInit, KeysAtRest)
    /\ Starts("limits", PlanLimitsInit, LimitsAtRest)
    /\ Starts("export", RlsExportInit, ExportAtRest)
    /\ PodInit
    /\ Starts("purge", Purge!Init, PurgeAtRest)

Next ==
    \/ /\ part = "keys" /\ IdempotencyNext
       /\ UNCHANGED <<planVars, exportVars, podVars, purgeVars, part>>
    \/ /\ part = "limits" /\ PlanLimitsNext
       /\ UNCHANGED <<idemVars, exportVars, podVars, purgeVars, part>>
    \/ /\ part = "export" /\ RlsExportNext
       /\ UNCHANGED <<idemVars, planVars, podVars, purgeVars, part>>
    \/ /\ part = "pod" /\ PodNext
       /\ UNCHANGED <<idemVars, planVars, exportVars, purgeVars, part>>
    \/ /\ part = "purge" /\ Purge!Next
       /\ UNCHANGED <<idemVars, planVars, exportVars, podVars, part>>

(* Each part's own fairness; none of it asks anything of a part at rest.     *)
Spec ==
    /\ Init /\ [][Next]_vars
    /\ IdempotencyFairness /\ PlanLimitsFairness /\ RlsExportFairness
    /\ PodFairness /\ Purge!PurgeFairness

-----------------------------------------------------------------------------
(* A departed tenant's data is purged in the end (TenantPurger.Run). *)
DepartedIsPurged == Purge!DepartedIsPurged

=============================================================================
