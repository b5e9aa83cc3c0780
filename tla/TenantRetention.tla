--------------------------- MODULE TenantRetention ---------------------------
(***************************************************************************)
(* What happens to the data of one tenant that leaves: the ledger row in   *)
(* tenant_retention, written by the offboarding and return events          *)
(* (TenantOffboardingService), and the sweep that several replicas run     *)
(* over it (TenantPurger.Tick).                                            *)
(*                                                                         *)
(* Time is a counter that stops at Horizon; a time later than every event  *)
(* and period in the instance is Horizon.  Never (0) is SQL NULL.          *)
(***************************************************************************)
EXTENDS Naturals, FiniteSets

CONSTANTS
    Purgers,        \* replicas that run the sweep
    Rows,           \* workflow, workflow_module and workflow_template rows
    Paths,          \* credential paths of the connector registry
    Batch,          \* rows one DELETE takes at most
    CredentialRetention, ArtifactRetention,
    Interval, MaxBackoff,
    Horizon,        \* bound: the last instant
    MaxEvents,      \* bound: events of the tenant that occur
    MaxErrors       \* bound: failed calls and crashes of the sweep

ASSUME PeriodsArePositive ==
    /\ {CredentialRetention, ArtifactRetention, Interval, MaxBackoff} \subseteq Nat \ {0}
    /\ {Batch, Horizon} \subseteq Nat \ {0}
ASSUME RetentionBounds == {MaxEvents, MaxErrors} \subseteq Nat

VARIABLES
    now,            \* the clock
    sent,           \* events Org & Membership published (external)
    heard,          \* history: events that were acknowledged
    row,            \* the tenant_retention row
    rows,           \* the tenant's design-time rows
    fresh,          \* ids no row has had yet (UUIDv7: never used twice)
    secrets,        \* paths that hold a secret in OpenBao
    purger,         \* the sweep of each replica
    errors          \* failed calls so far

vars == <<now, sent, heard, row, rows, fresh, secrets, purger, errors>>
tenantVars == <<now, sent, heard, fresh>>

Never == 0
Event == [kind: {"offboarded", "returned"}, at: Nat \ {0}]

(* record_version 0: there is no row yet. *)
LedgerRow == [off: Nat, ret: Nat, credentialsPurged: BOOLEAN, purged: BOOLEAN,
              attempts: Nat, next: Nat, rv: Nat]
NoLedgerRow == [off |-> Never, ret |-> Never, credentialsPurged |-> FALSE,
                purged |-> FALSE, attempts |-> 0, next |-> Never, rv |-> 0]

PurgeStage == {"idle", "check", "delete", "lock", "batch", "count", "mark", "failure"}
Sweep == [pc:          PurgeStage,
          ver:         Nat,             \* record_version the next write names
          attempts:    Nat,
          credentials: BOOLEAN,         \* the parts that were due when listed
          artifacts:   BOOLEAN,
          todo:        SUBSET Paths,    \* secrets left to delete
          batch:       SUBSET Rows,     \* rows the open DELETE has chosen
          failed:      BOOLEAN]
Resting == [pc |-> "idle", ver |-> 0, attempts |-> 0, credentials |-> FALSE,
            artifacts |-> FALSE, todo |-> {}, batch |-> {}, failed |-> FALSE]

TypeOK ==
    /\ now \in Nat \ {0} /\ errors \in Nat
    /\ sent \in SUBSET Event /\ heard \in SUBSET sent
    /\ row \in LedgerRow
    /\ rows \in SUBSET Rows /\ fresh \in SUBSET Rows /\ secrets \in SUBSET Paths
    /\ purger \in [Purgers -> Sweep]

Init ==
    /\ now = 1 /\ errors = 0
    /\ sent = {} /\ heard = {}
    /\ row = NoLedgerRow
    /\ rows \in SUBSET Rows /\ fresh = Rows \ rows
    /\ secrets = Paths
    /\ purger = [p \in Purgers |-> Resting]

-----------------------------------------------------------------------------
(* The tenant, its events and the clock (external). *)

(* The tenant uses the service unless its newest event is an offboarding. *)
Active == \A e \in sent : e.kind = "offboarded" =>
              \E f \in sent : f.kind = "returned" /\ f.at > e.at

Advance ==
    /\ now < Horizon
    /\ now' = now + 1
    /\ UNCHANGED <<sent, heard, row, rows, fresh, secrets, purger, errors>>

(* TenantStateChanged or TenantMembershipsPurged occurs; no two at one time, *)
(* and none so late that its periods end after the last instant.             *)
Occur(kind) ==
    /\ Cardinality(sent) < MaxEvents
    /\ now + CredentialRetention <= Horizon /\ now + ArtifactRetention <= Horizon
    /\ \A e \in sent : e.at # now
    /\ sent' = sent \cup {[kind |-> kind, at |-> now]}
    /\ UNCHANGED <<now, heard, row, rows, fresh, secrets, purger, errors>>

(* An active tenant creates a row, or stores a credential. *)
CreateRow ==
    /\ Active
    /\ \E r \in fresh : rows' = rows \cup {r} /\ fresh' = fresh \ {r}
    /\ UNCHANGED <<now, sent, heard, row, secrets, purger, errors>>

StoreSecret ==
    /\ Active
    /\ \E s \in Paths \ secrets : secrets' = secrets \cup {s}
    /\ UNCHANGED <<tenantVars, row, rows, purger, errors>>

-----------------------------------------------------------------------------
(* The ledger.  A batch holds the row FOR SHARE until it commits, and any    *)
(* write of the row, ON CONFLICT DO UPDATE included, waits for it.           *)
RowFree == \A p \in Purgers : purger[p].pc # "batch"

(* Mutants: an offboarding older than the return counts; the marks of an     *)
(* earlier purge stay.                                                       *)
RecordOffboardedAnyTime(at) ==
    IF row.rv = 0 \/ row.ret # Never
    THEN row' = [NoLedgerRow EXCEPT !.off = at, !.next = at, !.rv = row.rv + 1]
    ELSE UNCHANGED row
RecordOffboardedKeepsMarks(at) ==
    IF row.rv = 0 \/ (row.ret # Never /\ row.ret < at)
    THEN row' = [row EXCEPT !.off = at, !.ret = Never, !.next = at, !.rv = row.rv + 1]
    ELSE UNCHANGED row

(* RecordTenantOffboarded: only a newer offboarding of a returned tenant     *)
(* records afresh; otherwise the first dates stay.                           *)
RecordOffboarded(at) ==
    IF row.rv = 0 \/ (row.ret # Never /\ row.ret < at)
    THEN row' = [NoLedgerRow EXCEPT !.off = at, !.next = at, !.rv = row.rv + 1]
    ELSE UNCHANGED row

(* RecordTenantReturned: unless the recorded offboarding or return is newer. *)
RecordReturned(at) ==
    IF row.off < at /\ row.ret < at
    THEN row' = [row EXCEPT !.ret = at, !.rv = @ + 1,
                            !.next = IF row.rv = 0 THEN at ELSE @]
    ELSE UNCHANGED row

(* handleTenantOffboarding.  An event comes in any order and any number of   *)
(* times; an error leaves the row alone and has the event come again.        *)
Deliver(e) ==
    /\ RowFree
    /\ IF e.kind = "offboarded" THEN RecordOffboarded(e.at) ELSE RecordReturned(e.at)
    /\ heard' = heard \cup {e}
    /\ UNCHANGED <<now, sent, rows, fresh, secrets, purger, errors>>

-----------------------------------------------------------------------------
(* The sweep. *)

PurgeAt(p, stage) == purger[p].pc = stage
Proceed(p, s) == purger' = [purger EXCEPT ![p] = s]

CredentialsDue == row.off # Never /\ ~row.credentialsPurged
                  /\ row.off + CredentialRetention <= now
ArtifactsDue == row.off # Never /\ ~row.purged /\ row.off + ArtifactRetention <= now

(* Mutant: a row is due when both parts are. *)
DueForBoth == row.next <= now /\ row.ret = Never /\ CredentialsDue /\ ArtifactsDue

(* ListTenantsDueForPurge. *)
Due == row.next <= now /\ row.ret = Never /\ (CredentialsDue \/ ArtifactsDue)

(* Mutant: the version is not asked for. *)
NotReturned(ver) == row.ret = Never

(* LockCurrentTenantRetention at the version read. *)
Current(ver) == row.rv = ver /\ row.ret = Never

(* After the credentials part: the artifacts part if it was due, else the    *)
(* end of purgeTenant, which records a failure if there was one.             *)
AfterArtifacts(s) == IF s.failed THEN [s EXCEPT !.pc = "failure"] ELSE Resting
AfterCredentials(s) == IF s.artifacts THEN [s EXCEPT !.pc = "lock"] ELSE AfterArtifacts(s)

(* Tick lists the tenant, and purgeTenant begins. *)
Tick(p) ==
    /\ PurgeAt(p, "idle")
    /\ Due
    /\ LET s == [Resting EXCEPT !.ver = row.rv, !.attempts = row.attempts,
                                !.credentials = CredentialsDue,
                                !.artifacts = ArtifactsDue]
       IN  Proceed(p, IF CredentialsDue
                      THEN [s EXCEPT !.pc = "check", !.todo = Paths]
                      ELSE AfterCredentials(s))
    /\ UNCHANGED <<tenantVars, row, rows, secrets, errors>>

(* purgeCredentials: before each secret, Current; a changed row ends the     *)
(* tenant's run without a failure.                                           *)
CheckSecret(p) ==
    /\ PurgeAt(p, "check")
    /\ purger[p].todo # {}
    /\ Proceed(p, IF Current(purger[p].ver) THEN [purger[p] EXCEPT !.pc = "delete"]
                  ELSE Resting)
    /\ UNCHANGED <<tenantVars, row, rows, secrets, errors>>

(* Secrets.Delete of the next path. *)
DeleteSecret(p) ==
    /\ PurgeAt(p, "delete")
    /\ \E s \in purger[p].todo :
          /\ secrets' = secrets \ {s}
          /\ Proceed(p, [purger[p] EXCEPT !.pc = "check", !.todo = @ \ {s}])
    /\ UNCHANGED <<tenantVars, row, rows, errors>>

(* A write of the row that names the version the sweep read, and what the    *)
(* sweep goes on with.                                                       *)
WriteLedger(r) == row' = [r EXCEPT !.rv = row.rv + 1]
Written(s) == [s EXCEPT !.ver = @ + 1, !.attempts = 0]

MarkCredentialsPurged(p) ==
    /\ PurgeAt(p, "check")
    /\ purger[p].todo = {}
    /\ RowFree
    /\ IF row.rv = purger[p].ver
       THEN /\ WriteLedger([row EXCEPT !.credentialsPurged = TRUE, !.attempts = 0])
            /\ Proceed(p, AfterCredentials(Written(purger[p])))
       ELSE UNCHANGED row /\ Proceed(p, Resting)
    /\ UNCHANGED <<tenantVars, rows, secrets, errors>>

(* PurgeBatch: lock the row FOR SHARE and choose the rows of one DELETE ...  *)
BatchBegin(p) ==
    /\ PurgeAt(p, "lock")
    /\ IF Current(purger[p].ver)
       THEN \E chosen \in SUBSET rows :
               /\ Cardinality(chosen) <= Batch
               /\ chosen = {} <=> rows = {}
               /\ Proceed(p, [purger[p] EXCEPT !.pc = "batch", !.batch = chosen])
       ELSE Proceed(p, Resting)
    /\ UNCHANGED <<tenantVars, row, rows, secrets, errors>>

(* ... and commit it.  Rows another replica deleted meanwhile do not count,  *)
(* and a batch without any is taken for the last.                            *)
BatchCommit(p) ==
    /\ PurgeAt(p, "batch")
    /\ LET deleted == purger[p].batch \cap rows
       IN  /\ rows' = rows \ deleted
           /\ Proceed(p, [purger[p] EXCEPT !.batch = {},
                                           !.pc = IF deleted = {} THEN "count" ELSE "lock"])
    /\ UNCHANGED <<tenantVars, row, secrets, errors>>

(* Mutant: a batch without a row is trusted. *)
TrustEmptyBatch(p) ==
    /\ PurgeAt(p, "count")
    /\ Proceed(p, [purger[p] EXCEPT !.pc = "mark"])
    /\ UNCHANGED <<tenantVars, row, rows, secrets, errors>>

(* HasRows: rows that remain are a failure. *)
CheckEmpty(p) ==
    /\ PurgeAt(p, "count")
    /\ Proceed(p, IF rows = {} THEN [purger[p] EXCEPT !.pc = "mark"]
                  ELSE [purger[p] EXCEPT !.pc = "failure", !.failed = TRUE])
    /\ UNCHANGED <<tenantVars, row, rows, secrets, errors>>

MarkPurged(p) ==
    /\ PurgeAt(p, "mark")
    /\ RowFree
    /\ IF row.rv = purger[p].ver
       THEN /\ WriteLedger([row EXCEPT !.purged = TRUE, !.attempts = 0])
            /\ Proceed(p, AfterArtifacts(Written(purger[p])))
       ELSE UNCHANGED row /\ Proceed(p, Resting)
    /\ UNCHANGED <<tenantVars, rows, secrets, errors>>

(* backoff: the interval, doubled for each earlier failure, at most          *)
(* MaxBackoff.                                                               *)
Lesser(a, b) == IF a < b THEN a ELSE b
Backoff(attempts) == Lesser(Interval * 2^(attempts - 1), MaxBackoff)

RecordFailure(p) ==
    /\ PurgeAt(p, "failure")
    /\ RowFree
    /\ LET n == purger[p].attempts + 1
       IN  IF row.rv = purger[p].ver
           THEN \E wait \in 1..MaxBackoff :
                   /\ wait = Backoff(n)
                   /\ WriteLedger([row EXCEPT !.attempts = n,
                                              !.next = Lesser(now + wait, Horizon)])
           ELSE UNCHANGED row
    /\ Proceed(p, Resting)
    /\ UNCHANGED <<tenantVars, rows, secrets, errors>>

-----------------------------------------------------------------------------
(* Calls that fail.  The answer of a call that had its effect may be lost.   *)

CountError == errors < MaxErrors /\ errors' = errors + 1

(* The artifacts part still runs, with the version last returned.            *)
CredentialsFail(p) ==
    /\ CountError
    /\ purger[p].pc \in {"check", "delete"}
    /\ LET s == [purger[p] EXCEPT !.failed = TRUE, !.todo = {}]
       IN  Proceed(p, IF s.artifacts THEN [s EXCEPT !.pc = "lock"]
                      ELSE [s EXCEPT !.pc = "failure"])
    /\ \/ UNCHANGED <<row, secrets>>
       \/ /\ PurgeAt(p, "delete")
          /\ \E s \in purger[p].todo : secrets' = secrets \ {s}
          /\ UNCHANGED row
       \/ /\ PurgeAt(p, "check") /\ purger[p].todo = {}
          /\ RowFree /\ row.rv = purger[p].ver
          /\ WriteLedger([row EXCEPT !.credentialsPurged = TRUE, !.attempts = 0])
          /\ UNCHANGED secrets
    /\ UNCHANGED <<tenantVars, rows>>

ArtifactsFail(p) ==
    /\ CountError
    /\ purger[p].pc \in {"lock", "batch", "count", "mark"}
    /\ Proceed(p, [purger[p] EXCEPT !.pc = "failure", !.failed = TRUE, !.batch = {}])
    /\ \/ UNCHANGED <<row, rows>>
       \/ PurgeAt(p, "batch") /\ rows' = rows \ purger[p].batch /\ UNCHANGED row
       \/ /\ PurgeAt(p, "mark")
          /\ RowFree /\ row.rv = purger[p].ver
          /\ WriteLedger([row EXCEPT !.purged = TRUE, !.attempts = 0])
          /\ UNCHANGED rows
    /\ UNCHANGED <<tenantVars, secrets>>

(* The replica stops, or the failure cannot be recorded: an open batch is    *)
(* rolled back, and the next run starts from the row.                        *)
Stop(p) ==
    /\ CountError
    /\ ~PurgeAt(p, "idle")
    /\ Proceed(p, Resting)
    /\ UNCHANGED <<tenantVars, row, rows, secrets>>

-----------------------------------------------------------------------------
SweepStep(p) ==
    \/ Tick(p) \/ CheckSecret(p) \/ DeleteSecret(p) \/ MarkCredentialsPurged(p)
    \/ BatchBegin(p) \/ BatchCommit(p) \/ CheckEmpty(p) \/ MarkPurged(p)
    \/ RecordFailure(p)

TenantStep ==
    \/ \E kind \in {"offboarded", "returned"} : Occur(kind)
    \/ CreateRow \/ StoreSecret
    \/ \E e \in sent : Deliver(e)

Next ==
    \/ Advance
    \/ TenantStep
    \/ \E p \in Purgers : \/ SweepStep(p)
                          \/ CredentialsFail(p) \/ ArtifactsFail(p) \/ Stop(p)

Spec == Init /\ [][Next]_vars

(* Time passes, and the loop of every replica goes on (goSafeRestart,        *)
(* TenantPurger.Run).                                                        *)
PurgeFairness == WF_vars(Advance) /\ \A p \in Purgers : WF_vars(SweepStep(p))
FairSpec == Spec /\ PurgeFairness

=============================================================================
