# A verification development of the workflow-definition-service

The service keeps the catalogue of workflow definitions of every tenant: BPMN
documents that are edited as drafts, compiled and published as numbered
versions, made the workflow's active version, archived, and read as compiled
plans by the Execution Service.  Several replicas run at once on one PostgreSQL
database and one Valkey cache; other services call them over HTTP and send them
events.

These modules model what the replicas do to that shared state, step by step as
the Go code takes the steps.  TLC checks small instances; TLAPS proves the
invariants on which the rest stands for every instance.

To check everything: `tlc -config <run>.cfg <module>` for each run, the module
being `MCLifecycle` for `lifecycle`, `quota`, `revocation`, `savelost` and
`quotaholds`; `MCRetention` for `retention`, `secretlost` and `offboardinglost`;
`MCServices`, `MCLibrary`, `MCCompiler` and `MCMessages` for `services`,
`library`, `droppedwork` and `zerocancel`; and `tlapm` on each module whose name
ends in `Proofs`.

## 1. Inventory

| component | state | operations | hard because |
|---|---|---|---|
| `WorkflowService` | `workflow`, `workflow_version` | Create, Archive (List, Get) | the quota counts rows other requests insert; archive calls the Execution Service between its read and its transaction, and evicts a cache entry after its commit |
| `DraftService` | draft row, workflow row, Valkey key `draft-lock` | Init, Update, Discard | an optimistic token, a lock with a time to live, and a second row (name, description) saved with the draft |
| `VersionService` | version rows, `active_version_id`, assignee rows | Publish, Promote, Clone (Diff, Export, List) | publish reads, compiles and asks another service for seconds before its transaction |
| revocation handler (`membership_event.go`, `internal_events.go`) | `is_valid`, cached plans | HandleDepartmentMembershipRevoked, ...UserRevoked | events come late, again, beside each other, and race with publish |
| `CompiledPlanService` | Valkey keys `wf:plan` | Get | fills the cache with a row read earlier |
| `PlanLimitService` | in-memory plan table | WorkflowTemplateLimit | one refresh in flight, waiters, back-off, a stale table served meanwhile |
| `ModuleService`, `module_resolution.go` | `workflow_module(_version)` | Create, AddVersion, Publish, Archive; resolve | two scopes with separate unique indexes; references between moving versions |
| `StarterService`, `ConnectorService` | `workflow_template`, aliases | single-statement operations | - |
| `TenantOffboardingService`, `TenantPurger` | `tenant_retention`, every tenant table, secrets store | RecordOffboarded, RecordReturned, Tick | events out of order; a purge in many steps on several replicas, from which a tenant may return |
| `Idempotent` middleware | Valkey keys `idem:`, `idem:...:pending` | one wrapper round every mutating handler | a reservation that expires under its holder, a crash before the response is stored |
| `RLSViolationExporter` | `lastID` | Start, Tick | a cursor over ids that commit out of order |
| BPMN compiler | none | Parse, Validate, Compile, Bundle, ModuleContract, Diff | graph algorithms whose result decides what runs: back edges, components, joins; a diagram cut into departments that are run whole; calls, bindings and messages resolved across documents |
| server lifecycle (`cmd/server`) | listeners, loops, pools | start, drain, stop | order of shutdown |
| handlers, clients, configuration, observability | none | translation and I/O | - |

The services meet in the tables (serializable transactions and guarded single
statements), in the cache, and in the events of other services.  What makes each
correct:

- **workflow lifecycle**: a published version never changes; its plan and its
  assignee rows were made from the document it holds; numbers are 1, 2, ... per
  workflow; the active pointer names a published version of its workflow; at
  most one draft; no save is lost; the quota is not passed;
- **revocation**: every version that assigns a revoked member becomes invalid,
  no version published after the member was added back does, and no stale plan
  stays in the cache;
- **retention**: only the latest event decides, a tenant that returned loses
  nothing more, a purge ends;
- **idempotency**: one key runs its handler once while a stored response or a
  reservation lives, and a reservation is released by its own holder;
- **plan limits**: one read at a time, no older table over a newer one, no plan
  refused that was listed long ago, no waiter left;
- **modules**: a process id names one module, the newest published version is
  the active one until it is archived, what is published resolves and ends;
- **violation counter**: nothing counted twice; everything counted that the
  exporter did not pass over;
- **compiler**: the plan of an accepted document runs the tasks the diagram
  gives, in their order; a boundary and a revert land where they are drawn; a
  bundle means what its files mean; a call binds what its module's contract
  lists; nothing waits for a message unsaid; the comparison of two plans misses
  no change of route;
- **stop of a pod**: nobody is refused while the load balancer still sends, no
  request is cut before its time, and the pod stops.

## 2. The modules

The order is that of the composition: a module extends or instantiates those in
its last column.

| module | models | uses |
|---|---|---|
| `DefinitionStore` | the three tables of workflows and every SQL statement that changes them | - |
| `WorkflowLifecycle` | WorkflowService, DraftService, VersionService, CompiledPlanService, the revocation handler: `Spec` | `DefinitionStore` |
| `LifecycleProperties`, `LifecycleProofs`, `MCLifecycle` | its properties and inductive invariant, the theorems, constants of its runs | `WorkflowLifecycle` |
| `TenantRetention` | TenantOffboardingService and its events, TenantPurger, `tenant_retention.sql`, migration 5: `Spec`, `FairSpec` | - |
| `RetentionProperties`, `RetentionProofs`, `MCRetention` | as above | `TenantRetention` |
| `OncePerKey` | **abstract**: what an idempotency key promises | - |
| `Idempotency` | `WithIdempotency` around a mutating handler, on any replica | - |
| `IdempotencyProperties`, `IdempotencyProofs` | the refinement of `OncePerKey`, liveness; its proof | `Idempotency`, `OncePerKey` |
| `PlanLimits`, `PlanLimitsProperties` | PlanLimitService on one replica | - |
| `RlsExport`, `RlsExportProperties` | the violation log and the exporters of all replicas | - |
| `ServerLifecycle`, `ServerProperties` | the stop of one pod (`cmd/server/app.go`, `recover.go`) | - |
| `PodProofs` | theorems about the plan limits, the exporters and the stop | the six before |
| `MCServices` | one run over the keys, the limits, the exporters, the stop and the purge | all of them |
| `ModuleCatalog`, `CatalogProperties`, `CatalogProofs` | ModuleService, `module_resolution.go`, the module tables | - |
| `FlowGraph` | the graph algorithms of `bpmncore`: back edges, components, joins, reach | - |
| `ProcessChecks` | the structural rules of `validator` over one process | `FlowGraph` |
| `PlanCompiler` | `bpmncore.Compile` and the element handlers: departments and steps | `ProcessChecks` |
| `JoinIndex`, `JoinProofs` | `bpmncore/joins.go` and FindJoin, a turn of a loop at a time: `IndexSpec`; its theorems | - |
| `CompilerProperties`, `MCCompiler` | reference definitions of joins and runs, the properties; the diagrams | `PlanCompiler` |
| `PlanDiff`, `MCVersions` | `version_diff.go`, Diff and the check of an unforced publish; pairs of versions | `CompilerProperties` |
| `ModuleBundle` | `modules.go`, `bundle.go`: one document of a workflow and the modules it calls | - |
| `CallGraph`, `CallGraphProofs` | the walks of `validator/call_graph.go` and of the compilation over a bundle: `BundleSpec`; its theorems | - |
| `CallBinding` | departments and users a call binds; the module contract | - |
| `MessageNames` | the names waits get, what the validator says of them, interruption | - |
| `DocumentProofs` | theorems about the bundle and the names | `ModuleBundle`, `MessageNames` |
| `MCModules`, `MCMessages` | files and texts of the four modules before | those |
| `MCLibrary` | one run over the catalogue and everything the compiler does | all of them |

The parts meet as the services do.  The lifecycle takes from the compiler what a
document means (`plan = d`, `AssigneesOf`, `ShapeOf`), and `PlanCompiler`,
`CallGraph`, `CallBinding` and `PlanDiff` say what that is; it takes its limit
from `PlanLimits`.  `ModuleCatalog` publishes a workflow against versions that
move meanwhile, and hands over the snapshot `ModuleBundle` joins and `CallGraph`
checks.  `Idempotency` wraps every mutating operation of the lifecycle.  A purge
deletes the rows of a tenant that makes no more requests.  They share no
variable, so each is checked by itself: an interleaving of two of them that
share nothing violates nothing that one alone does not.

### State of the lifecycle

`workflow`, `version` and `assignee` are the tables, one function from ids to
rows each.  A row that does not exist yet is `absent`, one that was deleted
`deleted`: an id (a UUIDv7) is never used twice.  The columns kept are the ones
a guard or a property reads: status, workflow, document, plan, number,
`is_valid`, `record_version`; `active_version_id`; name and description.

A document is a member of `Docs`.  It stands for its compiled plan, artifact
hash and module references too (`plan = d` means *what the compiler makes of
d*), `AssigneesOf[d]` are its default assignees, and `ShapeOf[d]` its steps as
`computeDiff` compares them: two documents diverge structurally when their
shapes differ.  A user is one member of one department, which is what a
revocation event names; a revocation of the user in all departments is a set of
such revocations.

`draftLock` and `planCache` are the Valkey keys.  `member`, `revoked` and
`pending` are the part of Org & Membership the service sees: who is eligible,
which revocations occurred, which of their events are not acknowledged yet.
`req[c]` is a request in flight: its `pc` says between which two database, cache
or HTTP calls it stands, the other fields are the local variables that live
across them.  Two variables only record history: `unseen[v]` are the assignees
that lost their membership between the eligibility check and the commit of v's
publish, `lostEvict` the versions whose eviction from the cache failed and is
retried by nobody.

### Steps of the lifecycle

One action is one database transaction, one autocommitted statement, or one
call of the cache or of another service, with the code that runs on its result.
Transactions are SERIALIZABLE in `transactor.go` (with retries), so a
transaction is one step at its snapshot; the one exception, the READ COMMITTED
transaction of `DraftService.runUpdateTx`, is two steps: `SaveReadMeta` reads
the workflow row and `SaveCommit` writes.  A guarded statement that affects no
row is an error return.  Every error return, a request whose context is
cancelled, a panic and a crash of the replica leave the tables as they are and
end the request: all of them are `Abandon`, which is always possible, and which
may or may not release the draft lock and never makes up for a missing
eviction.

| code | actions |
|---|---|
| `WorkflowService.Create` | `Create` |
| `WorkflowService.Archive` | `ArchiveRead`, `ArchiveCommit`, `Evict` |
| `DraftService.Init` | `InitRead`, `InitCommit` |
| `DraftService.Update` | `SaveBegin`, `SaveReadMeta`, `SaveCommit` (`Fetch` is the client's GET before) |
| `DraftService.Discard` | `DiscardRead`, `DiscardCommit` |
| `VersionService.Publish` | `PublishRead`, `CheckStructure`, `CheckEligibility`, `PublishCommit` |
| `VersionService.Promote` | `PromoteRead`, `PromoteCommit` |
| `VersionService.Clone` | `CloneRead`, `CloneCommit` |
| `CompiledPlanService.Get` on a miss | `PlanRead`, `PlanFill`, `PlanRecheck`, `PlanDrop` |
| revocation handler | `RevocationDeliver`, `RevocationNext`, `Invalidate`, `EvictRevoked`, `RevocationFinish` |
| outside | `LockExpire`, `PlanExpire`, `Revoke`, `Rejoin` |

Where two reads are merged into one action, the second reads what can no longer
change: Init, Clone and Promote read the document of a published version, and a
published version keeps its document (`PublishedNeverChanges`).  `SaveBegin`
merges the lock's SetNX with the read of the draft: only the lock keeps other
saves out, and a stale read is refused by the guard of `UpdateDraftVersion`,
which compares the same token again.  The handler of a revocation compares
`created_at` of an assignee row with the envelope's time; `known` is the set of
versions whose rows existed then, or all versions for an envelope without a
time.

### State of the retention of a tenant's data

One tenant.  `row` is its row of `tenant_retention`: the times of the recorded
offboarding and return (`Never` is NULL), the two completion marks, the failed
attempts, the time of the next one, and `record_version`, which is 0 while there
is no row.  The two `..._purge_after` columns are `off` plus a constant period,
as the offboarding handler writes them.  `rows` are the tenant's workflows,
modules and starters, `fresh` the ids that are still to be used, `secrets` the
credential paths that hold a secret in OpenBao.  `sent` are the events Org &
Membership published, each with its time, `heard` those that were acknowledged.
`now` is the clock.  `purger[p]` is the sweep of replica p at this tenant: where
it stands, and the local variables of `purgeTenant` (the version the next write
names, `attempts`, which parts were due when listed, whether one has failed) and
of the part it is in (the paths left, the rows an open DELETE has chosen).

### Steps of the retention of a tenant's data

| code | actions |
|---|---|
| `handleTenantOffboarding`, TenantOffboardingService | `Deliver` (`RecordOffboarded`, `RecordReturned`): any event published so far, any number of times |
| `TenantPurger.Tick`, start of `purgeTenant` | `Tick` |
| `purgeCredentials` | `CheckSecret` and `DeleteSecret` for each path, `MarkCredentialsPurged` |
| `PurgeBatch` | `BatchBegin` (lock the row FOR SHARE, choose the rows), `BatchCommit` |
| `purgeArtifacts` | the two above in a loop, `CheckEmpty`, `MarkPurged` |
| end of `purgeTenant` | `RecordFailure` |
| error returns, lost answers, a replica that stops | `CredentialsFail`, `ArtifactsFail`, `Stop` |
| outside | `Advance`, `Occur`, `CreateRow`, `StoreSecret` |

Two points decide what can happen here.  An open batch holds the ledger row FOR
SHARE: two batches may be open together, but a write of the row, an event's
`ON CONFLICT DO UPDATE` included, waits for both (`RowFree`); the check before
a credential delete is a statement of its own and holds nothing.  And the
DELETE runs in READ COMMITTED: rows that another replica took are waited for and
then not counted, so a batch may delete nothing while rows remain.  The three
tables a batch tries in turn are one set here: a batch whose table was emptied
under it goes on to the next table in the code, and is in the model a batch that
chose from that one.

### Keys, limits, violations, pods

`Idempotency` is one key of one user.  `stored` is the response in Valkey, known
by the body it answers; `marker` the pending key, known by the token in it;
`request[r]` a request on any replica: the call before which it stands, its
attempt (a fresh token each), whether it holds a reservation, and whether its
context still lives.  `effects` and `told` record history.  Every fault of
`FaultKinds` (a cache call that fails, applied or not; a disconnect; a stopped
replica; a handler that outlives the marker; a response that lapses) counts in
`faults`.  `OncePerKey` is the promise: the operation takes effect once, and once
more at most for every fault; a caller is told nothing but what an operation of
its own body came to.  The refinement maps `credit` to `faults` and leaves
`effects` and `told` alone.

| code | actions |
|---|---|
| `replayIfCached`, twice | `Lookup`, `Recheck` |
| `reserve` and its release | `Reserve`, `Release` |
| the handler, `storeIfSuccess` | `HandlerCommits`, `HandlerFails`, `Store` |
| outside | `Send`, `ContextEnds`, `Stop`, `MarkerLapses`, `ResponseLapses` |

`PlanLimits` has one step per critical section of `PlanLimitService`: a caller is
between `currentTable` (`CurrentTable`), `awaitRead` (`TakeTable`, `GiveUp`) and
the check of the table's age (`CheckAge`); a read goes from `startReadLocked` to
`Sample` (what the catalogue answered) and `Settle`.  A table is the number of
plans it lists, and clocks are ages in ticks.

`RlsExport` separates the insert of a violation, which draws its id, from the
commit that shows it.  `exporter[r]` is where a replica's loop is, with `lastID`;
`missed` are the rows its exporter passed over.  `Panic` and `Restart` are
`goSafeRestart`.

`ServerLifecycle` follows `run` and `stopServers` in their order (`phase`), with
the ticks left of the wait each phase is in, and what the load balancer, which
learns of the stop late, and the requests do meanwhile.

### The module library

`versions[m]` are the rows of a module in order of creation, `active[m]` the
pointer.  A document is the sequence of calls in it, each a process id and a
version number or 0 for the latest.  A request of `user` walks the calls of its
document, one lookup (`Visit`) at a time, each a statement of its own, and
commits in one serializable transaction; between any two steps another user may
publish or archive.  `snapshots` are the published workflow versions with what
they resolved.

| code | actions |
|---|---|
| `ModuleService.Create`, `AddVersion`, `Publish` | `BeginCreate`, `BeginAdd`, `BeginCopy`, `BeginPublish`, `Visit` and the commit |
| `ModuleService.Archive` | `ReadArchive` and its commit |
| `VersionService.Publish` with modules | `BeginWorkflow`, `Visit` and the commit |

### The compiler

The compiler keeps no state, so its modules but one are operators, and a behaviour
is one request: read a document, check it, compile it.  What varies is the document:
`Init` chooses one from a family, and the invariants compare what the operators
give with definitions written another way.

A process is a graph of numbered nodes with a kind, a lane and an ordered list of
targets (`FlowGraph`).  `ProcessChecks` gives the issues of a process, each a
code and an element.  `PlanCompiler` follows `compileFrom`: a state holds the
open department, the pending buffer of departments, what was compiled where, and
the branches share the rest.  A department is a lane and a number; steps are the
operations of the plan.  `CompilerProperties` says independently in which orders
the work of a diagram can be done (`Runs`) and which orders a plan gives
(`PlanRuns`).

`ModuleBundle` renames, `CallGraph` walks, `CallBinding` binds, `MessageNames`
resolves names, `PlanDiff` compares; each states its property at its end, beside
the definitions it compares with.

`CallGraph` and `JoinIndex` are the exceptions: they take walks over a bundle's
calls and over a process's flows a step at a time, because what those keep half way
is what their proofs are about.  In `CallGraph`, `pass` says which walk is under way
and `stack` holds the calls of its recursive function that have not returned, each
with its local variables:

| code | in the model |
|---|---|
| `visit` of `ValidateCallGraph`, its maps | `VisitNext`, `SkipCall`, `VisitCalled`, `CountCall`, `EndVisit`; `graph` |
| `runnableRoot`, `Validate` | `RefuseBundle`, `ChooseRoot`; `verdict` |
| the queue of `ValidateCalledBodies` | `PassBodyCall`, `NoteBodyCall`, `QueueBody`, `NextBody`, `EndBodies`; `bodies` |
| `bodyWalk.attributed` and `routes`, its memo | `AttributeOwn`, `AttributeKnown`, `SeekRoutes`, `AuthorCalls`, `KnownCalls`, `CutCycle`, `SeekCaller`, `ReturnRoutes`, `AttributeFound`, `EndRoutes`; `routes` |
| `compileCalledPlan`, `CalledPlans`, `bindDepartments` | `BeginCompile`, `Claim`, `BindCall`, `PutPlan`, `EndCompile`; `plans` |

What they are compared with is not a walk: the ways calls lead (`Ways`), what
expanding every one of them gives (`Expansion`), and the least set that calls lead
to and do not leave (`Leading`).

In `JoinIndex` a step is one turn of a loop of `joins.go`:

| code | in the model |
|---|---|
| the roots of `forwardWalk.walk`, its `state` | `WalkFrom`, `EndWalk`; a node is on the stack (`OnTrail`), done (in `walk.order`) or neither |
| `forwardWalk.from`, the frames of its stack | `PassBack`, `CutFlow`, `TakeFlow`, `EnterNode`; `trail` |
| `finish` | `FinishNode`; `walk` has the order, the successors and the cyclic nodes |
| `Joins.index`, its loop over the successors | `SkipCyclic`, `FirstSuccessor`, `NextSuccessor`, `PlaceNode`, `EndIndex`; `tree` |
| `commonAncestor` | `Climb`; `meet` |

`split` is `Nowhere` for the index `NewJoins` makes of all nodes, and a node for
`FindJoin`, whose copy of the walk (`graph.go:106`) starts there and notes no cycles.
`PlanCompiler` and `ProcessChecks` ask for joins through the operators of
`FlowGraph`, which are the same walk and index in one piece.  `MCLibrary` states that
those find the same joins as an assumption (`CompilerAsksThisIndex`), which TLC
evaluates for every graph of the run before it begins.

## 3. Runs

| run | instance | question |
|---|---|---|
| `lifecycle` | 1 workflow, 3 versions, 2 documents of two structures, 2 clients | `PlanIsOfOwnSource`, `VersionsNumbered`, `PublishedNeverChanges`, `UnforcedKeepsShape`, `NoSaveLostInDraft`, `LockFreedByHolder` while drafts are saved, published, archived, discarded and begun again and locks expire under their holders; `IInv`, the inductive invariant of the proofs |
| `quota` | 2 workflows, 3 versions, limit 1, 2 clients | `ActiveIsPublished`, `OnlyInitPassesQuota` under create, clone, init, publish, promote, archive |
| `revocation` | 1 workflow, 2 versions, 1 user, 1 revocation delivered any number of times, 2 clients | `RevocationReachesVersions`, `OldRevocationSparesNew`, `StaleEntryIsOwed` |
| `retention` | 2 replicas, 2 rows, 1 secret, batches of 1, 3 events, 1 failure, 5 instants | `ReturnOutlivesOffboarding`, `RowsGoOnlyWhenDue`, `PurgedIsEmpty`, and the inductive invariant `PurgeInv` |
| `services` | five parts under their fairness: 3 requests of one key with 2 faults; 2 callers, 2 plans and 1 failing read; 2 replicas, 2 violations, 2 panics; a pod with 3 requests; a purge with 2 events and 4 instants | `KeepsPromise` (refinement), `CallersAreAnswered`, `KnownPlanIsServed`, `TableCatchesUp`, `EventuallyCounted`, `NoneRefused`, `PodStops`, `DepartedIsPurged` |
| `library` | 2 users of 2 modules of a tenant and a global one; every document, flow graph, pair, bundle, file and text of the families below | sixteen invariants of the catalogue and the compiler |
| `savelost`, `quotaholds`, `secretlost`, `offboardinglost`, `droppedwork`, `zerocancel` | small | documented claims the code does not keep (section 6) |

`services` and `library` each join parts that share no variable, so that one run
answers for all of them: `part`, chosen in `Init`, says which one moves, and the
others stay at rest, in a state in which none of their fair actions is enabled.
The behaviours are those of each part alone.

**Bounds of the lifecycle.**  Two clients suffice for every hazard in
`PROJECT.json`: each is a race of one request with one other, or with later
requests of the same client, which starts over when it is done.  Three versions
let one be archived while another is active and a third a draft; two workflows
under a limit of one make the quota bind.  `MaxRecordVersion` bounds saves and
invalidations of a row; it is above what the interesting cases of each run need.
Ids are only compared for equality, so workflows, versions and clients are
symmetric; no run with symmetry checks liveness.

**Bounds of retention.**  Two replicas are what every hazard of the sweep needs;
two rows in batches of one make a sweep take several batches and let each replica
hold one.  Three events allow leaving, returning and leaving again, in every
order of delivery.  The clock stops at `Horizon`; an event occurs only when both
periods can still pass before that, and a next attempt later than `Horizon`
counts as `Horizon`, so that time ends neither a period nor a back-off too early.
The credential period is shorter than the other, as by default.

**Bounds of the services.**  Three requests, one with another body, and two
faults let a retry, the first attempt and a stranger meet over a lapsed marker.
Two names of reads let a read be late while the next one runs.  Two violations
are enough for an id that commits late; two panics for one during a restart.  The
pod's periods of one and two ticks let every request end or not in each phase,
and the load balancer lag behind by one tick.

**Bounds of the library.**  A version number up to two and a call that may name
any version, or the latest, give pins, cycles over versions and calls of oneself.
The families of documents draw *every* assignment of flows to a short list of
elements: a choice, two tasks in two lanes and a second choice; partial merges
with and without an ignored lane; a parallel split around a choice; a task shared
by two branches inside a loop; a boundary whose path branches; a sub-process with
its own loop.  Every join, loop and re-entry of a lane that a process of that
size can have is among them; most are refused by the checks, which is part of
what is checked.  The other families are in `MCVersions` (each way to draw a
diagram against each other way), `MCMessages` (flows with every reference, two
flows into one node, every spelling of `cancelActivity` on every host), `MCModules`
(files of two processes, whose ids may be those of modules or of their plans'
names; two nested calls with every binding) and `MCLibrary` (bundles: shared
calls, cycles, ignored pools, an ignored author whose module runs, duplicate ids;
flow graphs of five nodes, `AllFlows`, in which a branch, a partial merge, a loop
with a back edge and a cycle the start does not lead to, which has none, meet in
every order of their flows, so that flows are cut and nodes skipped).
`TaskLimit`, `StageBudget` and
`MaxPathDepth` are small enough that some documents pass them.

A behaviour ends when its request is answered, ids are used up, or time is up;
deadlock checking is therefore off in every run.

**Fairness.**  The safety properties assume none.  In `services`: callers repeat
a request until it is answered, a handler takes its next step, and Valkey expires
keys; the plan catalogue answers or the client's timeout ends the read, and time
passes; an exporter's ticker goes on and `goSafeRestart` runs it again after a
panic; `run` goes on and time passes while a pod stops, but no request need ever
end; `TenantPurger`'s ticker goes on.  Nothing is assumed of which of two replicas
wins, of the delivery of events, or of tenants and authors.  Failures may strike
at any step and end because each part bounds them: a store that fails for ever
purges nothing, and the code does not promise that it does.

**Mutants.**  Each property comes with a mutation of the model, in the way of a
plausible bug in the code, that breaks it (`PROJECT.json`, "mutants"): a WHERE
clause without the token, a plain DEL for the lock, a skipped second look at the
store, a panicked exporter that is not restarted, an empty batch taken for the
last, a department that goes on where a boundary lands, the innermost binding
taken for the outermost, and so on.

## 4. Proofs

TLAPS checks every obligation of eight modules.  Nothing is assumed but what the
modules assume of their constants, each by a name, and TLC evaluates for the
constants of its runs:

| assumption | what it says, and why the code has it |
|---|---|
| `NoneIsNoValue`, `AssigneesAreUsers`, `LimitIsCount`, `VersionsFinite`, `BoundsAreNat` (lifecycle) | NULL is no id; assignees are users; the limit is a number; finitely many ids are used |
| `PeriodsArePositive`, `RetentionBounds` (`TenantRetention`), `PlanBounds` (`PlanLimits`), `PeriodsAreNatural` (`ServerLifecycle`), `ViolationsBounded` (`RlsExport`) | periods and bounds are natural numbers |
| `RequestsFinite` (`Idempotency`) | one key is used by finitely many requests |
| `AuthorsWrite` (`ModuleCatalog`) | a document is a sequence of calls; there is a module |
| `LettersAreDocuments` (`MessageNames`) | lists are lists, and no id occurs twice in a document, as XML has it; the checks refuse a repetition within one process only (section 6) |
| `BundlesAreBundles` (`CallGraph`) | a document is a list of processes with the fields the parser gives; a bundled process has an id no other has, its plan's name with a version in it (`bundle.go:37`); the limit is a number |
| `FlowsAreGraphs` (`JoinIndex`) | flow graphs are finite, their nodes are numbers, and a flow leads to a node; the empty id is none |
| `FilesAreFiles` (`ModuleBundle`) | what the parser gives; a published module is a file of one process (`bundle.go:37` refuses another); names made of `@v` and `/` are new, because XML ids have neither |

**`LifecycleProofs`**, for any sets of workflows, versions, documents, users and
clients, any limit and any number of revocations: `Inductive` (`[]IInv`), from
which `TypeCorrect`, `ActivePointerSound`, `PublishedPlanSound`,
`PublishedImmutable`, `NumberedWithoutGaps`, `NoWorkLostInDraft`,
`UnforcedPublishKeepsShape`, `LocksFreedByHolder` and `QuotaPassedOnlyByInit`
follow; and `RevocationInductive` (`[]RevocationInv`, beside `IInv`), from which
`RevokedUsersAreReached`, `LateEventsSpareNew` and `StaleEntriesAreOwed` do.

The heart is `PlanIsOfOwnSource`: a publish writes a plan made from a document
it read earlier, so nothing in the tables alone makes it inductive.
`CompiledIsCurrent` is the missing part: while a request is between preflight
and commit, the draft either has another `record_version` than the request
holds, or still the document the request compiled.  It is inductive because a
document never changes without its `record_version` growing, and the request's
is never ahead of the row's.  `FetchedIsCurrent` says the same of a save and of
the document its client fetched, and is why the token alone, without the lock,
loses no save within a draft; the lock's token makes `LockFreedByHolder`.
`ComparedIsKept` keeps what a preflight compared: the version that was active has
been published, so its structure stays; a publish that still finds it active
therefore keeps the structure, and one that does not is what the property
excepts.  `VersionsNumbered` is inductive by counting: the numbered versions of a
workflow are as many as the highest number, a publish takes the next one, and
nothing deletes or renumbers a published row.  `RowsComplete` and
`RequestComplete` say that what the next step of a request uses is there.  The
proof never opens the 33 actions against the whole invariant: `TableSteps` shows
that each step does to the tables one of a handful of things (nothing, insert,
save, publish, point, archive, delete, invalidate), and `RequestSteps` that each
moves at most one request, to a sound record; every conjunct is preserved by
those few kinds of change.

Revocations need to know who is still to act.  `RevocationReachesVersions` alone
is not inductive: an event that is pending may have been delivered once already
and be past the version.  `RevocationsReach` asks for more, a pending event in
*every* delivery of which the version is still to come (`StillReaches`); a
delivery acknowledges its event only when its list is empty, and a redelivery
starts with all versions again.  A publish between check and commit is the one
way round it, and `unseen` records whom it missed.  `EntriesOwed` is the like for
the cache, where a delivery that failed to evict does not acknowledge and is
delivered again (`StillEvicts`).

**`RetentionProofs`**, for any number of replicas, rows, secrets and events, any
periods, batch size and number of failures: `RetentionInductive`,
`ReturnsOutlive`, `RowsDeletedWhenDue`, `PurgeInductive` (`[]PurgeInv`) and
`MarkedIsEmpty`.

`RowsGoOnlyWhenDue` speaks of the row at the moment of a commit, the sweep only
of a version it read earlier.  `SweepCurrent` joins the two: the version a sweep
carries is never ahead of the row's; while both are equal, the part that was due
is due still; and a sweep with an open batch is at the row's version, and the row
is not returned.  It is inductive because every write of the row moves its
version, and none happens while a batch is open.  `ReturnOutlivesOffboarding`
needs `ReturnsAreCovered` and `ReturnIsNewer`.  `MarkedIsEmpty` adds
`SweepEmptied`: while the row has the sweep's version, the secrets the sweep has
no more to delete are gone, and so are the rows when it is about to mark them.
Another replica may delete beside it, but only the tenant creates, and a tenant
that creates has come back, which `OffboardingWasSent` orders after the recorded
offboarding.

**`IdempotencyProofs`**, for any finite number of requests and any faults:
`KeyInvariant` and `PromiseKept`, the refinement: `IdempotencySpec => OnceSpec`
with `credit` read as `faults`.  `Apply` has the guard that the effects so far do
not exceed the credit, and the argument counts runs.  A request on its way to the
handler without the marker is *loose*, and was let loose by one fault; the holder
of the marker needs none while the key is open.  `Budget` (effects, loose
requests, and the one run an open key grants, are at most one more than the
faults) is inductive, and is the guard of the commit.

**`CatalogProofs`**, for any users, modules, versions and documents:
`CatalogInvariant`, `NamesStayUnique`, `NewestStaysActive`; `CallsInvariant`
(`[]CallsInv`), `PublishedStaysAcyclic`, `SnapshotsKeepResolving`.  `TableSteps`
again reduces the actions to a few changes of the tables.  The largest number of
a module exists because the numbers are bounded (`MaxIsLargest`, by well-founded
induction's least element), and a publish takes one more.  What a walk found
keeps its sense while others publish and archive, because a row never goes, its
document and its number never change once it has one, and a number names one row
of a module (`NumbersInv`): so what was acyclic when it was checked still is at
the commit and ever after, and among the versions a snapshot holds under one key
the highest is there to be picked.

**`PodProofs`**: of the stop, for any four periods and any requests, `PodInvariant`,
`NobodyRefused`, `CutAfterGrace` (a request is cut only after drain delay, grace
and pool drain), where `Timely` adds what is left of a wait to what has passed
since the pod turned unready; and of the exporters, for any replicas, violations
and panics, `NoneCountedTwice`: what was counted is at or below `lastID` while the
exporter runs, and a restart takes the newest row there is, so a row it lies below
was pruned.

`PodProofs` has those of the plan limits too, for any callers, reads and failures:
`TableInvariant` and `NeverBack`: one read at a time, and what it was answered is
no older than the table in hand, so no late answer replaces a newer table; and
`KnownPlansAreServed`.  `KnownInv` says what an answer covers: a sample lists
every plan older than its read, so the table in hand every plan older than the
table by more than a read takes (`CatalogCovered`), and a caller that nothing
excuses waits for an answer that lists its plan (`CallersInv`).

**`DocumentProofs`**, for any documents and libraries: `NoWaitIsLeftUnsaid` and
`BundleKeepsMeaning`.  Here the steps only store what operators give, and the
argument is about those.  A name comes from the first place that has one, and
where it is absent none has (`FirstGivenIsGiven`), which is what the warnings
look at too.  The keys a document leads to are the least set closed under the
calls of the versions they name (`UsedCallsAreKeys`), so the process a bundled
call is pointed at is in the bundle (`BundleHolds`); a call that is not refused
either is local and stays, or names a version (`CallsLeadSomewhere`); and no two
declarations meet under one name, because names made of a plan name are new.

**`CallGraphProofs`**, for any bundles, of any size, and any limit: `WalksKeep`
(`[]CallGraphInv`), `AcceptedFit`, `IssuesReach`, `CompiledChecked`.  The
properties speak of all the ways calls lead; the code sees each process once and
keeps a few maps.  `CallGraphInv` says what the maps mean half way:

- `GraphInv`.  A size is worth something only where no cycle was found, and then
  the processes that are done call only done ones and have no cycle, so no way of
  theirs is as long as they are many (`WaysGrow`).  `Expansion` of a done process
  has as many members as its size says, unless the size is above the limit; a
  frame of the stack has counted the part of its expansion before the call it
  stands at (`ExpandedTo`), and a call adds disjointly the call itself and a copy
  of the expansion of what it calls.  Cutting off at the limit is harmless because
  a size above it stays above it.
- `BodiesInv`.  What was queued or visited is led to; of what has left the queue
  every call is noted as a caller of its target, and of the head the calls before
  the one in hand.  With an empty queue the visited set is closed, so it is the
  least closed set, and the callers are the edges of it turned around.
- `RoutesInv`.  The memo is exact.  A search on the stack has found what is led to
  around the searches below it (`RoutesTo(id, V)`, back over bundled callers
  outside `V`), and everything when it is complete: a search cut short by a cycle
  is one that is still on the stack, and the search that was cut from will find the
  rest.  The bottom one has nothing below it, which is why what it returns is exact
  even when it is incomplete, and why only complete results may be remembered.
- `CompileInv`.  Once accepted there is no cycle and every call names a process
  with a start event, so the compilation goes where the queue went: what is claimed
  is reached, each claimed process is on the stack or put, and put only when what
  it calls is.  The main plan's name is no called id, by `validatePlanNameClash`.

**`JoinProofs`**, for any flow graphs, of any size, and any order of their flows:
`IndexKeeps` (`[]IndexInv`) and `JoinsArePostDominators`.  The property speaks of
all the paths from a node to a leaf; the code keeps one parent of each node, and
climbs.  `OnEveryPath` is a set, so what it is of a node follows from what it is of
the targets of its flows (`PathsSplit`): the nodes on every path from each of them.
`IndexInv` has two halves:

- The walk (`WalkSound`, `TrailSound`).  A finished node has as successors the
  targets of its forward flows, finished before it, unless it is marked cyclic, and
  unmarked it leads to no marked one.  What is marked circles, because a flow is
  cut only where it leads back into the trail, and every node of the trail leads to
  the later ones.  Once all are finished the rest circles nowhere: its flows only
  go down in the order (`NoCycleLeft`).
- The tree (`TreeSound`, `MeetSound`).  The ancestors of a placed node are exactly
  the nodes on every path from it, each less deep than those it is an ancestor of.  Of
  two nodes not yet equal the deeper one is no ancestor of the other, so it is not
  among what the two have in common and `Climb` may leave it (`DeeperGoesUp`); when
  the two are equal they are the first of what all successors read so far share
  (`MeetIsFirst`).

`CutOnlyAfterGrace`, `CountedOnce` and `TableNeverGoesBack` are properties only
of these proofs; no run lists them.

Only model-checked: liveness (`CallersAreAnswered`, `TableCatchesUp`,
`EventuallyCounted`, `PodStops`, `DepartedIsPurged`), out of the prover's reach
under fairness; that the joins `FlowGraph` finds are those of the steps
(`CompilerAsksThisIndex`); and `PlanRunsTheDiagram`,
`BoundaryLandsOnItsTask`, `RevertNamesItsCopy`, `UnforcedKeepsTheRoutes`,
`ContractIsKept` and `ContractIsEnough`, which speak of what recursive walks over
a graph, a plan or nested texts compute: that is an induction over data, and their
operators are RECURSIVE.  `CallGraphProofs` and `JoinProofs` show what it takes to
prove such a walk: its recursion becomes a stack and its steps actions.

## 5. Not modelled

`PROJECT.json` lists every component.  The map covers about three tenths of the
Go source; the rest is mostly translation: `asyncapi.go`, the handlers' binding
and status codes, identity headers, errors and their texts, configuration,
start-up wiring, clients, metrics and logging, and the DTOs.  Left out by choice:

- reads that change nothing (lists, export, node reads, usages); starters and
  connectors, whose operations are single statements on rows nothing else depends
  on; `ValidationService`, which is a call of the checks modelled here;
- row-level security keeps tenants apart, so each model has one tenant (the
  catalogue has a tenant and the global scope);
- of the library: updates and deletes of a module version's draft (nothing
  resolves a draft), slugs;
- of the compiler: parsing of XML; the rules about the text of an attribute
  (names, dates, durations, conditions, users, departments); the order and the
  wording of issues.  A document is a graph, and two parallel branches are read
  one after the other, in diagrams and in plans alike, because a plan lists them
  so;
- of retention: the limit of 100 tenants in one run of the sweep and their order,
  an event without a time, a sweep without a secrets store, and the plan cache of
  a purged tenant, which expires by itself;
- requests without an idempotency key, an identity or a readable body run
  unprotected and are no part of `Idempotency`.

## 6. Where the documentation says otherwise

Lines are of `docs/lld/definition_service.md` unless another file is named.
Each of these has a run that shows it:

- `savelost`: `record_version` starts again at 1 with every draft.  Client B
  fetches the draft; client A saves and publishes it and begins the next; B's
  save, with its old token, is accepted on the new draft as soon as that has the
  same `record_version`.  `:1318` has such a save refused, and `:1319` calls the
  token "a monotonic BIGINT counter".  Within one draft no save is lost
  (`NoSaveLostInDraft`).
- `quotaholds`: Init checks outside its insert that the workflow has an active
  version and does not count.  An archive in between frees the slot, another
  workflow takes it, and the draft exceeds the limit.  `:1227` says the count
  prevents parallel bypasses.  Everything else respects the limit
  (`OnlyInitPassesQuota`).
- `secretlost`: the check before a credential delete holds nothing while OpenBao
  is called, so a return recorded between the two does not stop the delete, and
  the tenant that is back loses the credential.  `:3857` says a return recorded
  before a delete "stops the purge there"; it does before a batch
  (`RowsGoOnlyWhenDue`).
- `offboardinglost`: a tenant leaves at 1, returns at 2 and leaves again at 3,
  and the last event is delivered before the return.  With no return on record
  it changes nothing; the return, newer than the recorded offboarding at 1, then
  marks the row returned.  All three events are acknowledged, and the departed
  tenant is never due.  `:3855` says an offboarding event records the tenant,
  and `test/integration/postgres/tenant_purge_test.go:208` has a return older
  than the offboarding without effect.
- `droppedwork`: whether a boundary's path is compiled is decided by the first
  task on it.  A path that branches, first back to a compiled task and then to
  one that only it reaches, is skipped, and that task is in no department.
  `:2920` says each path not yet compiled is compiled, and
  `docs/bpmn-designer-guide.md:221` that the validator refuses a diagram the
  compiler would turn into something else.
- `zerocancel`: on a sub-process or a call, `cancelActivity="0"` passes the checks
  and compiles as interrupting; on a task it does not interrupt.  `:1507` says
  "`1` and `0` mean the same as `true` and `false`".

Met while modelling, and described here only:

- `draft_service.go:224`: a save with only a name or a description writes the
  workflow row unguarded; the guarded UPDATE of the draft changes nothing, so
  `record_version` does not move, and the second of two renames with one token
  replaces the first.  `:828` promises 409.
- `idempotency.go:165`: an operation may run twice under one key after a stopped
  replica or a lost store, though `:1062` says once; the credit of `OncePerKey`
  is exact about it.
- `workflow_service.go:159`: the Execution Service is asked before the archive's
  transaction, so an instance that starts meanwhile runs on an archived version.
- `module_service.go:368`: two modules published at once may each call the
  other's latest version, against `:1995`; a workflow that calls them is refused
  (`PublishedIsAcyclic`).
- `plan_limit_service.go`: a plan may be refused as unknown when another request
  replaces the table between the lookup in it and the check of its age, against
  `:3446` (`excused` in `KnownPlanIsServed`).
- `traverse.go:287`, `loops.go:75`: a revert to a node no task lies ahead of names
  none, against `docs/bpmn-designer-guide.md:227`.
- `version_diff.go`: stages that are added to, removed from or moved within
  departments whose steps stay the same are no difference: deleting one of two
  adjacent tasks, or moving a task to the neighbouring department, is
  METADATA_ONLY, against `:1341`; and METADATA_ONLY is not transitive.
- `modules.go:31`: the calls of an ignored pool are bundled, though `:2174` says
  they are never made.  When every pool of the author's is ignored, a bundled module
  may so be the one process that runs.  The issues of the bodies it calls then have
  no call of the author's to be reported on (`call_graph.go:139`), are dropped, and
  the bundle compiles as if there were none.  `CompiledWereChecked` excludes this
  case (`~Library(bundle, RootId)`); the bundles `IgnoredAuthor` have it.
- `bundle.go`: message flows of a bundled module are dropped, or taken for the
  caller's, against `:2193`: only messages and errors are copied.
- `module_contract.go`: the contract lists a slot that only a call of the module
  maps to, and that no caller can bind, against `:2029` (`Bindable`); and a task
  in an ignored lane is accepted as a key of the assignees.
- `collab.go:36`: a receive or send task that refers to no declared message gets
  no warning, and the receive waits for its own id; a message flow that does is
  an error, not a warning (`:1538`).
- `compile.go:298`: only the first message flow into a node names it, where
  `:2215` says any; ids are unique in a process only.
- `workflow_module_version.sql:59`: the comment on the order in which a process id
  is resolved says "Only a race between two creates gives a tenant module a global
  module's process id", and `test/integration/postgres/module_library_repo_test.go:246`
  that the two "can share a process id only through a race between two creates".
  No such race does: `module_service.go:144` looks for the id and inserts in one
  serializable transaction, for a global module as for a tenant's, so of two creates
  at once one is refused.  `:1992` says so, and `:5010` dates the change the two
  comments were left behind by.  `OneModulePerName` passes, and `NamesStayUnique`
  proves it, against these comments; the order they explain decides nothing among
  modules that were created by this code.
- `rls_violation_exporter.go:47`: the exporter moves `lastID` to the newest id it
  saw, and ids are drawn before their transactions commit; a row that commits
  after a newer one was counted is never counted by that replica, though `:4040`
  says the service "adds the new rows" to the counter and excepts only those
  present at startup.  `EventuallyCounted` excludes these rows (`missed`): it is
  about panics, restarts and prunes.
- `app.go:85`: telemetry is shut down after the pools, where `:426` says before.

## 7. What is left

1. Proofs about the compiler's other walks in the way of `CallGraph` and
   `JoinIndex`: the departments a traversal opens, then the nesting of bindings,
   as steps over a stack.
2. Liveness of the lifecycle: a redelivered revocation is finally handled.
3. A composition of `ModuleCatalog` and the publish of `WorkflowLifecycle` in one
   state, with the transaction that holds `module_refs`.
4. Conditions and their text, timers and dates, as far as the compiler reads
   them; larger families of diagrams with nested sub-processes.
