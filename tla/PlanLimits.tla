----------------------------- MODULE PlanLimits -----------------------------
(***************************************************************************)
(* PlanLimitService (service/plan_limit_service.go) on one replica: the    *)
(* plan table it holds, the one read in flight, and the requests that ask  *)
(* for the limit of their plan.  Each of a request's critical sections is  *)
(* a step; the catalog gains plans 1, 2, ... and a table is the number of  *)
(* plans it lists.  Clocks are ages and countdowns, in ticks.              *)
(***************************************************************************)
EXTENDS Naturals, FiniteSets

CONSTANTS
    Callers,        \* requests that need a limit
    Reads,          \* names of reads; a settled read's name is free again
    MaxPlans,       \* bound: plans the catalog comes to list
    Ttl,            \* PLAN_TABLE_TTL
    RetryBackoff,   \* planTableRetryBackoff
    ReadTimeout,    \* CATALOG_CLIENT_TIMEOUT
    MaxReadErrors   \* bound: reads that fail

ASSUME PlanBounds ==
    /\ MaxPlans \in Nat \ {0} /\ RetryBackoff \in Nat \ {0}
    /\ Ttl \in Nat /\ ReadTimeout \in Nat

VARIABLES
    plans,          \* plans the catalog lists
    planAge,        \* ticks since each plan was added
    table,          \* s.table: 0 while nil
    tableAge,       \* ticks since fetchedAt
    retryIn,        \* ticks until retryAt
    inflight,       \* s.inflight: {} while nil
    read,           \* each read's goroutine
    caller,         \* each request
    readErrors      \* reads that failed so far

planVars == <<plans, planAge, table, tableAge, retryIn, inflight, read, caller, readErrors>>
held == <<table, tableAge, retryIn>>
catalog == <<plans, planAge>>

(* Ages above the longest that is told apart are alike. *)
Longest(a, b) == IF a > b THEN a ELSE b
Known == RetryBackoff + ReadTimeout
OldestAge == Longest(Ttl, RetryBackoff)
Older(age, most) == IF age < most THEN age + 1 ELSE age

IdleRead == [active |-> FALSE, sample |-> 0, age |-> 0]
IdleCaller == [at |-> "idle", plan |-> 1, on |-> {}, forced |-> FALSE,
               asked |-> Known, excused |-> FALSE]

PlanLimitsTypeOK ==
    /\ plans \in 1 .. MaxPlans /\ planAge \in [1 .. MaxPlans -> 0 .. Known]
    /\ table \in 0 .. MaxPlans /\ tableAge \in 0 .. OldestAge /\ retryIn \in 0 .. RetryBackoff
    /\ inflight \in SUBSET Reads /\ Cardinality(inflight) <= 1
    /\ read \in [Reads -> [active: BOOLEAN, sample: 0 .. MaxPlans, age: 0 .. ReadTimeout]]
    /\ caller \in [Callers ->
          [at: {"idle", "table", "wait", "woken", "check", "unknown"},
           plan: 1 .. MaxPlans, on: SUBSET Reads, forced: BOOLEAN,
           asked: 0 .. Known, excused: BOOLEAN]]
    /\ readErrors \in 0 .. MaxReadErrors

PlanLimitsInit ==
    /\ plans = 1 /\ planAge = [p \in 1 .. MaxPlans |-> IF p = 1 THEN Known ELSE 0]
    /\ table = 0 /\ tableAge = OldestAge /\ retryIn = 0
    /\ inflight = {} /\ read = [r \in Reads |-> IdleRead]
    /\ caller = [c \in Callers |-> IdleCaller]
    /\ readErrors = 0

-----------------------------------------------------------------------------
(* A request for a plan the catalog lists arrives (WorkflowTemplateLimit).   *)
(* asked and excused are history: the plan's age then, and whether a read    *)
(* failed of late or the table was replaced under the request.               *)
Ask(c) ==
    /\ caller[c].at \in {"idle", "unknown"}
    /\ \E p \in 1 .. plans :
          caller' = [caller EXCEPT ![c] = [IdleCaller EXCEPT !.at = "table", !.plan = p,
                                           !.asked = planAge[p], !.excused = retryIn > 0]]
    /\ UNCHANGED <<catalog, held, inflight, read, readErrors>>

(* The caller looks its plan up in the table it is given.  It is answered    *)
(* if the plan is there, or if there is no table (UPSTREAM_UNAVAILABLE), and *)
(* idle again; a table that was read for it is not checked for its age.      *)
Answer(c, t) ==
    caller' = [caller EXCEPT ![c] =
                 IF t = 0 \/ caller[c].plan <= t THEN IdleCaller
                 ELSE [@ EXCEPT !.at = IF caller[c].forced THEN "unknown" ELSE "check",
                                !.on = {}]]

(* startReadLocked: the read in flight, or a new one. *)
FreeName(r) == r = CHOOSE free \in Reads : ~read[free].active
StartRead(r) ==
    \/ inflight = {r} /\ UNCHANGED <<inflight, read>>
    \/ /\ inflight = {} /\ ~read[r].active /\ FreeName(r)
       /\ read' = [read EXCEPT ![r] = [IdleRead EXCEPT !.active = TRUE]]
       /\ inflight' = {r}

Fresh == table > 0 /\ tableAge < Ttl

(* currentTable, up to its unlock.  A held table answers at once, a stale    *)
(* one while its refresh starts; a caller without one waits for the read.    *)
CurrentTable(c) ==
    /\ caller[c].at = "table"
    /\ \/ /\ Fresh /\ ~caller[c].forced
          /\ Answer(c, table) /\ UNCHANGED <<inflight, read>>
       \/ /\ ~(Fresh /\ ~caller[c].forced) /\ retryIn > 0
          /\ Answer(c, table) /\ UNCHANGED <<inflight, read>>
       \/ /\ ~(Fresh /\ ~caller[c].forced) /\ retryIn = 0
          /\ \E r \in Reads :
                /\ StartRead(r)
                /\ IF table > 0 /\ ~caller[c].forced
                   THEN Answer(c, table)
                   ELSE caller' = [caller EXCEPT ![c].at = "wait", ![c].on = {r}]
    /\ UNCHANGED <<catalog, held, readErrors>>

(* awaitRead: the read is done, and the table held by now is taken ...       *)
TakeTable(c) ==
    /\ caller[c].at = "woken" /\ Answer(c, table)
    /\ UNCHANGED <<catalog, held, inflight, read, readErrors>>

(* ... or the request's context is.                                          *)
GiveUp(c) ==
    /\ caller[c].at \in {"wait", "woken"}
    /\ caller' = [caller EXCEPT ![c] = IdleCaller]
    /\ UNCHANGED <<catalog, held, inflight, read, readErrors>>

(* The plan is not in the table in hand: a table that has been held a while  *)
(* is read again (the age is that of the table held now).                    *)
NeverForced(c) ==
    /\ caller[c].at = "check"
    /\ caller' = [caller EXCEPT ![c].at = "unknown"]
    /\ UNCHANGED <<catalog, held, inflight, read, readErrors>>
CheckAge(c) ==
    /\ caller[c].at = "check"
    /\ caller' = [caller EXCEPT ![c].at = IF tableAge >= RetryBackoff THEN "table" ELSE "unknown",
                                ![c].forced = tableAge >= RetryBackoff]
    /\ UNCHANGED <<catalog, held, inflight, read, readErrors>>

-----------------------------------------------------------------------------
(* The catalog answers the read with the plans of some moment of it          *)
(* (ReadPlanTable).                                                          *)
Sample(r) ==
    /\ read[r].active /\ read[r].sample = 0
    /\ read' = [read EXCEPT ![r].sample = plans]
    /\ UNCHANGED <<catalog, held, inflight, caller, readErrors>>

(* settleRead.  A read that failed, timed out or panicked keeps the table.   *)
(* Everyone who waits for the read is woken.                                 *)
Woken(r, excused) ==
    [c \in Callers |->
        [caller[c] EXCEPT !.at = IF r \in caller[c].on THEN "woken" ELSE @,
                          !.excused = @ \/ c \in excused]]
Overtaken == {c \in Callers : caller[c].at = "check"}
StillInflight(r) == {r}
Settled(r) == inflight \ {r}
Settle(r) ==
    /\ read[r].active
    /\ inflight' = Settled(r)
    /\ read' = [read EXCEPT ![r] = IdleRead]
    /\ \/ /\ read[r].sample > 0
          /\ table' = read[r].sample /\ tableAge' = 0 /\ retryIn' = 0
          /\ caller' = Woken(r, Overtaken)
          /\ UNCHANGED readErrors
       \/ /\ readErrors < MaxReadErrors /\ readErrors' = readErrors + 1
          /\ retryIn' = RetryBackoff
          /\ caller' = Woken(r, Callers)
          /\ UNCHANGED <<table, tableAge>>
    /\ UNCHANGED catalog

(* The catalog gains a plan (external). *)
AddPlan ==
    /\ plans < MaxPlans /\ plans' = plans + 1
    /\ UNCHANGED <<planAge, held, inflight, read, caller, readErrors>>

(* A tick of every clock; a read does not outlive its timeout. *)
Tick ==
    /\ \A r \in Reads : read[r].active => read[r].age < ReadTimeout
    /\ planAge' = [p \in 1 .. MaxPlans |-> IF p <= plans THEN Older(planAge[p], Known) ELSE 0]
    /\ tableAge' = Older(tableAge, OldestAge)
    /\ retryIn' = IF retryIn > 0 THEN retryIn - 1 ELSE 0
    /\ read' = [r \in Reads |-> IF read[r].active THEN [read[r] EXCEPT !.age = @ + 1] ELSE read[r]]
    /\ UNCHANGED <<plans, table, inflight, caller, readErrors>>

-----------------------------------------------------------------------------
CallerStep(c) == CurrentTable(c) \/ TakeTable(c) \/ CheckAge(c)
ReadStep(r) == Sample(r) \/ Settle(r)

PlanLimitsNext ==
    \/ \E c \in Callers : Ask(c) \/ CallerStep(c) \/ GiveUp(c)
    \/ \E r \in Reads : ReadStep(r)
    \/ AddPlan \/ Tick

PlanLimitsSpec == PlanLimitsInit /\ [][PlanLimitsNext]_planVars

(* A request takes its steps, the catalog client answers or times out, time  *)
(* passes, and requests keep coming.                                         *)
PlanLimitsFairness ==
    /\ \A c \in Callers : WF_planVars(Ask(c)) /\ WF_planVars(CallerStep(c))
    /\ \A r \in Reads : WF_planVars(ReadStep(r))
    /\ WF_planVars(Tick)

=============================================================================
