--------------------------- MODULE ServerLifecycle ---------------------------
(***************************************************************************)
(* One pod from its start to its end (cmd/server/app.go, recover.go): the  *)
(* steps of run and stopServers in their order, the requests the load      *)
(* balancer sends, and what a stop does to those in flight.  Periods are   *)
(* counted in ticks.                                                       *)
(***************************************************************************)
EXTENDS Naturals

CONSTANTS
    Arrivals,       \* requests to the pod
    DrainDelay,     \* SHUTDOWN_DRAIN_DELAY
    Grace,          \* SHUTDOWN_GRACE
    PoolDrain,      \* SHUTDOWN_POOL_DRAIN_TIMEOUT
    LbLag           \* how long a load balancer still sends to a pod not ready

Periods == DrainDelay \in Nat /\ Grace \in Nat /\ PoolDrain \in Nat /\ LbLag \in Nat
ASSUME PeriodsAreNatural == Periods

VARIABLES
    phase,          \* where run is
    failed,         \* a listener failed: waitForStop's second result
    left,           \* ticks left of the wait the phase is in
    unready,        \* readyz answers 503 (BeginDrain)
    since,          \* ticks since then
    req,            \* each request
    cut             \* history: requests that lost the pool while they ran

podVars == <<phase, failed, left, unready, since, req, cut>>

(* The phases in order, with the bound on the wait in each. *)
Phases == <<"serve", "drain", "shutdown", "pool", "systempool", "close", "stopped">>
Bound(p) ==
    CASE p = "drain" -> DrainDelay
      [] p = "shutdown" -> Grace
      [] p \in {"pool", "systempool"} -> PoolDrain
      [] OTHER -> 0
StopTime == DrainDelay + Grace + 2 * PoolDrain + LbLag
Before(p) == {Phases[i] : i \in 1 .. (CHOOSE n \in 1 .. 7 : Phases[n] = p) - 1}
Listening == phase \in {"serve", "drain"} /\ ~failed
PoolOpen == phase \in Before("systempool")

PodTypeOK ==
    /\ phase \in {Phases[i] : i \in 1 .. 7}
    /\ failed \in BOOLEAN
    /\ left \in 0 .. StopTime
    /\ unready \in BOOLEAN /\ since \in 0 .. StopTime
    /\ req \in [Arrivals -> {"unsent", "running", "done", "refused", "failed"}]
    /\ cut \in SUBSET Arrivals

PodInit ==
    /\ phase = "serve" /\ failed = FALSE /\ left = 0 /\ unready = FALSE /\ since = 0
    /\ req = [r \in Arrivals |-> "unsent"] /\ cut = {}

Running == {r \in Arrivals : req[r] = "running"}
Enter(p) == phase' = p /\ left' = Bound(p)
Same == UNCHANGED <<req, cut>>

-----------------------------------------------------------------------------
(* The load balancer sends a request while it believes the pod is ready.     *)
Arrive(r) ==
    /\ req[r] = "unsent" /\ since <= LbLag
    /\ req' = [req EXCEPT ![r] = IF Listening THEN "running" ELSE "refused"]
    /\ UNCHANGED <<phase, failed, left, unready, since, cut>>

(* A handler ends; without a pool it ends in failure. *)
Finish(r) ==
    /\ req[r] = "running"
    /\ req' = [req EXCEPT ![r] = IF PoolOpen THEN "done" ELSE "failed"]
    /\ UNCHANGED <<phase, failed, left, unready, since, cut>>

(* waitForStop: a signal, after which readyz answers 503 for the drain delay *)
(* while the pod still serves ...                                            *)
DrainSkipped ==
    /\ phase = "serve"
    /\ Enter("shutdown") /\ unready' = TRUE
    /\ Same /\ UNCHANGED <<failed, since>>
Signal ==
    /\ phase = "serve"
    /\ Enter("drain") /\ unready' = TRUE
    /\ Same /\ UNCHANGED <<failed, since>>

(* ... or a listener that failed: no delay. *)
ListenerFails ==
    /\ phase = "serve"
    /\ Enter("shutdown") /\ unready' = TRUE /\ failed' = TRUE
    /\ Same /\ UNCHANGED since

DelayOver ==
    /\ phase = "drain" /\ left = 0
    /\ Enter("shutdown")
    /\ Same /\ UNCHANGED <<failed, unready, since>>

(* httpServer.Shutdown: returns once no request runs, or at the end of the   *)
(* grace.  A pool then waits for the requests that still run, and no longer  *)
(* than its own timeout (drainWithTimeout): closing it cuts them off.        *)
ShutdownReturns ==
    /\ phase = "shutdown" /\ (Running = {} \/ left = 0)
    /\ Enter("pool")
    /\ Same /\ UNCHANGED <<failed, unready, since>>

DrainForever ==
    /\ phase = "pool" /\ Running = {}
    /\ Enter("systempool") /\ Same /\ UNCHANGED <<failed, unready, since>>
DrainPool ==
    /\ phase = "pool" /\ (Running = {} \/ left = 0)
    /\ Enter("systempool")
    /\ cut' = cut \cup Running
    /\ UNCHANGED <<failed, unready, since, req>>

(* The system pool: global writes and the exporter hold it; either the pool  *)
(* is drained or its timeout is over.  Then the cache and the telemetry.     *)
DrainSystemPool ==
    /\ phase = "systempool"
    /\ Enter("close")
    /\ Same /\ UNCHANGED <<failed, unready, since>>

Close ==
    /\ phase = "close"
    /\ Enter("stopped")
    /\ Same /\ UNCHANGED <<failed, unready, since>>

(* A tick, while a wait or the load balancer's lag still counts. *)
PodTick ==
    /\ unready /\ (left > 0 \/ since < StopTime)
    /\ left' = IF left > 0 THEN left - 1 ELSE 0
    /\ since' = IF since < StopTime THEN since + 1 ELSE since
    /\ UNCHANGED <<phase, failed, unready, req, cut>>

-----------------------------------------------------------------------------
StopStep == DelayOver \/ ShutdownReturns \/ DrainPool \/ DrainSystemPool \/ Close

PodNext ==
    \/ \E r \in Arrivals : Arrive(r) \/ Finish(r)
    \/ Signal \/ ListenerFails \/ StopStep \/ PodTick

PodSpec == PodInit /\ [][PodNext]_podVars

(* run goes on and time passes; a handler need not end. *)
PodFairness == WF_podVars(StopStep) /\ WF_podVars(PodTick)

=============================================================================
