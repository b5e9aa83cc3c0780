-------------------------- MODULE ServerProperties --------------------------
(***************************************************************************)
(* What a pod owes the requests in flight when it is told to stop.         *)
(***************************************************************************)
EXTENDS ServerLifecycle

(* A request that still runs loses the database only after the whole drain   *)
(* delay, grace and pool drain it was promised (stopServers): the pool is    *)
(* never closed before the listener has been given its time.                 *)
CutOnlyAfterGrace ==
    [][cut' # cut => since >= (IF failed THEN 0 ELSE DrainDelay) + Grace + PoolDrain]_podVars

(* A load balancer that drops the pod within the drain delay has no request  *)
(* of it refused, unless a listener failed (BeginDrain before Shutdown,      *)
(* run).                                                                     *)
NoneRefused ==
    LbLag < DrainDelay => \A r \in Arrivals : req[r] = "refused" => failed

(* A pod told to stop stops, whatever its requests do (drainWithTimeout).    *)
PodStops == <>[](unready => phase = "stopped")

=============================================================================
