------------------------ MODULE PlanLimitsProperties ------------------------
(***************************************************************************)
(* What the plan table of a replica owes the requests that need a limit.   *)
(***************************************************************************)
EXTENDS PlanLimits

(* Only one read runs at a time, so the answer of an earlier read never      *)
(* replaces that of a later one, and a plan once known stays known           *)
(* (startReadLocked, settleRead).                                            *)
TableNeverGoesBack == [][table' >= table]_planVars

(* A plan the catalog has listed for longer than the backoff and a read take *)
(* together is never refused as unknown, however stale the held table is;    *)
(* unless a read has failed, or another request's refresh replaced the table *)
(* between the lookup in it and the check of its age (WorkflowTemplateLimit).*)
KnownPlanIsServed ==
    \A c \in Callers :
        (caller[c].at = "unknown" /\ ~caller[c].excused)
            => caller[c].asked < Known

(* While requests come, the table catches up with the catalog for good: no   *)
(* failed, panicked or abandoned read stops the refresh (runRead,            *)
(* settleRead).                                                              *)
TableCatchesUp == <>[](plans = MaxPlans => table = MaxPlans)

=============================================================================
