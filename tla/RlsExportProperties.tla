------------------------- MODULE RlsExportProperties -------------------------
(***************************************************************************)
(* What the exported violation counter may be relied on for.               *)
(***************************************************************************)
EXTENDS RlsExport

(* A replica counts a violation once at most, over restarts of its exporter, *)
(* prunes and commits out of order (RLSViolationExporter.Tick).              *)
CountedOnce == \A r \in Replicas, id \in Ids : counted[r][id] <= 1

(* Every violation that is committed is counted by every replica in the end, *)
(* save those its exporter passed over: committed before a start of it or    *)
(* after a newer id was counted, or pruned first; of these it says nothing,  *)
(* and a row that commits late is lost to the count.  What it is about is    *)
(* that no panic, restart or prune stops the count of the others for good    *)
(* (RLSViolationExporter.Run, goSafeRestart).                                *)
EventuallyCounted ==
    <>[](\A r \in Replicas : \A id \in Committed : counted[r][id] >= 1 \/ id \in missed[r])

=============================================================================
