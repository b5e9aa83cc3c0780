------------------------------ MODULE PodProofs ------------------------------
(***************************************************************************)
(* Proofs about the three parts of a pod that work beside its requests.    *)
(*                                                                         *)
(* Its exporter of RLS violations, for any number of replicas, violations  *)
(* and panics: no replica counts a violation twice.  What was counted is   *)
(* at or below the last id while the exporter runs; a restart moves the    *)
(* last id, but to the newest row there is, so a row it lies below was     *)
(* pruned.                                                                 *)
(*                                                                         *)
(* Its stop, for any number of requests and any four periods.  Timely      *)
(* counts the ticks: what is left of a wait and what has passed since the  *)
(* pod turned unready make up the waits promised so far, unless the        *)
(* shutdown returned early because no request ran any more, and then none  *)
(* can come.                                                               *)
(*                                                                         *)
(* The plan table it holds never goes back to an older one, for any number *)
(* of requests, reads, plans and failures and any periods: one read is in  *)
(* flight at a time, and what it has been answered is as new as the table  *)
(* in hand.                                                                *)
(***************************************************************************)
EXTENDS RlsExportProperties, ServerProperties, PlanLimitsProperties, FiniteSetsExt,
        WellFoundedInduction, TLAPS

Violations == MaxViolations \in Nat

ExporterState == [at: {"start", "wait", "prune", "panicked"}, lastID: Nat]

LogTyped ==
    /\ log \in [Ids -> {"none", "inserted", "committed", "gone"}]
    /\ exporter \in [Replicas -> ExporterState]
    /\ counted \in [Replicas -> [Ids -> Nat]]

Behind(r, id) ==
    \/ log[id] = "gone"
    \/ log[id] = "committed" /\ (exporter[r].at \in {"start", "panicked"} \/ id <= exporter[r].lastID)

CountedIsBehind == \A r \in Replicas, id \in Ids : counted[r][id] # 0 => Behind(r, id)

(* The ids the sequence has not drawn. *)
NextIsFresh ==
    nextId \in Nat \ {0} /\ \A id \in Ids : id >= nextId => log[id] = "none"

ExportInv == LogTyped /\ NextIsFresh /\ CountedIsBehind /\ CountedOnce

-----------------------------------------------------------------------------
(* A bounded set of numbers has a largest, and it is what Max gives (the     *)
(* SELECT max(...) of the repositories).                                     *)
LEMMA MaxIsLargest ==
  ASSUME NEW S, S \subseteq Nat, S # {}, NEW b \in Nat, \A s \in S : s <= b
  PROVE  Max(S) \in S /\ \A s \in S : s <= Max(S)
<1> DEFINE Room == {b - s : s \in S}
<1>1. Room \subseteq Nat /\ Room # {}
  <2>1. \A s \in S : b - s \in Nat
    OBVIOUS
  <2> QED
    BY <2>1
<1>2. PICK n \in Room : \A k \in Room : ~(<<k, n>> \in OpToRel(<, Nat))
  BY <1>1, WFMin, NatLessThanWellFounded
<1>3. PICK x \in S : n = b - x
  OBVIOUS
<1>4. \A y \in S : ~(b - y < b - x)
  BY <1>1, <1>2, <1>3 DEF OpToRel
<1>5. \A y \in S : x >= y
  BY <1>4
<1> QED
  BY <1>5 DEF Max

LEMMA ExporterFields ==
  ASSUME LogTyped, NEW r \in Replicas
  PROVE  /\ exporter[r] \in ExporterState /\ exporter[r].lastID \in Nat
         /\ exporter[r].at \in {"start", "wait", "prune", "panicked"}
         /\ counted[r] \in [Ids -> Nat]
  BY DEF LogTyped, ExporterState

LEMMA NewestIsLargest ==
  ASSUME Violations, NEW ids \in SUBSET Ids, NEW least \in Nat
  PROVE  Newest(ids, least) \in Nat /\ \A id \in ids : id <= Newest(ids, least)
<1> DEFINE all == ids \cup {least}
           b == MaxViolations + least
<1>1. all \subseteq Nat /\ all # {} /\ b \in Nat /\ \A n \in all : n <= b
  BY DEF Violations, Ids
<1> HIDE DEF all, b
<1>2. Max(all) \in all /\ \A n \in all : n <= Max(all)
  BY <1>1, MaxIsLargest
<1> QED
  BY <1>1, <1>2 DEF Newest, all

(* The log moves on, and no row that is committed is so no more but gone.    *)
LogMoves ==
    \A id \in Ids :
        \/ log'[id] = log[id]
        \/ log[id] \in {"none", "inserted"}
        \/ log'[id] = "gone"

LEMMA LogKeeps ==
  ASSUME ExportInv, LogMoves, UNCHANGED counted, NextIsFresh',
         log' \in [Ids -> {"none", "inserted", "committed", "gone"}],
         exporter' \in [Replicas -> ExporterState],
         \A r \in Replicas :
            \/ exporter'[r].at \in {"start", "panicked"}
            \/ /\ exporter[r].at \notin {"start", "panicked"}
               /\ exporter'[r].lastID = exporter[r].lastID
  PROVE  ExportInv'
<1>1. LogTyped'
  BY DEF ExportInv, LogTyped
<1>2. CountedOnce'
  BY DEF ExportInv, CountedOnce
<1>3. CountedIsBehind'
  <2> SUFFICES ASSUME NEW r \in Replicas, NEW id \in Ids, counted'[r][id] # 0
               PROVE  Behind(r, id)'
    BY DEF CountedIsBehind
  <2>1. Behind(r, id)
    BY DEF ExportInv, CountedIsBehind
  <2> QED
    BY <2>1 DEF Behind, LogMoves
<1> QED
  BY <1>1, <1>2, <1>3 DEF ExportInv

LEMMA StartKeeps ==
  ASSUME Violations, ExportInv, NEW r \in Replicas, Start(r)
  PROVE  ExportInv'
<1> DEFINE newest == Newest(Committed, 0)
<1>1. newest \in Nat /\ \A id \in Committed : id <= newest
  BY NewestIsLargest DEF Committed
<1> HIDE DEF newest
<1>2. /\ LogTyped /\ CountedIsBehind /\ CountedOnce
      /\ exporter' = [exporter EXCEPT ![r] = [at |-> "wait", lastID |-> newest]]
      /\ log' = log /\ counted' = counted /\ NextIsFresh /\ nextId' = nextId
  BY DEF ExportInv, Start, newest
<1>3. LogTyped' /\ CountedOnce'
  BY <1>1, <1>2 DEF LogTyped, ExporterState, CountedOnce
<1>4. exporter'[r].lastID = newest /\ \A q \in Replicas \ {r} : exporter'[q] = exporter[q]
  BY <1>2 DEF LogTyped
<1>5. CountedIsBehind'
  <2> SUFFICES ASSUME NEW q \in Replicas, NEW id \in Ids, counted'[q][id] # 0
               PROVE  Behind(q, id)'
    BY DEF CountedIsBehind
  <2>1. Behind(q, id)
    BY <1>2 DEF CountedIsBehind
  <2>2. log[id] = "committed" => id <= newest
    BY <1>1 DEF Committed
  <2> QED
    BY <1>2, <1>4, <2>1, <2>2 DEF Behind
<1> QED
  BY <1>2, <1>3, <1>5 DEF ExportInv, NextIsFresh

LEMMA CountKeeps ==
  ASSUME Violations, ExportInv, NEW r \in Replicas, Count(r)
  PROVE  ExportInv'
<1> DEFINE new == {id \in Ids : Counts(r, id)}
           newest == Newest(new, exporter[r].lastID)
           tally == [id \in Ids |-> IF id \in new THEN counted[r][id] + 1 ELSE counted[r][id]]
<1>1. /\ LogTyped /\ CountedIsBehind /\ CountedOnce /\ NextIsFresh
      /\ exporter[r].at = "wait" /\ exporter[r].lastID \in Nat
  BY ExporterFields DEF ExportInv, Count
<1>2. newest \in Nat /\ \A id \in new : id <= newest
  BY <1>1, NewestIsLargest
<1>3. newest >= exporter[r].lastID
  <2>1. exporter[r].lastID \in Nat /\ new \cup {exporter[r].lastID} \subseteq Nat
        /\ MaxViolations + exporter[r].lastID \in Nat
        /\ \A n \in new \cup {exporter[r].lastID} : n <= MaxViolations + exporter[r].lastID
    BY <1>1 DEF Ids, Violations
  <2>2. \A n \in new \cup {exporter[r].lastID} : n <= Max(new \cup {exporter[r].lastID})
    BY <2>1, MaxIsLargest
  <2> QED
    BY <1>2, <2>1, <2>2 DEF Newest
<1>4. /\ counted' = [counted EXCEPT ![r] = tally]
      /\ exporter' = [exporter EXCEPT ![r] = [at |-> "prune", lastID |-> newest]]
      /\ log' = log /\ nextId' = nextId
  BY DEF Count
<1>5. \A id \in new : counted[r][id] = 0
  <2> SUFFICES ASSUME NEW id \in new, counted[r][id] # 0
               PROVE  FALSE
    OBVIOUS
  <2>1. Behind(r, id) /\ log[id] = "committed" /\ id > exporter[r].lastID
    BY <1>1 DEF CountedIsBehind, Counts
  <2> QED
    BY <1>1, <2>1 DEF Behind, Ids
<1>6. tally \in [Ids -> Nat] /\ \A id \in Ids : tally[id] <= 1 /\ (tally[id] # 0 => id \in new \/ counted[r][id] # 0)
  BY <1>1, <1>5, ExporterFields DEF CountedOnce
<1>7. \A id \in new : log[id] = "committed"
  BY DEF Counts
<1> HIDE DEF new, newest, tally
<1>8. /\ exporter'[r] = [at |-> "prune", lastID |-> newest] /\ counted'[r] = tally
      /\ \A q \in Replicas \ {r} : exporter'[q] = exporter[q] /\ counted'[q] = counted[q]
  BY <1>1, <1>4 DEF LogTyped
<1>9. LogTyped' /\ CountedOnce'
  BY <1>1, <1>2, <1>4, <1>6, <1>8 DEF LogTyped, ExporterState, CountedOnce
<1>10. CountedIsBehind'
  <2> SUFFICES ASSUME NEW q \in Replicas, NEW id \in Ids, counted'[q][id] # 0
               PROVE  Behind(q, id)'
    BY DEF CountedIsBehind
  <2>1. CASE q # r
    BY <1>1, <1>4, <1>8, <2>1 DEF CountedIsBehind, Behind
  <2>2. CASE q = r /\ id \in new
    BY <1>2, <1>4, <1>7, <1>8, <2>2 DEF Behind
  <2>3. CASE q = r /\ counted[r][id] # 0
    <3>1. Behind(r, id) /\ exporter[r].at = "wait"
      BY <1>1, <2>3 DEF CountedIsBehind
    <3> QED
      BY <1>1, <1>2, <1>3, <1>4, <1>8, <2>3, <3>1 DEF Behind, Ids
  <2> QED
    BY <1>6, <1>8, <2>1, <2>2, <2>3
<1> QED
  BY <1>1, <1>4, <1>9, <1>10 DEF ExportInv, NextIsFresh

(* Violations come, are committed or rolled back, and come of age. *)
LEMMA ViolationKeeps ==
  ASSUME Violations, ExportInv,
         Violate \/ \E id \in Ids : Commit(id) \/ Rollback(id) \/ GetOld(id)
  PROVE  ExportInv'
<1>1. LogTyped /\ NextIsFresh /\ exporter' = exporter /\ counted' = counted
  BY DEF ExportInv, Violate, Commit, Rollback, GetOld
<1>2. CASE Violate
  <2>1. nextId \in Ids /\ log[nextId] = "none"
    BY <1>1, <1>2 DEF Violate, NextIsFresh, Ids, Violations
  <2>2. log' = [log EXCEPT ![nextId] = "inserted"] /\ nextId' = nextId + 1
    BY <1>2 DEF Violate
  <2>3. NextIsFresh' /\ LogMoves
    BY <1>1, <2>1, <2>2 DEF NextIsFresh, LogMoves, LogTyped, Ids
  <2> QED
    BY <1>1, <2>2, <2>3, LogKeeps DEF LogTyped
<1>3. ASSUME NEW id \in Ids, Commit(id) \/ Rollback(id)
      PROVE  ExportInv'
  <2>1. PICK x \in {"committed", "gone"} :
          log[id] = "inserted" /\ log' = [log EXCEPT ![id] = x] /\ nextId' = nextId
    BY <1>3 DEF Commit, Rollback
  <2>2. NextIsFresh' /\ LogMoves
    BY <1>1, <2>1 DEF NextIsFresh, LogMoves, LogTyped
  <2> QED
    BY <1>1, <2>1, <2>2, LogKeeps DEF LogTyped
<1>4. ASSUME NEW id \in Ids, GetOld(id)
      PROVE  ExportInv'
  <2>1. log' = log /\ nextId' = nextId
    BY <1>4 DEF GetOld
  <2> QED
    BY <1>1, <2>1, LogKeeps DEF LogTyped, LogMoves, NextIsFresh
<1> QED
  BY <1>2, <1>3, <1>4

(* An exporter prunes, panics or is started again. *)
LEMMA RestKeeps ==
  ASSUME ExportInv, NEW r \in Replicas, Prune(r) \/ Restart(r) \/ Panic(r)
  PROVE  ExportInv'
<1>1. LogTyped /\ NextIsFresh /\ counted' = counted /\ nextId' = nextId
  BY DEF ExportInv, Prune, Restart, Panic
<1>2. \/ log' = log
      \/ log' = [id \in Ids |-> IF log[id] = "committed" /\ id \in old THEN "gone" ELSE log[id]]
  BY DEF Prune, Restart, Panic
<1>3. /\ log' \in [Ids -> {"none", "inserted", "committed", "gone"}]
      /\ LogMoves /\ NextIsFresh'
  BY <1>1, <1>2 DEF LogTyped, LogMoves, NextIsFresh
<1>4. PICK x \in {"wait", "start", "panicked"} :
        /\ exporter' = [exporter EXCEPT ![r].at = x]
        /\ x = "wait" => exporter[r].at = "prune"
  BY DEF Prune, Restart, Panic
<1> DEFINE s == [exporter[r] EXCEPT !.at = x]
<1>5. s \in ExporterState /\ s.at = x /\ s.lastID = exporter[r].lastID
  BY <1>1, ExporterFields DEF ExporterState
<1>6. exporter' = [exporter EXCEPT ![r] = s]
  BY <1>4
<1> HIDE DEF s
<1>7. /\ exporter' \in [Replicas -> ExporterState] /\ exporter'[r] = s
      /\ \A q \in Replicas \ {r} : exporter'[q] = exporter[q]
  BY <1>1, <1>5, <1>6 DEF LogTyped
<1>8. \A q \in Replicas :
         \/ exporter'[q].at \in {"start", "panicked"}
         \/ /\ exporter[q].at \notin {"start", "panicked"}
            /\ exporter'[q].lastID = exporter[q].lastID
  BY <1>4, <1>5, <1>7
<1> QED
  BY <1>1, <1>3, <1>7, <1>8, LogKeeps

LEMMA ExportInvKept ==
  ASSUME Violations, ExportInv, [RlsExportNext]_exportVars
  PROVE  ExportInv'
<1>1. CASE Violate \/ \E id \in Ids : Commit(id) \/ Rollback(id) \/ GetOld(id)
  BY <1>1, ViolationKeeps
<1>2. ASSUME NEW r \in Replicas, ExporterStep(r) \/ Panic(r)
      PROVE  ExportInv'
  BY <1>2, StartKeeps, CountKeeps, RestKeeps DEF ExporterStep
<1>3. CASE UNCHANGED exportVars
  BY <1>3 DEF ExportInv, LogTyped, NextIsFresh, CountedIsBehind, Behind, CountedOnce, exportVars
<1> QED
  BY <1>1, <1>2, <1>3 DEF RlsExportNext

LEMMA ExportInvStarts ==
  ASSUME Violations, RlsExportInit
  PROVE  ExportInv
<1>1. LogTyped
  BY DEF RlsExportInit, LogTyped, ExporterState
<1>2. NextIsFresh /\ CountedIsBehind /\ CountedOnce
  BY DEF RlsExportInit, NextIsFresh, CountedIsBehind, CountedOnce
<1> QED
  BY <1>1, <1>2 DEF ExportInv

-----------------------------------------------------------------------------
(* What a replica counted lies behind its exporter, over prunes, panics and  *)
(* restarts (RLSViolationExporter.Start, Tick).                              *)
THEOREM ExportInvariant == RlsExportSpec => []ExportInv
<1>1. RlsExportInit => ExportInv
  BY ExportInvStarts, ViolationsBounded DEF Violations
<1>2. ExportInv /\ [RlsExportNext]_exportVars => ExportInv'
  BY ExportInvKept, ViolationsBounded DEF Violations
<1> QED
  BY <1>1, <1>2, PTL DEF RlsExportSpec

(* No replica counts a violation twice, in whatever order the violations are *)
(* committed and however often its exporter panics.                          *)
THEOREM NoneCountedTwice == RlsExportSpec => []CountedOnce
<1>1. ExportInv => CountedOnce
  BY DEF ExportInv
<1> QED
  BY <1>1, ExportInvariant, PTL

-----------------------------------------------------------------------------
(* The stop of a pod. *)

(* The wait before the listener closes; a listener that failed has none.     *)
Delay == IF failed THEN 0 ELSE DrainDelay

Ended == phase \notin {"serve", "drain"}

Timely ==
    /\ phase = "serve" => ~unready /\ since = 0 /\ ~failed
    /\ phase = "drain" => ~failed /\ left + since >= DrainDelay
    /\ Ended => since >= Delay
    /\ phase = "shutdown" => left + since >= Delay + Grace
    /\ phase = "pool" /\ Running # {} => left + since >= Delay + Grace + PoolDrain

Counted ==
    /\ failed \in BOOLEAN
    /\ left \in Nat /\ since \in 0 .. StopTime

PodInv == Counted /\ Timely /\ NoneRefused

-----------------------------------------------------------------------------
LEMMA StopTimeIsLong ==
  ASSUME Periods
  PROVE  /\ StopTime \in Nat
         /\ StopTime >= DrainDelay + Grace + PoolDrain
         /\ \A p : Bound(p) \in Nat
         /\ Bound("drain") = DrainDelay /\ Bound("shutdown") = Grace
         /\ Bound("pool") = PoolDrain
<1>1. /\ Bound("drain") = DrainDelay /\ Bound("shutdown") = Grace
      /\ Bound("pool") = PoolDrain
  BY DEF Bound
<1>2. \A p : Bound(p) \in {DrainDelay, Grace, PoolDrain, 0}
  BY DEF Bound
<1> QED
  BY <1>1, <1>2 DEF Periods, StopTime

LEMMA PodInvStarts ==
  ASSUME Periods, PodInit
  PROVE  PodInv
<1>1. phase = "serve" /\ ~unready /\ since = 0 /\ left = 0 /\ failed = FALSE
  BY DEF PodInit
<1>2. Counted
  <2>1. StopTime \in Nat
    BY StopTimeIsLong
  <2>2. 0 \in 0 .. StopTime /\ 0 \in Nat
    BY <2>1
  <2>3. failed \in BOOLEAN
    BY <1>1, Zenon
  <2> QED
    BY <1>1, <2>2, <2>3, Zenon DEF Counted
<1>3. Timely
  BY <1>1 DEF Timely, Ended
<1>4. NoneRefused
  BY DEF PodInit, NoneRefused
<1> QED
  BY <1>2, <1>3, <1>4 DEF PodInv

(* A request that comes once the listener is closed comes after the drain    *)
(* delay, and so from a balancer slower than it.                             *)
LEMMA ArriveKeeps ==
  ASSUME Periods, PodInv, NEW r \in Arrivals, Arrive(r)
  PROVE  PodInv'
<1>1. /\ UNCHANGED <<phase, failed, left, unready, since>> /\ since <= LbLag
      /\ req' = [req EXCEPT ![r] = IF Listening THEN "running" ELSE "refused"]
  BY DEF Arrive
<1>2. Counted'
  BY <1>1 DEF PodInv, Counted
<1>3. phase = "pool" => Running' \subseteq Running
  BY <1>1 DEF Running, Listening
<1>4. Timely'
  BY <1>1, <1>3 DEF PodInv, Timely, Ended, Delay
<1>5. ASSUME LbLag < DrainDelay, ~Listening
      PROVE  failed
  BY <1>1, <1>5, StopTimeIsLong DEF PodInv, Timely, Ended, Delay, Listening, Counted, Periods
<1>6. NoneRefused'
  BY <1>1, <1>5 DEF PodInv, NoneRefused
<1> QED
  BY <1>2, <1>4, <1>6 DEF PodInv

LEMMA FinishKeeps ==
  ASSUME Periods, PodInv, NEW r \in Arrivals, Finish(r)
  PROVE  PodInv'
<1>1. /\ UNCHANGED <<phase, failed, left, unready, since>>
      /\ req' = [req EXCEPT ![r] = IF PoolOpen THEN "done" ELSE "failed"]
  BY DEF Finish
<1>2. Running' \subseteq Running
  BY <1>1 DEF Running
<1>3. NoneRefused'
  BY <1>1 DEF PodInv, NoneRefused
<1> QED
  BY <1>1, <1>2, <1>3 DEF PodInv, Counted, Timely, Ended, Delay

(* The pod goes on to its next phase. *)
LEMMA PhaseKeeps ==
  ASSUME Periods, PodInv,
         \/ Signal \/ ListenerFails \/ DelayOver \/ ShutdownReturns
         \/ DrainPool \/ DrainSystemPool \/ Close
  PROVE  PodInv'
<1> USE DEF Enter, Same
<1>1. req' = req /\ since' = since /\ Running' = Running
  BY DEF Signal, ListenerFails, DelayOver, ShutdownReturns, DrainPool, DrainSystemPool, Close, Running
<1>2. NoneRefused'
  BY <1>1 DEF Signal, ListenerFails, DelayOver, ShutdownReturns, DrainPool, DrainSystemPool, Close,
              PodInv, NoneRefused
<1>3. Counted'
  BY <1>1, StopTimeIsLong
     DEF Signal, ListenerFails, DelayOver, ShutdownReturns, DrainPool, DrainSystemPool, Close,
         PodInv, Counted
<1> left \in Nat /\ since \in Nat /\ Timely
  BY StopTimeIsLong DEF PodInv, Counted
<1>4. ASSUME Signal
      PROVE  Timely'
  BY <1>1, <1>4, StopTimeIsLong DEF Signal, Timely, Ended, Delay, Periods
<1>5. ASSUME ListenerFails
      PROVE  Timely'
  BY <1>1, <1>5, StopTimeIsLong DEF ListenerFails, Timely, Ended, Delay, Periods
<1>6. ASSUME DelayOver
      PROVE  Timely'
  BY <1>1, <1>6, StopTimeIsLong DEF DelayOver, Timely, Ended, Delay, Periods
<1>7. ASSUME ShutdownReturns
      PROVE  Timely'
  BY <1>1, <1>7, StopTimeIsLong DEF ShutdownReturns, Timely, Ended, Delay, Periods
<1>8. ASSUME DrainPool \/ DrainSystemPool \/ Close
      PROVE  Timely'
  BY <1>1, <1>8 DEF DrainPool, DrainSystemPool, Close, Timely, Ended, Delay
<1> QED
  BY <1>2, <1>3, <1>4, <1>5, <1>6, <1>7, <1>8 DEF PodInv, Signal, ListenerFails, DelayOver, ShutdownReturns

(* A tick takes from what is left what it adds to what has passed, until     *)
(* enough has passed for any wait.                                           *)
LEMMA TickKeeps ==
  ASSUME Periods, PodInv, PodTick
  PROVE  PodInv'
<1>1. /\ UNCHANGED <<phase, failed, unready, req>> /\ unready
      /\ left' = IF left > 0 THEN left - 1 ELSE 0
      /\ since' = IF since < StopTime THEN since + 1 ELSE since
  BY DEF PodTick
<1>2. left \in Nat /\ since \in 0 .. StopTime /\ StopTime \in Nat
  BY StopTimeIsLong DEF PodInv, Counted
<1>3. Counted' /\ NoneRefused'
  BY <1>1, <1>2 DEF PodInv, Counted, NoneRefused, StopTime
<1>4. since' >= since /\ (left' + since' >= left + since \/ since' = StopTime)
  BY <1>1, <1>2
<1>5. Delay \in Nat /\ Delay <= DrainDelay /\ left' \in Nat /\ since' \in Nat
  BY <1>1, <1>2 DEF Delay, Periods
<1>6. Timely'
  BY <1>1, <1>2, <1>4, <1>5, StopTimeIsLong
     DEF PodInv, Timely, Ended, Delay, Running, Periods
<1> QED
  BY <1>3, <1>6 DEF PodInv

LEMMA PodInvKept ==
  ASSUME Periods, PodInv, [PodNext]_podVars
  PROVE  PodInv'
<1>1. CASE UNCHANGED podVars
  BY <1>1 DEF podVars, PodInv, Counted, Timely, NoneRefused, Ended, Delay, Running
<1> QED
  BY <1>1, ArriveKeeps, FinishKeeps, PhaseKeeps, TickKeeps DEF PodNext, StopStep

(* Each phase of a stop takes the time it was given, unless no request runs  *)
(* any more (stopServers, drainWithTimeout).                                 *)
THEOREM PodInvariant == PodSpec => []PodInv
<1>1. PodInit => PodInv
  BY PodInvStarts, PeriodsAreNatural
<1>2. PodInv /\ [PodNext]_podVars => PodInv'
  BY PodInvKept, PeriodsAreNatural
<1> QED
  BY <1>1, <1>2, PTL DEF PodSpec

(* A load balancer that drops the pod within the drain delay never has a     *)
(* request of it refused, however long it takes and whatever else the pod    *)
(* goes through (BeginDrain before Shutdown, run).                           *)
THEOREM NobodyRefused == PodSpec => []NoneRefused
  BY PodInvariant, PTL DEF PodInv

(* A request that runs loses the database only after every wait it was       *)
(* promised (stopServers, drainWithTimeout).                                 *)
THEOREM CutAfterGrace == PodSpec => CutOnlyAfterGrace
<1>1. ASSUME PodInv, [PodNext]_podVars, cut' # cut
      PROVE  since >= (IF failed THEN 0 ELSE DrainDelay) + Grace + PoolDrain
  <2>1. DrainPool
    BY <1>1 DEF PodNext, StopStep, podVars, Arrive, Finish, Signal, ListenerFails, DelayOver,
                ShutdownReturns, DrainSystemPool, Close, PodTick, Same
  <2>2. phase = "pool" /\ Running # {} /\ left = 0
    BY <1>1, <2>1 DEF DrainPool
  <2> QED
    BY <1>1, <2>2, StopTimeIsLong, PeriodsAreNatural DEF PodInv, Timely, Counted, Delay, Periods
<1>2. PodInv /\ [PodNext]_podVars
        => [cut' # cut => since >= (IF failed THEN 0 ELSE DrainDelay) + Grace + PoolDrain]_podVars
  BY <1>1
<1> QED
  BY <1>2, PodInvariant, PTL DEF PodSpec, CutOnlyAfterGrace

-----------------------------------------------------------------------------
(* The plan table.                                                           *)
ReadState == [active: BOOLEAN, sample: Nat, age: Nat]

TableTyped ==
    /\ plans \in Nat \ {0} /\ table \in Nat /\ table <= plans
    /\ read \in [Reads -> ReadState] /\ inflight \in SUBSET Reads

(* A read that runs is the one in flight ... *)
OneRead == \A r \in Reads : read[r].active => inflight = {r}

(* ... and the plans it was answered are at least those of the table.        *)
SampleSound(s) == s.sample = 0 \/ (table <= s.sample /\ s.sample <= plans)
SamplesSound == \A r \in Reads : read[r].active => SampleSound(read[r])

TableInv == TableTyped /\ OneRead /\ SamplesSound

-----------------------------------------------------------------------------
LEMMA ReadFields ==
  ASSUME TableTyped, NEW r \in Reads
  PROVE  /\ read[r] \in ReadState /\ read[r].active \in BOOLEAN
         /\ read[r].sample \in Nat /\ read[r].age \in Nat
  BY DEF TableTyped, ReadState

(* Steps that leave the table, its read and the catalog alone. *)
LEMMA CallersKeep ==
  ASSUME TableInv, UNCHANGED <<plans, table, inflight, read>>
  PROVE  TableInv' /\ table' >= table
<1>1. plans' = plans /\ table' = table /\ inflight' = inflight /\ read' = read
  OBVIOUS
<1>2. TableTyped' /\ OneRead' /\ table' >= table
  BY <1>1 DEF TableInv, TableTyped, OneRead
<1>3. SamplesSound'
  BY <1>1 DEF TableInv, SamplesSound, SampleSound
<1> QED
  BY <1>2, <1>3 DEF TableInv

(* A read goes on, or begins when none is in flight. *)
LEMMA ReadMoves ==
  ASSUME TableInv, NEW r \in Reads, NEW s \in ReadState, s.active,
         read' = [read EXCEPT ![r] = s], UNCHANGED <<plans, table>>,
         inflight' = {r}, SampleSound(s),
         inflight = {} \/ read[r].active
  PROVE  TableInv' /\ table' >= table
<1>1. TableTyped /\ OneRead /\ SamplesSound /\ plans' = plans /\ table' = table
  BY DEF TableInv
<1>2. /\ read' \in [Reads -> ReadState] /\ read'[r] = s
      /\ \A q \in Reads \ {r} : read'[q] = read[q]
  BY <1>1 DEF TableTyped
<1>3. \A q \in Reads \ {r} : ~read'[q].active
  BY <1>1, <1>2 DEF OneRead
<1>4. TableTyped' /\ table' >= table
  BY <1>1, <1>2 DEF TableTyped
<1>5. OneRead' /\ SamplesSound'
  BY <1>1, <1>2, <1>3 DEF OneRead, SamplesSound, SampleSound
<1> QED
  BY <1>4, <1>5 DEF TableInv

LEMMA CurrentTableKeeps ==
  ASSUME TableInv, NEW c \in Callers, CurrentTable(c)
  PROVE  TableInv' /\ table' >= table
<1>1. UNCHANGED <<plans, table>>
  BY DEF CurrentTable, catalog, held
<1>2. CASE UNCHANGED <<inflight, read>>
  BY <1>1, <1>2, CallersKeep
<1>3. ASSUME NEW r \in Reads, StartRead(r)
      PROVE  TableInv' /\ table' >= table
  <2>1. CASE inflight = {} /\ ~read[r].active
    <3> DEFINE s == [IdleRead EXCEPT !.active = TRUE]
    <3>1. s \in ReadState /\ s.active /\ s.sample = 0
      BY DEF IdleRead, ReadState
    <3>2. read' = [read EXCEPT ![r] = s] /\ inflight' = {r}
      BY <1>3, <2>1 DEF StartRead
    <3> HIDE DEF s
    <3> QED
      BY <1>1, <2>1, <3>1, <3>2, ReadMoves DEF SampleSound
  <2>2. CASE UNCHANGED <<inflight, read>>
    BY <1>1, <2>2, CallersKeep
  <2> QED
    BY <1>3, <2>1, <2>2 DEF StartRead
<1> QED
  BY <1>2, <1>3 DEF CurrentTable

LEMMA SampleKeeps ==
  ASSUME TableInv, NEW r \in Reads, Sample(r)
  PROVE  TableInv' /\ table' >= table
<1>1. TableTyped /\ OneRead /\ read[r].active
  BY DEF TableInv, Sample
<1> DEFINE s == [read[r] EXCEPT !.sample = plans]
<1>2. s \in ReadState /\ s.active /\ s.sample = plans
  BY <1>1, ReadFields DEF ReadState, TableTyped
<1>3. read' = [read EXCEPT ![r] = s] /\ UNCHANGED <<plans, table, inflight>>
  BY DEF Sample, catalog, held
<1> HIDE DEF s
<1>4. SampleSound(s) /\ inflight' = {r}
  BY <1>1, <1>2, <1>3 DEF SampleSound, TableTyped, OneRead
<1> QED
  BY <1>1, <1>2, <1>3, <1>4, ReadMoves

LEMMA SettleKeeps ==
  ASSUME TableInv, NEW r \in Reads, Settle(r)
  PROVE  TableInv' /\ table' >= table
<1>1. /\ TableTyped /\ OneRead /\ SamplesSound /\ read[r].active
      /\ read' = [read EXCEPT ![r] = IdleRead] /\ plans' = plans
  BY DEF TableInv, Settle, catalog
<1>2. inflight = {r} /\ inflight' = {}
  BY <1>1 DEF OneRead, Settle, Settled
<1>3. table' = table \/ (table' = read[r].sample /\ read[r].sample > 0)
  BY DEF Settle
<1>4. table' \in Nat /\ table' >= table /\ table' <= plans
  BY <1>1, <1>3, ReadFields DEF SamplesSound, SampleSound, TableTyped
<1>5. IdleRead \in ReadState /\ ~IdleRead.active
  BY DEF IdleRead, ReadState
<1>6. read' \in [Reads -> ReadState] /\ \A q \in Reads : ~read'[q].active
  BY <1>1, <1>2, <1>5 DEF TableTyped, OneRead
<1>7. TableTyped'
  BY <1>1, <1>2, <1>4, <1>6 DEF TableTyped
<1> QED
  BY <1>4, <1>6, <1>7 DEF TableInv, OneRead, SamplesSound

LEMMA AddPlanKeeps ==
  ASSUME TableInv, AddPlan
  PROVE  TableInv' /\ table' >= table
<1>1. TableTyped /\ plans' = plans + 1 /\ UNCHANGED <<table, inflight, read>>
  BY DEF TableInv, AddPlan, held
<1>2. TableTyped' /\ OneRead' /\ table' >= table
  BY <1>1 DEF TableInv, TableTyped, OneRead
<1>3. SamplesSound'
  BY <1>1, ReadFields DEF TableInv, TableTyped, SamplesSound, SampleSound
<1> QED
  BY <1>2, <1>3 DEF TableInv

LEMMA LimitsTickKeeps ==
  ASSUME TableInv, Tick
  PROVE  TableInv' /\ table' >= table
<1>1. TableTyped /\ UNCHANGED <<plans, table, inflight>>
  BY DEF TableInv, Tick
<1>2. read' = [r \in Reads |-> IF read[r].active THEN [read[r] EXCEPT !.age = @ + 1] ELSE read[r]]
  BY DEF Tick
<1>3. ASSUME NEW r \in Reads
      PROVE  /\ read'[r] \in ReadState
             /\ read'[r].active = read[r].active /\ read'[r].sample = read[r].sample
  <2>1. read[r] \in ReadState /\ read[r].age + 1 \in Nat
    BY <1>1, ReadFields
  <2>2. [read[r] EXCEPT !.age = @ + 1] \in ReadState
    BY <2>1 DEF ReadState
  <2>3. /\ [read[r] EXCEPT !.age = @ + 1].active = read[r].active
        /\ [read[r] EXCEPT !.age = @ + 1].sample = read[r].sample
    BY <2>1 DEF ReadState
  <2> QED
    BY <1>2, <2>1, <2>2, <2>3
<1>4. TableTyped' /\ table' >= table
  BY <1>1, <1>2, <1>3 DEF TableTyped
<1>5. OneRead' /\ SamplesSound'
  BY <1>1, <1>3 DEF TableInv, OneRead, SamplesSound, SampleSound
<1> QED
  BY <1>4, <1>5 DEF TableInv

LEMMA TableInvKept ==
  ASSUME TableInv, [PlanLimitsNext]_planVars
  PROVE  TableInv' /\ table' >= table
<1>1. ASSUME NEW c \in Callers, Ask(c) \/ TakeTable(c) \/ CheckAge(c) \/ GiveUp(c)
      PROVE  TableInv' /\ table' >= table
  BY <1>1, CallersKeep DEF Ask, TakeTable, CheckAge, GiveUp, catalog, held
<1>2. ASSUME NEW r \in Reads, ReadStep(r)
      PROVE  TableInv' /\ table' >= table
  BY <1>2, SampleKeeps, SettleKeeps DEF ReadStep
<1>3. CASE UNCHANGED planVars
  BY <1>3, CallersKeep DEF planVars
<1> QED
  BY <1>1, <1>2, <1>3, CurrentTableKeeps, AddPlanKeeps, LimitsTickKeeps
     DEF PlanLimitsNext, CallerStep

-----------------------------------------------------------------------------
(* When a plan is known *)

CallerState ==
    [at: {"idle", "table", "wait", "woken", "check", "unknown"}, plan: Nat, on: SUBSET Reads,
     forced: BOOLEAN, asked: Nat, excused: BOOLEAN]

ClocksTyped ==
    /\ plans \in 1 .. MaxPlans /\ tableAge \in Nat /\ retryIn \in Nat
    /\ planAge \in [1 .. MaxPlans -> Nat]
    /\ \A p \in 1 .. MaxPlans : planAge[p] <= Known /\ (p > plans => planAge[p] = 0)
    /\ \A r \in Reads : read[r].age <= ReadTimeout

(* An answer lists the plans that are older than its read, and so the table  *)
(* those that are older than it by more than a read takes.                   *)
SampleCovers(s) ==
    (s.active /\ s.sample > 0) => \A p \in 1 .. plans : planAge[p] > s.age => p <= s.sample
TableCovers ==
    table > 0 => \A p \in 1 .. plans : planAge[p] > tableAge + ReadTimeout => p <= table

CatalogCovered ==
    ClocksTyped /\ TableCovers /\ \A r \in Reads : SampleCovers(read[r])

(* What a caller that nobody disturbed may rely on. *)
Promised(s) ==
    /\ s.at = "check" => 0 < table /\ table < s.plan
    /\ (s.at = "woken" /\ s.forced /\ s.asked = Known) => s.plan <= table
    /\ s.at = "unknown" => s.asked < Known

CallerSound(s) ==
    /\ s.at \notin {"wait", "woken"} => s.on = {}
    /\ s.at # "idle" => /\ s.plan \in 1 .. plans /\ s.asked <= planAge[s.plan]
                        /\ retryIn > 0 => s.excused
                        /\ s.excused \/ Promised(s)

CallersInv == caller \in [Callers -> CallerState] /\ \A c \in Callers : CallerSound(caller[c])

KnownInv == TableInv /\ CatalogCovered /\ CallersInv

-----------------------------------------------------------------------------
LEMMA KnownIsPositive == Known \in Nat /\ Known > ReadTimeout /\ OldestAge \in Nat /\ OldestAge >= RetryBackoff
  BY PlanBounds DEF Known, OldestAge, Longest

LEMMA PlanListed ==
  ASSUME ClocksTyped, NEW p \in 1 .. plans
  PROVE  /\ p \in 1 .. MaxPlans /\ p \in Nat
         /\ planAge[p] \in Nat /\ planAge[p] <= Known
<1>1. p \in 1 .. MaxPlans /\ p \in Nat
  BY PlanBounds DEF ClocksTyped
<1> QED
  BY <1>1 DEF ClocksTyped

LEMMA IdleCallerSound == IdleCaller \in CallerState /\ CallerSound(IdleCaller)
  BY KnownIsPositive DEF IdleCaller, CallerState, CallerSound

LEMMA CallerFields ==
  ASSUME CallersInv, NEW c \in Callers
  PROVE  /\ caller[c] \in CallerState /\ CallerSound(caller[c])
         /\ caller[c].plan \in Nat /\ caller[c].asked \in Nat
         /\ caller[c].forced \in BOOLEAN /\ caller[c].excused \in BOOLEAN
         /\ caller[c].on \in SUBSET Reads
         /\ caller[c].at \in {"idle", "table", "wait", "woken", "check", "unknown"}
  BY DEF CallersInv, CallerState

(* One caller moves, under a table and a catalog that stay. *)
LEMMA OneCallerMoves ==
  ASSUME CallersInv, NEW c \in Callers, NEW s \in CallerState, CallerSound(s),
         caller' = [caller EXCEPT ![c] = s], UNCHANGED <<plans, planAge, table, retryIn>>
  PROVE  CallersInv'
<1>1. caller' \in [Callers -> CallerState] /\ \A d \in Callers : caller'[d] = IF d = c THEN s ELSE caller[d]
  BY DEF CallersInv
<1>2. ASSUME NEW d \in Callers
      PROVE  CallerSound(caller[d])'
  <2>1. PICK t : t = caller'[d]
    OBVIOUS
  <2>2. CallerSound(t)
    BY <1>1, <2>1 DEF CallersInv
  <2>3. CallerSound(t)'
    BY <2>2 DEF CallerSound, Promised
  <2> QED
    BY <2>1, <2>3 DEF CallerSound, Promised
<1> QED
  BY <1>1, <1>2 DEF CallersInv

(* Steps of callers keep the catalog and the table as they are. *)
LEMMA CatalogUntouched ==
  ASSUME CatalogCovered, UNCHANGED <<plans, planAge, table, tableAge, retryIn, read>>
  PROVE  CatalogCovered'
  BY DEF CatalogCovered, ClocksTyped, TableCovers, SampleCovers

(* A read that starts has answered nothing yet. *)
LEMMA StartReadCovers ==
  ASSUME TableInv, CatalogCovered, NEW r \in Reads, StartRead(r),
         UNCHANGED <<plans, planAge, table, tableAge, retryIn>>
  PROVE  CatalogCovered'
<1>1. CASE UNCHANGED read
  BY <1>1, CatalogUntouched
<1>2. CASE read' = [read EXCEPT ![r] = [IdleRead EXCEPT !.active = TRUE]]
  <2>1. \A q \in Reads : read'[q] = IF q = r THEN [IdleRead EXCEPT !.active = TRUE] ELSE read[q]
    BY <1>2 DEF TableInv, TableTyped
  <2>2. ASSUME NEW q \in Reads
        PROVE  read'[q].age <= ReadTimeout /\ SampleCovers(read[q])'
    <3>1. CASE q = r
      BY <2>1, <3>1, PlanBounds DEF IdleRead, SampleCovers
    <3>2. CASE q # r
      BY <2>1, <3>2 DEF CatalogCovered, ClocksTyped, SampleCovers
    <3> QED
      BY <3>1, <3>2
  <2> QED
    BY <2>2 DEF CatalogCovered, ClocksTyped, TableCovers
<1> QED
  BY <1>1, <1>2 DEF StartRead

-----------------------------------------------------------------------------
(* The steps *)

(* An answer from the table in hand: a caller that insisted is told unknown  *)
(* only of a plan it may be told so.                                         *)
LEMMA AnswerSound ==
  ASSUME KnownInv, NEW c \in Callers, caller[c].at \in {"table", "woken"}, Answer(c, table),
         caller[c].forced => caller[c].excused \/ caller[c].asked # Known \/ caller[c].plan <= table,
         UNCHANGED <<plans, planAge, table, retryIn>>
  PROVE  CallersInv'
<1> DEFINE mine == caller[c]
           s == [mine EXCEPT !.at = IF mine.forced THEN "unknown" ELSE "check", !.on = {}]
<1>1. CallersInv /\ TableTyped /\ ClocksTyped
  BY DEF KnownInv, TableInv, CatalogCovered
<1>2. CASE table = 0 \/ mine.plan <= table
  <2>1. caller' = [caller EXCEPT ![c] = IdleCaller]
    BY <1>2 DEF Answer
  <2> QED
    BY <1>1, <2>1, IdleCallerSound, OneCallerMoves
<1>3. CASE ~(table = 0 \/ mine.plan <= table)
  <2>1. caller' = [caller EXCEPT ![c] = s]
    BY <1>3 DEF Answer
  <2>2. mine \in CallerState /\ CallerSound(mine) /\ mine.plan \in Nat /\ mine.asked \in Nat
    BY <1>1, CallerFields
  <2>3. /\ s \in CallerState /\ s.on = {} /\ s.at = IF mine.forced THEN "unknown" ELSE "check"
        /\ s.plan = mine.plan /\ s.asked = mine.asked /\ s.excused = mine.excused
    BY <2>2 DEF CallerState
  <2>4. mine.plan \in 1 .. plans /\ mine.asked <= planAge[mine.plan] /\ (retryIn > 0 => mine.excused)
    BY <2>2 DEF CallerSound
  <2>5. planAge[mine.plan] <= Known /\ planAge[mine.plan] \in Nat
    BY <1>1, <2>4, PlanListed
  <2>6. 0 < table /\ table < mine.plan
    BY <1>1, <1>3, <2>2 DEF TableTyped
  <2> HIDE DEF s
  <2>7. s.excused \/ Promised(s)
    <3>1. CASE mine.forced /\ mine.asked # Known
      <4>1. mine.asked < Known
        BY <2>2, <2>4, <2>5, <3>1, KnownIsPositive
      <4> QED
        BY <2>3, <3>1, <4>1 DEF Promised
    <3>2. CASE ~mine.forced
      BY <2>3, <2>6, <3>2 DEF Promised
    <3>3. CASE mine.forced /\ mine.excused
      BY <2>3, <3>3
    <3> QED
      BY <1>3, <3>1, <3>2, <3>3
  <2>8. CallerSound(s)
    BY <2>3, <2>4, <2>7 DEF CallerSound
  <2> QED
    BY <1>1, <2>1, <2>3, <2>8, OneCallerMoves
<1> QED
  BY <1>2, <1>3

LEMMA AskKnown ==
  ASSUME KnownInv, NEW c \in Callers, Ask(c)
  PROVE  CatalogCovered' /\ CallersInv'
<1>1. /\ CallersInv /\ CatalogCovered /\ ClocksTyped
      /\ UNCHANGED <<plans, planAge, table, tableAge, retryIn, read>>
  BY DEF KnownInv, CatalogCovered, Ask, catalog, held
<1>2. PICK p \in 1 .. plans :
        caller' = [caller EXCEPT ![c] = [IdleCaller EXCEPT !.at = "table", !.plan = p,
                                         !.asked = planAge[p], !.excused = retryIn > 0]]
  BY DEF Ask
<1> DEFINE s == [IdleCaller EXCEPT !.at = "table", !.plan = p,
                                   !.asked = planAge[p], !.excused = retryIn > 0]
<1>3. p \in Nat /\ planAge[p] \in Nat /\ (retryIn > 0) \in BOOLEAN
  BY <1>1, PlanListed
<1>4. /\ s \in CallerState /\ s.at = "table" /\ s.plan = p /\ s.asked = planAge[p] /\ s.on = {}
      /\ s.excused = (retryIn > 0)
  BY <1>3, IdleCallerSound DEF CallerState, IdleCaller
<1> HIDE DEF s
<1>5. retryIn > 0 => s.excused
  BY <1>4
<1>6. Promised(s)
  BY <1>4 DEF Promised
<1>7. CallerSound(s)
  BY <1>3, <1>4, <1>5, <1>6 DEF CallerSound
<1>8. caller' = [caller EXCEPT ![c] = s]
  BY <1>2 DEF s
<1> QED
  BY <1>1, <1>4, <1>7, <1>8, CatalogUntouched, OneCallerMoves

LEMMA CurrentTableKnown ==
  ASSUME KnownInv, NEW c \in Callers, CurrentTable(c)
  PROVE  CatalogCovered' /\ CallersInv'
<1>1. /\ CallersInv /\ CatalogCovered /\ TableInv /\ CallerSound(caller[c])
      /\ caller[c] \in CallerState /\ caller[c].at = "table" /\ ClocksTyped
      /\ UNCHANGED <<plans, planAge, table, tableAge, retryIn>>
  BY CallerFields DEF KnownInv, CatalogCovered, CurrentTable, catalog, held
<1>2. retryIn > 0 => caller[c].excused
  BY <1>1 DEF CallerSound
<1>3. CASE Answer(c, table) /\ UNCHANGED <<inflight, read>> /\ (~caller[c].forced \/ retryIn > 0)
  BY <1>1, <1>2, <1>3, AnswerSound, CatalogUntouched
<1>4. ASSUME NEW r \in Reads, StartRead(r), retryIn = 0,
             IF table > 0 /\ ~caller[c].forced THEN Answer(c, table)
             ELSE caller' = [caller EXCEPT ![c].at = "wait", ![c].on = {r}]
      PROVE  CatalogCovered' /\ CallersInv'
  <2>1. CatalogCovered'
    BY <1>1, <1>4, StartReadCovers
  <2>2. CASE table > 0 /\ ~caller[c].forced
    BY <1>1, <1>4, <2>1, <2>2, AnswerSound
  <2>3. CASE caller' = [caller EXCEPT ![c].at = "wait", ![c].on = {r}]
    <3> DEFINE s == [caller[c] EXCEPT !.at = "wait", !.on = {r}]
    <3>1. /\ s \in CallerState /\ s.at = "wait" /\ s.plan = caller[c].plan
          /\ s.asked = caller[c].asked /\ s.excused = caller[c].excused
      BY <1>1 DEF CallerState
    <3>2. caller' = [caller EXCEPT ![c] = s]
      BY <1>1, <2>3 DEF CallersInv
    <3> HIDE DEF s
    <3>3. CallerSound(s)
      BY <1>1, <3>1 DEF CallerSound, Promised
    <3> QED
      BY <1>1, <2>1, <3>1, <3>2, <3>3, OneCallerMoves
  <2> QED
    BY <1>4, <2>1, <2>2, <2>3
<1>5. retryIn > 0 \/ retryIn = 0
  BY <1>1 DEF ClocksTyped
<1> QED
  BY <1>3, <1>4, <1>5 DEF CurrentTable

LEMMA TakeTableKnown ==
  ASSUME KnownInv, NEW c \in Callers, TakeTable(c)
  PROVE  CatalogCovered' /\ CallersInv'
<1>1. /\ CallersInv /\ CatalogCovered /\ CallerSound(caller[c])
      /\ caller[c].at = "woken" /\ Answer(c, table)
      /\ UNCHANGED <<plans, planAge, table, tableAge, retryIn, read>>
  BY CallerFields DEF KnownInv, TakeTable, catalog, held
<1>2. caller[c].excused \/ (caller[c].forced /\ caller[c].asked = Known => caller[c].plan <= table)
  BY <1>1 DEF CallerSound, Promised
<1> QED
  BY <1>1, <1>2, AnswerSound, CatalogUntouched

LEMMA GiveUpKnown ==
  ASSUME KnownInv, NEW c \in Callers, GiveUp(c)
  PROVE  CatalogCovered' /\ CallersInv'
<1>1. /\ CallersInv /\ CatalogCovered /\ caller' = [caller EXCEPT ![c] = IdleCaller]
      /\ UNCHANGED <<plans, planAge, table, tableAge, retryIn, read>>
  BY DEF KnownInv, GiveUp, catalog, held
<1> QED
  BY <1>1, IdleCallerSound, OneCallerMoves, CatalogUntouched

(* A table that is not worth reading again lists every plan that is older    *)
(* than the backoff and a read.                                              *)
LEMMA CheckAgeKnown ==
  ASSUME KnownInv, NEW c \in Callers, CheckAge(c)
  PROVE  CatalogCovered' /\ CallersInv'
<1> DEFINE mine == caller[c]
           s == [mine EXCEPT !.at = IF tableAge >= RetryBackoff THEN "table" ELSE "unknown",
                            !.forced = tableAge >= RetryBackoff]
<1>1. /\ CallersInv /\ CatalogCovered /\ ClocksTyped /\ TableCovers /\ TableTyped
      /\ mine \in CallerState /\ CallerSound(mine) /\ mine.at = "check"
      /\ mine.asked \in Nat /\ mine.plan \in Nat
      /\ UNCHANGED <<plans, planAge, table, tableAge, retryIn, read>>
  BY CallerFields DEF KnownInv, CatalogCovered, TableInv, CheckAge, catalog, held
<1>2. caller' = [caller EXCEPT ![c] = s]
  BY <1>1 DEF CheckAge, CallersInv
<1>3. (tableAge >= RetryBackoff) \in BOOLEAN
  OBVIOUS
<1>4. /\ s \in CallerState /\ s.on = mine.on /\ s.plan = mine.plan /\ s.asked = mine.asked
      /\ s.excused = mine.excused
      /\ s.at = IF tableAge >= RetryBackoff THEN "table" ELSE "unknown"
  BY <1>1, <1>3 DEF CallerState
<1>5. mine.plan \in 1 .. plans /\ mine.asked <= planAge[mine.plan] /\ planAge[mine.plan] \in Nat
  BY <1>1, PlanListed DEF CallerSound
<1> HIDE DEF s
<1>6. s.on = {} /\ (retryIn > 0 => s.excused)
  BY <1>1, <1>4 DEF CallerSound
<1>7. s.excused \/ Promised(s)
  <2>1. CASE mine.excused
    BY <1>4, <2>1
  <2>2. CASE ~mine.excused /\ tableAge < RetryBackoff
    <3>1. 0 < table /\ table < mine.plan
      BY <1>1, <2>2 DEF CallerSound, Promised
    <3>2. ~(planAge[mine.plan] > tableAge + ReadTimeout)
      BY <1>1, <1>5, <3>1 DEF TableCovers, TableTyped
    <3>3. mine.asked < Known
      BY <1>1, <1>5, <2>2, <3>2, PlanBounds DEF Known, ClocksTyped
    <3>4. s.at = "unknown" /\ s.asked < Known
      BY <1>1, <1>4, <2>2, <3>3, PlanBounds DEF ClocksTyped
    <3> QED
      BY <3>4 DEF Promised
  <2>3. CASE tableAge >= RetryBackoff
    BY <1>4, <2>3 DEF Promised
  <2> QED
    BY <1>1, <2>1, <2>2, <2>3, PlanBounds DEF ClocksTyped
<1>8. CallerSound(s)
  BY <1>4, <1>5, <1>6, <1>7 DEF CallerSound
<1> QED
  BY <1>1, <1>2, <1>4, <1>8, OneCallerMoves, CatalogUntouched

(* Nothing that a caller relies on gets worse while its own state stays. *)
LEMMA CallersWait ==
  ASSUME KnownInv, caller' = caller,
         plans' >= plans, plans' \in Nat, table' = table,
         \A p \in 1 .. plans : planAge'[p] \in Nat /\ planAge'[p] >= planAge[p],
         retryIn' > 0 => retryIn > 0
  PROVE  CallersInv'
<1>1. CallersInv /\ plans \in Nat /\ ClocksTyped
  BY DEF KnownInv, TableInv, TableTyped, CatalogCovered
<1>2. ASSUME NEW c \in Callers
      PROVE  CallerSound(caller[c])'
  <2>1. PICK s : s = caller[c]
    OBVIOUS
  <2>2. CallerSound(s) /\ s.asked \in Nat /\ s.plan \in Nat
    BY <1>1, <2>1, CallerFields
  <2>3. s.at # "idle" => s.plan \in 1 .. plans' /\ s.asked <= planAge'[s.plan]
    <3>1. SUFFICES ASSUME s.at # "idle"
                   PROVE  s.plan \in 1 .. plans' /\ s.asked <= planAge'[s.plan]
      OBVIOUS
    <3>2. s.plan \in 1 .. plans /\ s.asked <= planAge[s.plan]
      BY <2>2, <3>1 DEF CallerSound
    <3>3. planAge[s.plan] \in Nat
      BY <1>1, <3>2, PlanListed
    <3> QED
      BY <1>1, <2>2, <3>2, <3>3
  <2>4. Promised(s)' <=> Promised(s)
    BY DEF Promised
  <2>5. CallerSound(s)'
    BY <2>2, <2>3, <2>4 DEF CallerSound
  <2> QED
    BY <2>1, <2>5
<1> QED
  BY <1>1, <1>2 DEF CallersInv

LEMMA SampleKnown ==
  ASSUME KnownInv, NEW r \in Reads, Sample(r)
  PROVE  CatalogCovered' /\ CallersInv'
<1> DEFINE s == [read[r] EXCEPT !.sample = plans]
<1>1. /\ CatalogCovered /\ TableTyped /\ read[r] \in ReadState /\ plans \in Nat
      /\ read' = [read EXCEPT ![r] = s] /\ caller' = caller
      /\ UNCHANGED <<plans, planAge, table, tableAge, retryIn>>
  BY ReadFields DEF KnownInv, TableInv, TableTyped, Sample, catalog, held
<1>2. s.sample = plans /\ s.age = read[r].age
  BY <1>1 DEF ReadState
<1>3. \A q \in Reads : read'[q] = IF q = r THEN s ELSE read[q]
  BY <1>1 DEF TableTyped
<1> HIDE DEF s
<1>4. ASSUME NEW q \in Reads
      PROVE  read'[q].age <= ReadTimeout /\ SampleCovers(read[q])'
  <2>1. read'[q].age = read[q].age /\ read[q].age <= ReadTimeout /\ SampleCovers(read[q])
    BY <1>1, <1>2, <1>3 DEF CatalogCovered, ClocksTyped
  <2>2. CASE q = r
    BY <1>1, <1>2, <1>3, <2>1, <2>2 DEF SampleCovers
  <2>3. CASE q # r
    BY <1>1, <1>3, <2>1, <2>3 DEF SampleCovers
  <2> QED
    BY <2>1, <2>2, <2>3
<1>5. CatalogCovered'
  BY <1>1, <1>4 DEF CatalogCovered, ClocksTyped, TableCovers
<1>6. \A p \in 1 .. plans : planAge'[p] \in Nat /\ planAge'[p] >= planAge[p]
  BY <1>1, PlanListed DEF CatalogCovered
<1> QED
  BY <1>1, <1>5, <1>6, CallersWait

LEMMA AddPlanKnown ==
  ASSUME KnownInv, AddPlan
  PROVE  CatalogCovered' /\ CallersInv'
<1>1. /\ CatalogCovered /\ ClocksTyped /\ TableTyped /\ caller' = caller
      /\ plans < MaxPlans /\ plans' = plans + 1 /\ plans \in Nat
      /\ UNCHANGED <<planAge, table, tableAge, retryIn, read>>
  BY DEF KnownInv, TableInv, TableTyped, CatalogCovered, AddPlan, held
<1>2. plans' \in 1 .. MaxPlans /\ planAge[plans'] = 0
  BY <1>1, PlanBounds DEF ClocksTyped
<1>3. \A p \in 1 .. plans' : p \in 1 .. plans \/ planAge[p] = 0
  BY <1>1, <1>2
<1>4. ClocksTyped'
  BY <1>1, <1>2 DEF ClocksTyped
<1>5. TableCovers'
  BY <1>1, <1>3, PlanBounds DEF CatalogCovered, TableCovers, ClocksTyped
<1>6. ASSUME NEW r \in Reads
      PROVE  SampleCovers(read[r])'
  <2>1. read[r].age \in Nat /\ SampleCovers(read[r])
    BY <1>1, ReadFields DEF CatalogCovered
  <2> QED
    BY <1>1, <1>3, <2>1 DEF SampleCovers
<1>7. \A p \in 1 .. plans : planAge'[p] \in Nat /\ planAge'[p] >= planAge[p]
  BY <1>1, PlanListed
<1> QED
  BY <1>1, <1>4, <1>5, <1>6, <1>7, CallersWait DEF CatalogCovered

LEMMA TickKnown ==
  ASSUME KnownInv, Tick
  PROVE  CatalogCovered' /\ CallersInv'
<1>1. /\ CatalogCovered /\ ClocksTyped /\ TableTyped /\ TableCovers
      /\ UNCHANGED <<plans, table, inflight, caller, readErrors>>
      /\ \A r \in Reads : read[r].active => read[r].age < ReadTimeout
  BY DEF KnownInv, TableInv, CatalogCovered, Tick
<1>2. /\ planAge' = [p \in 1 .. MaxPlans |-> IF p <= plans THEN Older(planAge[p], Known) ELSE 0]
      /\ tableAge' = Older(tableAge, OldestAge)
      /\ retryIn' = IF retryIn > 0 THEN retryIn - 1 ELSE 0
      /\ read' = [r \in Reads |-> IF read[r].active THEN [read[r] EXCEPT !.age = @ + 1] ELSE read[r]]
  BY DEF Tick
<1>3. /\ plans \in 1 .. MaxPlans /\ plans \in Nat /\ tableAge \in Nat /\ retryIn \in Nat
      /\ planAge \in [1 .. MaxPlans -> Nat]
  BY <1>1, PlanBounds DEF ClocksTyped
<1>4. ASSUME NEW p \in 1 .. MaxPlans
      PROVE  /\ planAge'[p] \in Nat /\ planAge'[p] <= Known
             /\ p > plans => planAge'[p] = 0
             /\ p <= plans => planAge'[p] >= planAge[p] /\ planAge'[p] <= planAge[p] + 1
  <2>1. planAge[p] \in Nat /\ planAge[p] <= Known /\ p \in Nat
    BY <1>1, <1>3, PlanBounds DEF ClocksTyped
  <2> QED
    BY <1>2, <1>3, <2>1, KnownIsPositive DEF Older
<1>5. ASSUME NEW r \in Reads
      PROVE  /\ read'[r].active = read[r].active /\ read'[r].sample = read[r].sample
             /\ read'[r].age \in Nat /\ read'[r].age <= ReadTimeout
             /\ read[r].active => read'[r].age = read[r].age + 1
  <2>1. /\ read[r] \in ReadState /\ read[r].age \in Nat /\ read[r].age <= ReadTimeout
    BY <1>1, ReadFields DEF ClocksTyped
  <2>2. CASE read[r].active
    <3>1. read'[r] = [read[r] EXCEPT !.age = @ + 1] /\ read[r].age < ReadTimeout
      BY <1>1, <1>2, <2>2
    <3> QED
      BY <2>1, <3>1, PlanBounds DEF ReadState
  <2>3. CASE ~read[r].active
    BY <1>2, <2>1, <2>3
  <2> QED
    BY <2>2, <2>3
<1>6. /\ tableAge' \in Nat /\ retryIn' \in Nat /\ (retryIn' > 0 => retryIn > 0)
      /\ tableAge' = tableAge + 1 \/ (tableAge' = tableAge /\ tableAge >= RetryBackoff)
  BY <1>2, <1>3, KnownIsPositive, PlanBounds DEF Older
<1>7. ClocksTyped'
  BY <1>1, <1>2, <1>3, <1>4, <1>5, <1>6 DEF ClocksTyped
<1>8. \A p \in 1 .. plans : /\ p \in 1 .. MaxPlans /\ planAge[p] \in Nat
                            /\ planAge'[p] \in Nat /\ planAge'[p] <= Known
                            /\ planAge'[p] >= planAge[p] /\ planAge'[p] <= planAge[p] + 1
  BY <1>1, <1>3, <1>4, PlanListed
<1>9. TableCovers'
  <2> SUFFICES ASSUME table > 0, NEW p \in 1 .. plans, planAge'[p] > tableAge' + ReadTimeout
               PROVE  p <= table
    BY <1>1 DEF TableCovers
  <2>1. tableAge' = tableAge + 1
    BY <1>3, <1>6, <1>8, PlanBounds DEF Known
  <2>2. planAge[p] > tableAge + ReadTimeout
    BY <1>3, <1>8, <2>1, PlanBounds
  <2> QED
    BY <1>1, <2>2 DEF TableCovers
<1>10. ASSUME NEW r \in Reads
       PROVE  SampleCovers(read[r])'
  <2> SUFFICES ASSUME read[r].active, read[r].sample > 0, NEW p \in 1 .. plans,
                      planAge'[p] > read'[r].age
               PROVE  p <= read[r].sample
    BY <1>1, <1>5 DEF SampleCovers
  <2>1. planAge[p] > read[r].age
    BY <1>1, <1>5, <1>8, ReadFields
  <2> QED
    BY <1>1, <2>1 DEF CatalogCovered, SampleCovers
<1> QED
  BY <1>1, <1>3, <1>6, <1>7, <1>8, <1>9, <1>10, CallersWait DEF CatalogCovered

LEMMA SettleKnown ==
  ASSUME KnownInv, NEW r \in Reads, Settle(r)
  PROVE  CatalogCovered' /\ CallersInv'
<1>1. /\ CatalogCovered /\ ClocksTyped /\ TableInv /\ TableTyped /\ CallersInv
      /\ read[r].active /\ read[r] \in ReadState
      /\ read[r].sample \in Nat /\ read[r].age \in Nat /\ read[r].age <= ReadTimeout
      /\ SampleCovers(read[r]) /\ plans \in Nat /\ table \in Nat
      /\ UNCHANGED <<plans, planAge>> /\ read' = [read EXCEPT ![r] = IdleRead]
  BY ReadFields DEF KnownInv, TableInv, TableTyped, CatalogCovered, ClocksTyped, Settle, catalog
<1>2. \A q \in Reads : read'[q] = IF q = r THEN IdleRead ELSE read[q]
  BY <1>1 DEF TableTyped
<1>3. ASSUME NEW q \in Reads
      PROVE  read'[q].age <= ReadTimeout /\ SampleCovers(read[q])'
  <2>1. CASE q = r
    BY <1>2, <2>1, PlanBounds DEF IdleRead, SampleCovers
  <2>2. CASE q # r
    BY <1>1, <1>2, <2>2 DEF CatalogCovered, ClocksTyped, SampleCovers
  <2> QED
    BY <2>1, <2>2
<1>4. table' \in Nat /\ table' >= table
  BY <1>1, SettleKeeps DEF TableInv, TableTyped
<1>5. ASSUME NEW E \in SUBSET Callers, caller' = Woken(r, E)
      PROVE  /\ caller' \in [Callers -> CallerState]
             /\ \A c \in Callers :
                   /\ caller'[c].at = IF r \in caller[c].on THEN "woken" ELSE caller[c].at
                   /\ caller'[c].excused <=> (caller[c].excused \/ c \in E)
                   /\ caller'[c].plan = caller[c].plan /\ caller'[c].asked = caller[c].asked
                   /\ caller'[c].forced = caller[c].forced /\ caller'[c].on = caller[c].on
  <2>1. ASSUME NEW c \in Callers
        PROVE  /\ caller'[c] \in CallerState
               /\ caller'[c].at = IF r \in caller[c].on THEN "woken" ELSE caller[c].at
               /\ caller'[c].excused <=> (caller[c].excused \/ c \in E)
               /\ caller'[c].plan = caller[c].plan /\ caller'[c].asked = caller[c].asked
               /\ caller'[c].forced = caller[c].forced /\ caller'[c].on = caller[c].on
    <3>1. caller[c] \in CallerState /\ (caller[c].excused \/ c \in E) \in BOOLEAN
      BY <1>1, CallerFields
    <3>2. caller'[c] = [caller[c] EXCEPT !.at = IF r \in caller[c].on THEN "woken" ELSE @,
                                        !.excused = @ \/ c \in E]
      BY <1>5 DEF Woken
    <3> QED
      BY <3>1, <3>2 DEF CallerState
  <2>2. caller' = [c \in Callers |-> caller'[c]]
    BY <1>5 DEF Woken
  <2> QED
    BY <2>1, <2>2
<1>6. ASSUME NEW c \in Callers, NEW s, s = caller'[c],
             s.at = IF r \in caller[c].on THEN "woken" ELSE caller[c].at,
             s.plan = caller[c].plan, s.asked = caller[c].asked, s.on = caller[c].on,
             retryIn' > 0 => s.excused,
             s.at # "idle" => s.excused \/ Promised(s)'
      PROVE  CallerSound(caller[c])'
  <2>1. CallerSound(caller[c])
    BY <1>1, CallerFields
  <2>2. caller[c].at = "idle" => s.at = "idle"
    BY <1>6, <2>1 DEF CallerSound
  <2>3. s.at \notin {"wait", "woken"} => s.on = {}
    BY <1>6, <2>1 DEF CallerSound
  <2>4. s.at # "idle" => caller[c].at # "idle"
    BY <2>2
  <2>5. s.at # "idle" => s.plan \in 1 .. plans' /\ s.asked <= planAge'[s.plan]
    BY <1>1, <1>6, <2>1, <2>4 DEF CallerSound
  <2>6. CallerSound(s)'
    BY <1>6, <2>3, <2>5 DEF CallerSound
  <2> QED
    BY <1>6, <2>6
<1>7. CASE /\ read[r].sample > 0 /\ table' = read[r].sample /\ tableAge' = 0 /\ retryIn' = 0
           /\ caller' = Woken(r, Overtaken)
  <2>1. Overtaken \in SUBSET Callers
    BY DEF Overtaken
  <2>2. TableCovers'
    BY <1>1, <1>7, PlanListed, PlanBounds DEF TableCovers, SampleCovers
  <2>3. CatalogCovered'
    BY <1>1, <1>3, <1>7, <2>2 DEF CatalogCovered, ClocksTyped
  <2>4. ASSUME NEW c \in Callers
        PROVE  CallerSound(caller[c])'
    <3>1. PICK s : s = caller'[c]
      OBVIOUS
    <3>2. /\ s.at = IF r \in caller[c].on THEN "woken" ELSE caller[c].at
          /\ s.plan = caller[c].plan /\ s.asked = caller[c].asked /\ s.on = caller[c].on
          /\ s.forced = caller[c].forced
          /\ s.excused <=> (caller[c].excused \/ c \in Overtaken)
      BY <1>5, <1>7, <2>1, <3>1
    <3>3. CallerSound(caller[c]) /\ caller[c].plan \in Nat /\ caller[c].asked \in Nat
      BY <1>1, CallerFields
    <3>4. ASSUME s.at # "idle", ~s.excused
          PROVE  Promised(s)'
      <4>1. caller[c].at # "idle" /\ caller[c].at # "check" /\ ~caller[c].excused
        BY <3>2, <3>3, <3>4 DEF CallerSound, Overtaken
      <4>2. /\ Promised(caller[c]) /\ caller[c].plan \in 1 .. plans
            /\ caller[c].asked <= planAge[caller[c].plan]
        BY <3>3, <4>1 DEF CallerSound
      <4>3. s.at # "check" /\ (s.at = "unknown" => s.asked < Known)
        BY <3>2, <4>1, <4>2 DEF Promised
      <4>4. ASSUME s.at = "woken", s.forced, s.asked = Known
            PROVE  s.plan <= table'
        <5>1. planAge[s.plan] > read[r].age
          BY <1>1, <3>2, <4>2, <4>4, PlanListed, KnownIsPositive, PlanBounds
        <5> QED
          BY <1>1, <1>7, <3>2, <4>2, <5>1 DEF SampleCovers
      <4> QED
        BY <4>3, <4>4 DEF Promised
    <3> QED
      BY <1>6, <1>7, <3>1, <3>2, <3>4
  <2> QED
    BY <1>5, <1>7, <2>1, <2>3, <2>4 DEF CallersInv
<1>8. CASE /\ retryIn' = RetryBackoff /\ caller' = Woken(r, Callers)
           /\ UNCHANGED <<table, tableAge>>
  <2>1. CatalogCovered'
    BY <1>1, <1>3, <1>8, PlanBounds DEF CatalogCovered, ClocksTyped, TableCovers
  <2>2. ASSUME NEW c \in Callers
        PROVE  CallerSound(caller[c])'
    BY <1>5, <1>6, <1>8, <2>2
  <2> QED
    BY <1>5, <1>8, <2>1, <2>2 DEF CallersInv
<1> QED
  BY <1>7, <1>8 DEF Settle

LEMMA KnownInvStarts == PlanLimitsInit => KnownInv
<1> SUFFICES ASSUME PlanLimitsInit PROVE KnownInv
  OBVIOUS
<1>1. IdleRead \in ReadState /\ ~IdleRead.active /\ IdleRead.age = 0
  BY DEF IdleRead, ReadState
<1>2. TableInv
  BY <1>1 DEF PlanLimitsInit, TableInv, TableTyped, OneRead, SamplesSound
<1>3. CatalogCovered
  BY <1>1, KnownIsPositive, PlanBounds
     DEF PlanLimitsInit, CatalogCovered, ClocksTyped, TableCovers, SampleCovers
<1>4. CallersInv
  BY IdleCallerSound DEF PlanLimitsInit, CallersInv
<1> QED
  BY <1>2, <1>3, <1>4 DEF KnownInv

LEMMA KnownInvKept ==
  ASSUME KnownInv, [PlanLimitsNext]_planVars
  PROVE  KnownInv'
<1>1. TableInv'
  BY TableInvKept DEF KnownInv
<1>2. CASE UNCHANGED planVars
  <2>1. CatalogCovered /\ caller' = caller
        /\ UNCHANGED <<plans, planAge, table, tableAge, retryIn, read>>
    BY <1>2 DEF KnownInv, planVars
  <2>2. \A p \in 1 .. plans : planAge[p] \in Nat
    BY <2>1, PlanListed DEF CatalogCovered
  <2>3. CallersInv'
    BY <2>1, <2>2, CallersWait DEF KnownInv, TableInv, TableTyped
  <2> QED
    BY <1>1, <2>1, <2>3, CatalogUntouched DEF KnownInv
<1> QED
  BY <1>1, <1>2, AskKnown, CurrentTableKnown, TakeTableKnown, CheckAgeKnown, GiveUpKnown,
     SampleKnown, SettleKnown, AddPlanKnown, TickKnown
     DEF PlanLimitsNext, CallerStep, ReadStep, KnownInv

-----------------------------------------------------------------------------
(* One read at a time, and a table no older than the last (startReadLocked,  *)
(* settleRead).                                                              *)
THEOREM TableInvariant == PlanLimitsSpec => []TableInv
<1>1. PlanLimitsInit => TableInv
  <2> SUFFICES ASSUME PlanLimitsInit PROVE TableInv
    OBVIOUS
  <2>1. IdleRead \in ReadState /\ ~IdleRead.active
    BY DEF IdleRead, ReadState
  <2> QED
    BY <2>1 DEF PlanLimitsInit, TableInv, TableTyped, OneRead, SamplesSound
<1>2. TableInv /\ [PlanLimitsNext]_planVars => TableInv'
  BY TableInvKept
<1> QED
  BY <1>1, <1>2, PTL DEF PlanLimitsSpec

(* A plan once in the table stays there: no late answer of an earlier read   *)
(* replaces a newer table, whatever reads fail, panic or are abandoned.      *)
THEOREM NeverBack == PlanLimitsSpec => TableNeverGoesBack
<1>1. TableInv /\ [PlanLimitsNext]_planVars => [table' >= table]_planVars
  BY TableInvKept
<1> QED
  BY <1>1, TableInvariant, PTL DEF PlanLimitsSpec, TableNeverGoesBack

(* A plan the catalog has listed for longer than the backoff and a read take *)
(* is not refused as unknown, for any periods, callers and plans, unless a   *)
(* read failed or the table changed under the lookup (WorkflowTemplateLimit).*)
THEOREM KnownPlansAreServed == PlanLimitsSpec => []KnownPlanIsServed
<1>1. PlanLimitsSpec => []KnownInv
  BY KnownInvStarts, KnownInvKept, PTL DEF PlanLimitsSpec
<1>2. KnownInv => KnownPlanIsServed
  BY DEF KnownInv, CallersInv, CallerSound, Promised, KnownPlanIsServed
<1> QED
  BY <1>1, <1>2, PTL
=============================================================================
