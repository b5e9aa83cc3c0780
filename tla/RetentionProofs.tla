--------------------------- MODULE RetentionProofs ---------------------------
(***************************************************************************)
(* RetentionInv is an invariant of the retention of a tenant's data, for   *)
(* any number of replicas, rows, secrets, events and failures; hence a     *)
(* return outlives every older offboarding, and rows go only when due.     *)
(*                                                                         *)
(* A step of the sweep of p does to the ledger nothing, or adds one to its *)
(* version and leaves its two dates (RowKept), and takes p's sweep to a    *)
(* sound record (SweepMoves).  The other sweeps are then sound as before:  *)
(* none holds a batch, or the row is as it was.                            *)
(***************************************************************************)
EXTENDS RetentionProperties, TLAPS

LEMMA Constants ==
  /\ CredentialRetention \in Nat /\ ArtifactRetention \in Nat
  /\ Interval \in Nat /\ MaxBackoff \in Nat /\ Horizon \in Nat
  /\ MaxEvents \in Nat /\ MaxErrors \in Nat
  BY PeriodsArePositive, RetentionBounds

(* The fields of a row and of a sweep. *)
LEMMA RowFields ==
  ASSUME NEW r \in LedgerRow
  PROVE  /\ r.off \in Nat /\ r.ret \in Nat /\ r.attempts \in Nat
         /\ r.next \in Nat /\ r.rv \in Nat
         /\ r.credentialsPurged \in BOOLEAN /\ r.purged \in BOOLEAN
  BY DEF LedgerRow

LEMMA SweepFields ==
  ASSUME NEW s \in Sweep
  PROVE  /\ s.pc \in PurgeStage /\ s.ver \in Nat /\ s.attempts \in Nat
         /\ s.credentials \in BOOLEAN /\ s.artifacts \in BOOLEAN
         /\ s.todo \in SUBSET Paths /\ s.batch \in SUBSET Rows
         /\ s.failed \in BOOLEAN
  BY DEF Sweep

LEMMA RestingSound == Resting \in Sweep /\ SweepCurrent(Resting)'
  BY DEF Resting, Sweep, PurgeStage, SweepCurrent

-----------------------------------------------------------------------------
(* What a step of a sweep does to the row. *)
RowKept ==
    \/ row' = row
    \/ /\ RowFree
       /\ row' \in LedgerRow
       /\ row'.off = row.off /\ row'.ret = row.ret
       /\ row'.rv = row.rv + 1

Moves(p) ==
    \E s : /\ s \in Sweep /\ SweepCurrent(s)'
           /\ purger' = [purger EXCEPT ![p] = s]

LEMMA Rests ==
  ASSUME NEW p, Proceed(p, Resting)
  PROVE  Moves(p)
  BY RestingSound DEF Moves, Proceed

LEMMA MovesTo ==
  ASSUME NEW p, NEW s, Proceed(p, s), s \in Sweep, SweepCurrent(s)'
  PROVE  Moves(p)
  BY DEF Moves, Proceed

(* A write of the row that changes marks, attempts or the next attempt. *)
LEMMA WriteKeeps ==
  ASSUME NEW r \in LedgerRow, row \in LedgerRow, RowFree, WriteLedger(r),
         r.off = row.off, r.ret = row.ret
  PROVE  /\ RowKept
         /\ row' \in LedgerRow
         /\ row'.off = row.off /\ row'.ret = row.ret /\ row'.rv = row.rv + 1
  BY DEF WriteLedger, LedgerRow, RowKept

-----------------------------------------------------------------------------
(* Steps of a sweep that leave the row alone. *)
LEMMA SameRow ==
  ASSUME NEW s, row' = row, now' = now, SweepCurrent(s)
  PROVE  SweepCurrent(s)'
  BY DEF SweepCurrent

LEMMA TickMoves ==
  ASSUME TypeOK, NEW p \in Purgers, Tick(p)
  PROVE  Moves(p) /\ RowKept
<1> DEFINE s == [Resting EXCEPT !.ver = row.rv, !.attempts = row.attempts,
                                !.credentials = CredentialsDue,
                                !.artifacts = ArtifactsDue]
           t == [s EXCEPT !.pc = "check", !.todo = Paths]
<1>0. row \in LedgerRow /\ row' = row /\ now' = now
  BY DEF TypeOK, Tick, tenantVars
<1>1. CredentialsDue \in BOOLEAN /\ ArtifactsDue \in BOOLEAN
  BY DEF CredentialsDue, ArtifactsDue
<1>2. s \in Sweep /\ s.ver = row.rv /\ s.pc = "idle" /\ ~s.failed /\ s.artifacts = ArtifactsDue
  BY <1>0, <1>1, RowFields DEF Resting, Sweep, PurgeStage
<1>5. ArtifactsDue => row.off # Never /\ row.off + ArtifactRetention <= now
  BY DEF ArtifactsDue
<1>3. CASE CredentialsDue
  <2>1. Proceed(p, t)
    BY <1>3 DEF Tick
  <2>2. t \in Sweep /\ t.ver = row.rv /\ t.pc = "check" /\ t.artifacts = ArtifactsDue
    BY <1>2 DEF Sweep, PurgeStage
  <2> HIDE DEF t
  <2>3. SweepCurrent(t)
    BY <1>0, <1>5, <2>2, RowFields DEF SweepCurrent
  <2> QED BY <1>0, <2>1, <2>2, <2>3, SameRow, MovesTo DEF RowKept
<1>4. CASE ~CredentialsDue
  <2>1. Proceed(p, AfterCredentials(s)) /\ ArtifactsDue
    BY <1>4 DEF Tick, Due
  <2>2. AfterCredentials(s) = [s EXCEPT !.pc = "lock"]
    BY <1>2, <2>1 DEF AfterCredentials
  <2> DEFINE u == [s EXCEPT !.pc = "lock"]
  <2>3. u \in Sweep /\ u.ver = row.rv /\ u.pc = "lock" /\ u.artifacts
    BY <1>2, <2>1 DEF Sweep, PurgeStage
  <2> HIDE DEF u
  <2>4. SweepCurrent(u)
    BY <1>0, <1>5, <2>1, <2>3, RowFields DEF SweepCurrent
  <2> QED BY <1>0, <2>1, <2>2, <2>3, <2>4, SameRow, MovesTo DEF RowKept, u
<1> QED BY <1>3, <1>4

(* A record that differs from the sweep in its stage, the work left and      *)
(* whether it has failed is as sound, if its stage needs no more.            *)
LEMMA NextStage ==
  ASSUME NEW s \in Sweep, NEW t \in Sweep, SweepCurrent(s), s.pc # "idle",
         t.ver = s.ver, t.artifacts = s.artifacts,
         t.pc = "batch" => s.ver = row.rv /\ row.ret = Never,
         t.pc \in {"lock", "batch", "count", "mark"} => s.artifacts
  PROVE  SweepCurrent(t)
  BY DEF SweepCurrent

LEMMA CredentialMoves ==
  ASSUME TypeOK, SweepsCurrent, NEW p \in Purgers, CheckSecret(p) \/ DeleteSecret(p)
  PROVE  Moves(p) /\ RowKept
<1>0. purger[p] \in Sweep /\ SweepCurrent(purger[p]) /\ row' = row /\ now' = now
  BY DEF TypeOK, SweepsCurrent, CheckSecret, DeleteSecret, tenantVars
<1>1. CASE CheckSecret(p) /\ ~Current(purger[p].ver)
  BY <1>0, <1>1, Rests DEF CheckSecret, RowKept
<1>2. CASE CheckSecret(p) /\ Current(purger[p].ver)
  <2> DEFINE t == [purger[p] EXCEPT !.pc = "delete"]
  <2>1. Proceed(p, t) /\ purger[p].pc = "check"
    BY <1>2 DEF CheckSecret, PurgeAt
  <2>2. t \in Sweep /\ t.ver = purger[p].ver /\ t.artifacts = purger[p].artifacts /\ t.pc = "delete"
    BY <1>0 DEF Sweep, PurgeStage
  <2>3. SweepCurrent(t)
    BY <1>0, <2>1, <2>2, NextStage
  <2> QED BY <1>0, <2>1, <2>2, <2>3, SameRow, MovesTo DEF RowKept
<1>3. CASE DeleteSecret(p)
  <2>1. PICK x \in purger[p].todo : Proceed(p, [purger[p] EXCEPT !.pc = "check", !.todo = @ \ {x}])
    BY <1>3 DEF DeleteSecret
  <2> DEFINE t == [purger[p] EXCEPT !.pc = "check", !.todo = @ \ {x}]
  <2>2. t \in Sweep /\ t.ver = purger[p].ver /\ t.artifacts = purger[p].artifacts /\ t.pc = "check"
    BY <1>0 DEF Sweep, PurgeStage
  <2>3. SweepCurrent(t)
    BY <1>0, <1>3, <2>2, NextStage DEF DeleteSecret, PurgeAt
  <2> QED BY <1>0, <2>1, <2>2, <2>3, SameRow, MovesTo DEF RowKept
<1> QED BY <1>1, <1>2, <1>3

LEMMA BatchMoves ==
  ASSUME TypeOK, SweepsCurrent, NEW p \in Purgers,
         BatchBegin(p) \/ BatchCommit(p) \/ CheckEmpty(p)
  PROVE  Moves(p) /\ RowKept
<1>0. purger[p] \in Sweep /\ SweepCurrent(purger[p]) /\ row' = row /\ now' = now
  BY DEF TypeOK, SweepsCurrent, BatchBegin, BatchCommit, CheckEmpty, tenantVars
<1>1. CASE BatchBegin(p) /\ ~Current(purger[p].ver)
  BY <1>0, <1>1, Rests DEF BatchBegin, RowKept
<1>2. CASE BatchBegin(p) /\ Current(purger[p].ver)
  <2>1. PICK b \in SUBSET rows : Proceed(p, [purger[p] EXCEPT !.pc = "batch", !.batch = b])
    BY <1>2 DEF BatchBegin
  <2> DEFINE t == [purger[p] EXCEPT !.pc = "batch", !.batch = b]
  <2>2. t \in Sweep /\ t.ver = purger[p].ver /\ t.artifacts = purger[p].artifacts /\ t.pc = "batch"
    BY <1>0 DEF Sweep, PurgeStage, TypeOK
  <2>3. purger[p].pc = "lock" /\ purger[p].artifacts
    BY <1>0, <1>2 DEF BatchBegin, PurgeAt, SweepCurrent
  <2>4. SweepCurrent(t)
    BY <1>0, <1>2, <2>2, <2>3, NextStage DEF Current
  <2> QED BY <1>0, <2>1, <2>2, <2>4, SameRow, MovesTo DEF RowKept
<1>3. CASE BatchCommit(p)
  <2>1. PICK x \in {"count", "lock"} : Proceed(p, [purger[p] EXCEPT !.batch = {}, !.pc = x])
    BY <1>3 DEF BatchCommit
  <2> DEFINE t == [purger[p] EXCEPT !.batch = {}, !.pc = x]
  <2>2. t \in Sweep /\ t.ver = purger[p].ver /\ t.artifacts = purger[p].artifacts /\ t.pc = x
    BY <1>0 DEF Sweep, PurgeStage
  <2>3. purger[p].pc = "batch" /\ purger[p].artifacts
    BY <1>0, <1>3 DEF BatchCommit, PurgeAt, SweepCurrent
  <2>4. SweepCurrent(t)
    BY <1>0, <2>2, <2>3, NextStage
  <2> QED BY <1>0, <2>1, <2>2, <2>4, SameRow, MovesTo DEF RowKept
<1>4. CASE CheckEmpty(p) /\ rows = {}
  <2> DEFINE t == [purger[p] EXCEPT !.pc = "mark"]
  <2>1. Proceed(p, t)
    BY <1>4 DEF CheckEmpty
  <2>2. t \in Sweep /\ t.ver = purger[p].ver /\ t.artifacts = purger[p].artifacts /\ t.pc = "mark"
    BY <1>0 DEF Sweep, PurgeStage
  <2>3. purger[p].pc = "count" /\ purger[p].artifacts
    BY <1>0, <1>4 DEF CheckEmpty, PurgeAt, SweepCurrent
  <2>4. SweepCurrent(t)
    BY <1>0, <2>2, <2>3, NextStage
  <2> QED BY <1>0, <2>1, <2>2, <2>4, SameRow, MovesTo DEF RowKept
<1>5. CASE CheckEmpty(p) /\ rows # {}
  <2> DEFINE t == [purger[p] EXCEPT !.pc = "failure", !.failed = TRUE]
  <2>1. Proceed(p, t)
    BY <1>5 DEF CheckEmpty
  <2>2. t \in Sweep /\ t.ver = purger[p].ver /\ t.artifacts = purger[p].artifacts /\ t.pc = "failure"
    BY <1>0 DEF Sweep, PurgeStage
  <2>3. purger[p].pc = "count"
    BY <1>5 DEF CheckEmpty, PurgeAt
  <2>4. SweepCurrent(t)
    BY <1>0, <2>2, <2>3, NextStage
  <2> QED BY <1>0, <2>1, <2>2, <2>4, SameRow, MovesTo DEF RowKept
<1> QED BY <1>1, <1>2, <1>3, <1>4, <1>5

-----------------------------------------------------------------------------
(* Steps of a sweep that may write the row. *)

(* After a write that names the version read, the sweep goes on with the     *)
(* next version of a row that has the same dates.                            *)
LEMMA WrittenSound ==
  ASSUME TypeOK, NEW s \in Sweep, SweepCurrent(s), s.ver = row.rv, s.pc # "idle",
         NEW t \in Sweep, t.ver = s.ver + 1, t.artifacts = s.artifacts,
         t.pc # "batch", t.pc \in {"lock", "count", "mark"} => t.artifacts,
         row'.off = row.off, row'.rv = row.rv + 1, now' = now
  PROVE  SweepCurrent(t)'
<1>1. row \in LedgerRow
  BY DEF TypeOK
<1> QED BY <1>1, RowFields, SweepFields DEF SweepCurrent

(* A sweep whose version is older than the row may do what it likes, but for *)
(* a batch.                                                                  *)
LEMMA OlderSound ==
  ASSUME TypeOK, NEW s \in Sweep, SweepCurrent(s), s.pc # "idle",
         NEW t, t.ver = s.ver, t.artifacts = s.artifacts, t.pc = "failure" \/ t.pc = "lock",
         t.pc = "lock" => t.artifacts,
         row'.off = row.off, row'.rv = row.rv + 1, now' = now
  PROVE  SweepCurrent(t)'
<1>1. row \in LedgerRow
  BY DEF TypeOK
<1> QED BY <1>1, RowFields, SweepFields DEF SweepCurrent

LEMMA WriteMarks ==
  ASSUME TypeOK
  PROVE  /\ [row EXCEPT !.credentialsPurged = TRUE, !.attempts = 0] \in LedgerRow
         /\ [row EXCEPT !.credentialsPurged = TRUE, !.attempts = 0].off = row.off
         /\ [row EXCEPT !.credentialsPurged = TRUE, !.attempts = 0].ret = row.ret
         /\ [row EXCEPT !.purged = TRUE, !.attempts = 0] \in LedgerRow
         /\ [row EXCEPT !.purged = TRUE, !.attempts = 0].off = row.off
         /\ [row EXCEPT !.purged = TRUE, !.attempts = 0].ret = row.ret
  BY DEF TypeOK, LedgerRow

LEMMA WrittenFields ==
  ASSUME NEW s \in Sweep
  PROVE  /\ Written(s) \in Sweep /\ Written(s).ver = s.ver + 1
         /\ Written(s).artifacts = s.artifacts
<1>1. Written(s).ver = s.ver + 1 /\ Written(s).artifacts = s.artifacts
  BY DEF Written, Sweep
<1>2. s.ver + 1 \in Nat
  BY SweepFields
<1>3. Written(s) \in Sweep
  BY <1>2 DEF Written, Sweep
<1> QED BY <1>1, <1>3

LEMMA MarkCredentialsMoves ==
  ASSUME TypeOK, SweepsCurrent, NEW p \in Purgers, MarkCredentialsPurged(p)
  PROVE  Moves(p) /\ RowKept
<1> DEFINE s == purger[p]
           w == Written(s)
<1>0. s \in Sweep /\ SweepCurrent(s) /\ now' = now /\ s.pc = "check" /\ RowFree
  BY DEF TypeOK, SweepsCurrent, MarkCredentialsPurged, tenantVars, PurgeAt
<1>1. CASE row.rv # s.ver
  BY <1>1, Rests DEF MarkCredentialsPurged, RowKept
<1>2. CASE row.rv = s.ver
  <2>1. WriteLedger([row EXCEPT !.credentialsPurged = TRUE, !.attempts = 0])
        /\ Proceed(p, AfterCredentials(w))
    BY <1>2 DEF MarkCredentialsPurged
  <2>2. row \in LedgerRow
    BY DEF TypeOK
  <2>3. RowKept /\ row'.off = row.off /\ row'.rv = row.rv + 1
    BY <1>0, <2>1, <2>2, WriteMarks, WriteKeeps
  <2>4. w \in Sweep /\ w.ver = s.ver + 1 /\ w.artifacts = s.artifacts
    BY <1>0, WrittenFields
  <2> HIDE DEF w
  <2>5. CASE w.artifacts
    <3>0. PICK t : t = [w EXCEPT !.pc = "lock"]
      OBVIOUS
    <3>1. Proceed(p, t)
      BY <3>0, <2>1, <2>5 DEF AfterCredentials
    <3>2. t \in Sweep /\ t.ver = s.ver + 1 /\ t.artifacts = s.artifacts /\ t.pc = "lock"
      BY <3>0, <2>4 DEF Sweep, PurgeStage
    <3>3. SweepCurrent(t)'
      BY <1>0, <1>2, <2>3, <2>4, <2>5, <3>2, WrittenSound
    <3> QED BY <2>3, <3>1, <3>2, <3>3, MovesTo
  <2>6. CASE ~w.artifacts /\ w.failed
    <3>0. PICK t : t = [w EXCEPT !.pc = "failure"]
      OBVIOUS
    <3>1. Proceed(p, t)
      BY <3>0, <2>1, <2>6 DEF AfterCredentials, AfterArtifacts
    <3>2. t \in Sweep /\ t.ver = s.ver + 1 /\ t.artifacts = s.artifacts /\ t.pc = "failure"
      BY <3>0, <2>4 DEF Sweep, PurgeStage
    <3>3. SweepCurrent(t)'
      BY <1>0, <1>2, <2>3, <3>2, WrittenSound
    <3> QED BY <2>3, <3>1, <3>2, <3>3, MovesTo
  <2>7. CASE ~w.artifacts /\ ~w.failed
    BY <2>1, <2>3, <2>7, Rests DEF AfterCredentials, AfterArtifacts
  <2> QED BY <2>5, <2>6, <2>7
<1> QED BY <1>1, <1>2

LEMMA MarkPurgedMoves ==
  ASSUME TypeOK, SweepsCurrent, NEW p \in Purgers, MarkPurged(p)
  PROVE  Moves(p) /\ RowKept
<1> DEFINE s == purger[p]
           w == Written(s)
<1>0. s \in Sweep /\ SweepCurrent(s) /\ now' = now /\ s.pc = "mark" /\ RowFree
  BY DEF TypeOK, SweepsCurrent, MarkPurged, tenantVars, PurgeAt
<1>1. CASE row.rv # s.ver
  BY <1>1, Rests DEF MarkPurged, RowKept
<1>2. CASE row.rv = s.ver
  <2>1. WriteLedger([row EXCEPT !.purged = TRUE, !.attempts = 0])
        /\ Proceed(p, AfterArtifacts(w))
    BY <1>2 DEF MarkPurged
  <2>2. row \in LedgerRow
    BY DEF TypeOK
  <2>3. RowKept /\ row'.off = row.off /\ row'.rv = row.rv + 1
    BY <1>0, <2>1, <2>2, WriteMarks, WriteKeeps
  <2>4. w \in Sweep /\ w.ver = s.ver + 1 /\ w.artifacts = s.artifacts
    BY <1>0, WrittenFields
  <2> HIDE DEF w
  <2>5. CASE w.failed
    <3>0. PICK t : t = [w EXCEPT !.pc = "failure"]
      OBVIOUS
    <3>1. Proceed(p, t)
      BY <3>0, <2>1, <2>5 DEF AfterArtifacts
    <3>2. t \in Sweep /\ t.ver = s.ver + 1 /\ t.artifacts = s.artifacts /\ t.pc = "failure"
      BY <3>0, <2>4 DEF Sweep, PurgeStage
    <3>3. SweepCurrent(t)'
      BY <1>0, <1>2, <2>3, <3>2, WrittenSound
    <3> QED BY <2>3, <3>1, <3>2, <3>3, MovesTo
  <2>6. CASE ~w.failed
    BY <2>1, <2>3, <2>6, Rests DEF AfterArtifacts
  <2> QED BY <2>5, <2>6
<1> QED BY <1>1, <1>2

LEMMA RecordFailureMoves ==
  ASSUME TypeOK, SweepsCurrent, NEW p \in Purgers, RecordFailure(p)
  PROVE  Moves(p) /\ RowKept
<1>0. purger[p] \in Sweep /\ RowFree /\ row \in LedgerRow /\ now \in Nat
  BY DEF TypeOK, RecordFailure
<1>1. Moves(p)
  BY Rests DEF RecordFailure
<1>2. CASE row.rv # purger[p].ver
  BY <1>1, <1>2 DEF RecordFailure, RowKept
<1>3. CASE row.rv = purger[p].ver
  <2> DEFINE n == purger[p].attempts + 1
  <2>1. PICK wait \in 1..MaxBackoff :
          WriteLedger([row EXCEPT !.attempts = n, !.next = Lesser(now + wait, Horizon)])
    BY <1>3 DEF RecordFailure
  <2>2. n \in Nat /\ Lesser(now + wait, Horizon) \in Nat
    BY <1>0, Constants, SweepFields DEF Lesser
  <2> HIDE DEF n
  <2> DEFINE r == [row EXCEPT !.attempts = n, !.next = Lesser(now + wait, Horizon)]
  <2>3. r \in LedgerRow /\ r.off = row.off /\ r.ret = row.ret
    BY <1>0, <2>2 DEF LedgerRow
  <2> QED BY <1>0, <1>1, <2>1, <2>3, WriteKeeps
<1> QED BY <1>2, <1>3

LEMMA CredentialsFailMoves ==
  ASSUME TypeOK, SweepsCurrent, NEW p \in Purgers, CredentialsFail(p)
  PROVE  Moves(p) /\ RowKept
<1> DEFINE s == purger[p]
           f == [s EXCEPT !.failed = TRUE, !.todo = {}]
<1>0. s \in Sweep /\ SweepCurrent(s) /\ now' = now /\ s.pc \in {"check", "delete"}
  BY DEF TypeOK, SweepsCurrent, CredentialsFail, tenantVars
<1>1. PICK stage \in {"lock", "failure"} :
        /\ stage = "lock" => s.artifacts
        /\ Proceed(p, [f EXCEPT !.pc = stage])
  BY <1>0 DEF CredentialsFail, Sweep
<1>2. PICK t : t = [f EXCEPT !.pc = stage]
  OBVIOUS
<1>3. t \in Sweep /\ t.ver = s.ver /\ t.artifacts = s.artifacts /\ t.pc = stage
  BY <1>0, <1>1, <1>2 DEF Sweep, PurgeStage
<1>4. CASE row' = row
  <2>1. SweepCurrent(t)
    BY <1>0, <1>1, <1>3, NextStage
  <2> QED BY <1>0, <1>1, <1>2, <1>3, <1>4, <2>1, SameRow, MovesTo DEF RowKept
<1>5. CASE RowFree /\ WriteLedger([row EXCEPT !.credentialsPurged = TRUE, !.attempts = 0])
  <2>1. RowKept /\ row'.off = row.off /\ row'.rv = row.rv + 1
    BY <1>5, WriteMarks, WriteKeeps DEF TypeOK
  <2>2. SweepCurrent(t)'
    BY <1>0, <1>1, <1>3, <2>1, OlderSound
  <2> QED BY <1>1, <1>2, <1>3, <2>1, <2>2, MovesTo
<1> QED BY <1>4, <1>5 DEF CredentialsFail

LEMMA ArtifactsFailMoves ==
  ASSUME TypeOK, SweepsCurrent, NEW p \in Purgers, ArtifactsFail(p)
  PROVE  Moves(p) /\ RowKept
<1> DEFINE s == purger[p]
<1>0. s \in Sweep /\ SweepCurrent(s) /\ now' = now
      /\ s.pc \in {"lock", "batch", "count", "mark"}
  BY DEF TypeOK, SweepsCurrent, ArtifactsFail, tenantVars
<1>1. PICK t : t = [s EXCEPT !.pc = "failure", !.failed = TRUE, !.batch = {}]
  OBVIOUS
<1>2. Proceed(p, t)
  BY <1>1 DEF ArtifactsFail
<1>3. t \in Sweep /\ t.ver = s.ver /\ t.artifacts = s.artifacts /\ t.pc = "failure"
  BY <1>0, <1>1 DEF Sweep, PurgeStage
<1>4. CASE row' = row
  <2>1. SweepCurrent(t)
    BY <1>0, <1>3, NextStage
  <2> QED BY <1>0, <1>2, <1>3, <1>4, <2>1, SameRow, MovesTo DEF RowKept
<1>5. CASE RowFree /\ WriteLedger([row EXCEPT !.purged = TRUE, !.attempts = 0])
  <2>1. RowKept /\ row'.off = row.off /\ row'.rv = row.rv + 1
    BY <1>5, WriteMarks, WriteKeeps DEF TypeOK
  <2>2. SweepCurrent(t)'
    BY <1>0, <1>3, <2>1, OlderSound
  <2> QED BY <1>2, <1>3, <2>1, <2>2, MovesTo
<1> QED BY <1>4, <1>5 DEF ArtifactsFail

-----------------------------------------------------------------------------
(* The invariant. *)

(* The dates of the ledger are as the events heard make them. *)
DatesSound == ReturnIsNewer /\ NoRowNoDates /\ ReturnsAreCovered

(* What every step of a sweep does. *)
SweepOrFailure(p) ==
    SweepStep(p) \/ CredentialsFail(p) \/ ArtifactsFail(p) \/ Stop(p)

LEMMA SweepMoves ==
  ASSUME TypeOK, SweepsCurrent, NEW p \in Purgers, SweepOrFailure(p)
  PROVE  Moves(p) /\ RowKept
<1>1. CASE Stop(p)
  BY <1>1, Rests DEF Stop, RowKept
<1> QED BY <1>1, TickMoves, CredentialMoves, BatchMoves, MarkCredentialsMoves,
           MarkPurgedMoves, RecordFailureMoves, CredentialsFailMoves,
           ArtifactsFailMoves DEF SweepOrFailure, SweepStep

LEMMA SweepKeepsTenant ==
  ASSUME TypeOK, NEW p \in Purgers, SweepOrFailure(p)
  PROVE  /\ UNCHANGED tenantVars
         /\ rows' \in SUBSET rows /\ secrets' \in SUBSET secrets /\ errors' \in Nat
<1>1. CASE SweepStep(p)
  BY <1>1 DEF SweepStep, TypeOK, tenantVars, Tick, CheckSecret, DeleteSecret,
     MarkCredentialsPurged, BatchBegin, BatchCommit, CheckEmpty, MarkPurged,
     RecordFailure
<1>2. CASE CredentialsFail(p) \/ ArtifactsFail(p) \/ Stop(p)
  BY <1>2 DEF TypeOK, tenantVars, CredentialsFail, ArtifactsFail, Stop, CountError
<1> QED BY <1>1, <1>2 DEF SweepOrFailure

(* The version of the row grew, with the same dates, and no batch is open:   *)
(* the sweeps that do not move are sound.                                    *)
LEMMA OthersSound ==
  ASSUME TypeOK, SweepsCurrent, RowKept, now' = now, NEW q \in Purgers
  PROVE  SweepCurrent(purger[q])'  \/ purger'[q] # purger[q]
<1>1. purger[q] \in Sweep /\ SweepCurrent(purger[q]) /\ row \in LedgerRow
  BY DEF TypeOK, SweepsCurrent
<1>2. PICK s : s = purger[q]
  OBVIOUS
<1>3. SweepCurrent(s)'
  <2>1. CASE row' = row
    BY <1>1, <1>2, <2>1, SameRow
  <2>2. CASE row' # row
    BY <1>1, <1>2, <2>2, RowFields, SweepFields DEF RowKept, RowFree, SweepCurrent
  <2> QED BY <2>1, <2>2
<1> QED BY <1>2, <1>3

LEMMA SweepInv ==
  ASSUME RetentionInv, NEW p \in Purgers, SweepOrFailure(p)
  PROVE  RetentionInv'
<1>0. TypeOK /\ SweepsCurrent /\ DatesSound
      /\ row \in LedgerRow /\ purger \in [Purgers -> Sweep]
  BY DEF RetentionInv, TypeOK, DatesSound
<1>1. Moves(p) /\ RowKept
  BY <1>0, SweepMoves
<1>2. /\ now' = now /\ sent' = sent /\ heard' = heard /\ fresh' = fresh
      /\ rows' \in SUBSET rows /\ secrets' \in SUBSET secrets /\ errors' \in Nat
  BY <1>0, SweepKeepsTenant DEF tenantVars
<1>3. row' \in LedgerRow /\ row'.off = row.off /\ row'.ret = row.ret
  BY <1>0, <1>1 DEF RowKept
<1>4. PICK s : s \in Sweep /\ SweepCurrent(s)' /\ purger' = [purger EXCEPT ![p] = s]
  BY <1>1 DEF Moves
<1>5. TypeOK'
  BY <1>0, <1>2, <1>3, <1>4 DEF TypeOK
<1>6. SweepsCurrent'
  <2> SUFFICES ASSUME NEW q \in Purgers PROVE SweepCurrent(purger[q])'
    BY DEF SweepsCurrent
  <2>1. CASE q = p
    BY <1>0, <1>4, <2>1
  <2>2. CASE q # p
    BY <1>0, <1>1, <1>2, <1>4, <2>2, OthersSound
  <2> QED BY <2>1, <2>2
<1>7. DatesSound'
  <2>1. row'.rv = 0 => row.rv = 0
    BY <1>0, <1>1, RowFields DEF RowKept
  <2> QED BY <1>0, <1>2, <1>3, <2>1
          DEF DatesSound, ReturnIsNewer, NoRowNoDates, ReturnsAreCovered
<1> QED BY <1>5, <1>6, <1>7 DEF RetentionInv, DatesSound

-----------------------------------------------------------------------------
(* An event writes the row with a new version; no batch is open then. *)

LEMMA OffboardedRow ==
  ASSUME TypeOK, NEW at \in Nat \ {0}, RecordOffboarded(at)
  PROVE  \/ row' = row /\ ~(row.rv = 0 \/ (row.ret # Never /\ row.ret < at))
         \/ /\ row' \in LedgerRow /\ row'.rv = row.rv + 1
            /\ row'.off = at /\ row'.ret = Never
            /\ row.rv = 0 \/ (row.ret # Never /\ row.ret < at)
<1>1. row \in LedgerRow
  BY DEF TypeOK
<1>2. row.rv + 1 \in Nat
  BY <1>1, RowFields
<1>3. [NoLedgerRow EXCEPT !.off = at, !.next = at, !.rv = row.rv + 1] \in LedgerRow
  BY <1>2 DEF NoLedgerRow, LedgerRow, Never
<1>4. /\ [NoLedgerRow EXCEPT !.off = at, !.next = at, !.rv = row.rv + 1].rv = row.rv + 1
      /\ [NoLedgerRow EXCEPT !.off = at, !.next = at, !.rv = row.rv + 1].off = at
      /\ [NoLedgerRow EXCEPT !.off = at, !.next = at, !.rv = row.rv + 1].ret = Never
  BY DEF NoLedgerRow
<1> QED BY <1>3, <1>4 DEF RecordOffboarded

LEMMA ReturnedRow ==
  ASSUME TypeOK, NEW at \in Nat \ {0}, RecordReturned(at)
  PROVE  \/ row' = row /\ ~(row.off < at /\ row.ret < at)
         \/ /\ row' \in LedgerRow /\ row'.rv = row.rv + 1
            /\ row'.off = row.off /\ row'.ret = at
            /\ row.off < at /\ row.ret < at
<1>1. row \in LedgerRow
  BY DEF TypeOK
<1>2. row.rv + 1 \in Nat /\ (IF row.rv = 0 THEN at ELSE row.next) \in Nat
  BY <1>1, RowFields
<1> DEFINE r == [row EXCEPT !.ret = at, !.rv = @ + 1,
                            !.next = IF row.rv = 0 THEN at ELSE @]
<1>3. r \in LedgerRow /\ r.rv = row.rv + 1 /\ r.off = row.off /\ r.ret = at
  BY <1>1, <1>2 DEF LedgerRow
<1> QED BY <1>3 DEF RecordReturned

LEMMA DeliverDates ==
  ASSUME RetentionInv, NEW e \in sent, Deliver(e)
  PROVE  /\ row' \in LedgerRow
         /\ row' = row \/ row'.rv = row.rv + 1
         /\ DatesSound'
<1>1. /\ TypeOK /\ row \in LedgerRow /\ e.at \in Nat \ {0}
      /\ e.kind \in {"offboarded", "returned"} /\ \A x \in heard : x.at \in Nat \ {0}
      /\ ReturnIsNewer /\ NoRowNoDates /\ ReturnsAreCovered
  BY DEF RetentionInv, TypeOK, Event
<1>2. heard' = heard \cup {e}
  BY DEF Deliver
<1>3. CASE e.kind = "offboarded"
  <2>1. RecordOffboarded(e.at)
    BY <1>3 DEF Deliver
  <2>2. \A x \in heard' : x.kind = "returned" => x \in heard
    BY <1>2, <1>3
  <2>3. CASE row' = row
    BY <1>1, <2>2, <2>3 DEF ReturnIsNewer, NoRowNoDates, ReturnsAreCovered, DatesSound
  <2>4. CASE row' # row
    <3>1. /\ row' \in LedgerRow /\ row'.rv = row.rv + 1
          /\ row'.off = e.at /\ row'.ret = Never
          /\ row.rv = 0 \/ (row.ret # Never /\ row.ret < e.at)
      BY <1>1, <2>1, <2>4, OffboardedRow
    <3>2. ASSUME NEW x \in heard', x.kind = "returned"
          PROVE  x.at <= row'.off
      <4>1. x \in heard /\ x.at \in Nat \ {0} /\ (x.at <= row.off \/ x.at <= row.ret)
        BY <1>1, <2>2, <3>2 DEF ReturnsAreCovered
      <4>2. row.rv # 0
        BY <1>1, <4>1, RowFields DEF NoRowNoDates, Never
      <4> QED BY <1>1, <3>1, <4>1, <4>2, RowFields DEF ReturnIsNewer
    <3> QED BY <1>1, <3>1, <3>2, RowFields
            DEF ReturnIsNewer, NoRowNoDates, ReturnsAreCovered, DatesSound
  <2> QED BY <1>1, <2>1, <2>3, <2>4, OffboardedRow
<1>4. CASE e.kind = "returned"
  <2>1. RecordReturned(e.at)
    BY <1>4 DEF Deliver
  <2>2. CASE row' = row
    <3>1. e.at <= row.off \/ e.at <= row.ret
      BY <1>1, <2>1, <2>2, RowFields, ReturnedRow
    <3> QED BY <1>1, <1>2, <2>2, <3>1
            DEF ReturnIsNewer, NoRowNoDates, ReturnsAreCovered, DatesSound
  <2>3. CASE row' # row
    <3>1. /\ row' \in LedgerRow /\ row'.rv = row.rv + 1
          /\ row'.off = row.off /\ row'.ret = e.at
          /\ row.off < e.at /\ row.ret < e.at
      BY <1>1, <2>1, <2>3, ReturnedRow
    <3>2. ASSUME NEW x \in heard', x.kind = "returned"
          PROVE  x.at <= row'.off \/ x.at <= row'.ret
      BY <1>1, <1>2, <3>1, <3>2, RowFields DEF ReturnsAreCovered
    <3> QED BY <1>1, <3>1, <3>2, RowFields
            DEF ReturnIsNewer, NoRowNoDates, ReturnsAreCovered, DatesSound
  <2> QED BY <1>1, <2>1, <2>2, <2>3, ReturnedRow
<1> QED BY <1>1, <1>3, <1>4

LEMMA DeliverInv ==
  ASSUME RetentionInv, NEW e \in sent, Deliver(e)
  PROVE  RetentionInv'
<1>1. /\ row' \in LedgerRow
      /\ row' = row \/ row'.rv = row.rv + 1
      /\ DatesSound'
  BY DeliverDates
<1>2. TypeOK /\ SweepsCurrent /\ row \in LedgerRow /\ purger \in [Purgers -> Sweep]
  BY DEF RetentionInv, TypeOK
<1>3. /\ now' = now /\ purger' = purger /\ RowFree /\ heard' = heard \cup {e}
      /\ UNCHANGED <<sent, rows, fresh, secrets, errors>>
  BY DEF Deliver
<1>4. TypeOK'
  BY <1>1, <1>2, <1>3 DEF TypeOK
<1>5. SweepsCurrent'
  <2> SUFFICES ASSUME NEW q \in Purgers PROVE SweepCurrent(purger[q])'
    BY DEF SweepsCurrent
  <2>1. PICK s : s = purger[q]
    OBVIOUS
  <2>2. s \in Sweep /\ SweepCurrent(s) /\ s.pc # "batch"
    BY <1>2, <1>3, <2>1 DEF SweepsCurrent, RowFree
  <2>3. CASE row' = row
    BY <1>3, <2>1, <2>2, <2>3, SameRow
  <2>4. CASE row'.rv = row.rv + 1
    <3>1. SweepCurrent(s)'
      BY <1>2, <2>2, <2>4, RowFields, SweepFields DEF SweepCurrent
    <3> QED BY <1>3, <2>1, <3>1
  <2> QED BY <1>1, <2>3, <2>4
<1> QED BY <1>1, <1>4, <1>5 DEF RetentionInv, DatesSound

LEMMA AdvanceInv ==
  ASSUME RetentionInv, Advance
  PROVE  RetentionInv'
<1>1. TypeOK /\ SweepsCurrent /\ DatesSound /\ row \in LedgerRow /\ now \in Nat
      /\ purger \in [Purgers -> Sweep]
  BY DEF RetentionInv, TypeOK, DatesSound
<1>2. now' = now + 1 /\ UNCHANGED <<sent, heard, row, rows, fresh, secrets, purger, errors>>
  BY DEF Advance
<1>3. TypeOK' /\ DatesSound'
  BY <1>1, <1>2 DEF TypeOK, DatesSound, ReturnIsNewer, NoRowNoDates, ReturnsAreCovered
<1>4. SweepsCurrent'
  <2> SUFFICES ASSUME NEW q \in Purgers PROVE SweepCurrent(purger[q])'
    BY DEF SweepsCurrent
  <2>1. PICK s : s = purger[q]
    OBVIOUS
  <2>2. s \in Sweep /\ SweepCurrent(s)
    BY <1>1, <2>1 DEF SweepsCurrent
  <2>3. SweepCurrent(s)'
    BY <1>1, <1>2, <2>2, RowFields, Constants DEF SweepCurrent
  <2> QED BY <1>2, <2>1, <2>3
<1> QED BY <1>3, <1>4 DEF RetentionInv, DatesSound

(* The other steps of the tenant leave the ledger and the sweeps alone. *)
LEMMA TenantInv ==
  ASSUME RetentionInv, UNCHANGED <<now, heard, row, purger, errors>>,
         sent' \in SUBSET Event, sent \in SUBSET sent', rows' \in SUBSET Rows,
         fresh' \in SUBSET Rows, secrets' \in SUBSET Paths
  PROVE  RetentionInv'
  BY DEF RetentionInv, TypeOK, ReturnIsNewer, NoRowNoDates, ReturnsAreCovered,
     SweepsCurrent, SweepCurrent

LEMMA NextInv ==
  ASSUME RetentionInv, [Next]_vars
  PROVE  RetentionInv'
<1>0. TypeOK /\ now \in Nat \ {0}
  BY DEF RetentionInv, TypeOK
<1>1. CASE Advance
  BY <1>1, AdvanceInv
<1>2. ASSUME NEW kind \in {"offboarded", "returned"}, Occur(kind)
      PROVE  RetentionInv'
  <2>1. [kind |-> kind, at |-> now] \in Event
    BY <1>0 DEF Event
  <2> QED BY <1>0, <1>2, <2>1, TenantInv DEF Occur, TypeOK
<1>3. CASE CreateRow
  BY <1>0, <1>3, TenantInv DEF CreateRow, TypeOK
<1>4. CASE StoreSecret
  BY <1>0, <1>4, TenantInv DEF StoreSecret, TypeOK, tenantVars
<1>5. ASSUME NEW e \in sent, Deliver(e)
      PROVE  RetentionInv'
  BY <1>5, DeliverInv
<1>6. ASSUME NEW p \in Purgers, SweepOrFailure(p)
      PROVE  RetentionInv'
  BY <1>6, SweepInv
<1>7. CASE UNCHANGED vars
  BY <1>0, <1>7, TenantInv DEF TypeOK, vars
<1> QED BY <1>1, <1>2, <1>3, <1>4, <1>5, <1>6, <1>7
        DEF Next, TenantStep, SweepOrFailure

(* The invariant holds of every behaviour of the offboarding handler and the *)
(* sweeps: a sweep that holds a batch open works on the row as it is, and no *)
(* version it names is ahead of the row (TenantPurger, TenantRetentionRepo). *)
THEOREM RetentionInductive == Spec => []RetentionInv
<1>1. Init => RetentionInv
  <2> SUFFICES ASSUME Init PROVE RetentionInv
    OBVIOUS
  <2>1. NoLedgerRow \in LedgerRow /\ NoLedgerRow.ret = Never /\ NoLedgerRow.off = Never
    BY DEF NoLedgerRow, LedgerRow, Never
  <2>2. Resting \in Sweep /\ Resting.pc = "idle"
    BY DEF Resting, Sweep, PurgeStage
  <2>3. TypeOK
    BY <2>1, <2>2 DEF Init, TypeOK
  <2>4. SweepsCurrent
    BY <2>2 DEF Init, SweepsCurrent, SweepCurrent
  <2>5. ReturnIsNewer /\ NoRowNoDates /\ ReturnsAreCovered
    BY <2>1 DEF Init, ReturnIsNewer, NoRowNoDates, ReturnsAreCovered
  <2> QED BY <2>3, <2>4, <2>5 DEF RetentionInv
<1>2. RetentionInv /\ [Next]_vars => RetentionInv'
  BY NextInv
<1> QED BY <1>1, <1>2, PTL DEF Spec

(* A return that was heard stays in force against every offboarding that is  *)
(* not newer, however the events are ordered and repeated (upserts of        *)
(* tenant_retention.sql).                                                    *)
THEOREM ReturnsOutlive == Spec => []ReturnOutlivesOffboarding
<1>1. RetentionInv => ReturnOutlivesOffboarding
  <2> SUFFICES ASSUME RetentionInv, NEW e \in heard, e.kind = "returned", row.ret = Never
               PROVE  e.at <= row.off
    BY DEF ReturnOutlivesOffboarding
  <2>1. e.at \in Nat \ {0} /\ row \in LedgerRow
    BY DEF RetentionInv, TypeOK, Event
  <2> QED BY <2>1, RowFields DEF RetentionInv, ReturnsAreCovered, Never
<1> QED BY <1>1, RetentionInductive, PTL

(* The sweeps delete rows only while the recorded offboarding is in force    *)
(* and its period has passed, whatever the other replicas and the tenant do  *)
(* (PurgeBatch, LockCurrentTenantRetention).                                 *)
THEOREM RowsDeletedWhenDue == Spec => RowsGoOnlyWhenDue
<1> DEFINE DueNow == /\ row.off # Never /\ row.ret = Never
                     /\ row.off + ArtifactRetention <= now
<1>1. RetentionInv /\ [Next]_vars => [~(rows \subseteq rows') => DueNow]_rows
  <2> SUFFICES ASSUME RetentionInv, Next, ~(rows \subseteq rows')
               PROVE  DueNow
    BY DEF vars
  <2>1. ASSUME NEW p \in Purgers, purger[p].pc = "batch"
        PROVE  DueNow
    BY <2>1 DEF RetentionInv, SweepsCurrent, SweepCurrent
  <2>2. PICK p \in Purgers : BatchCommit(p) \/ (ArtifactsFail(p) /\ PurgeAt(p, "batch"))
    BY DEF Next, TenantStep, SweepStep, Advance, Occur, CreateRow, StoreSecret,
       Deliver, Tick, CheckSecret, DeleteSecret, MarkCredentialsPurged, BatchBegin,
       CheckEmpty, MarkPurged, RecordFailure, CredentialsFail, ArtifactsFail, Stop,
       tenantVars
  <2> QED BY <2>1, <2>2 DEF BatchCommit, PurgeAt
<1> QED BY <1>1, RetentionInductive, PTL DEF Spec, RowsGoOnlyWhenDue

-----------------------------------------------------------------------------
(* What is marked purged is empty.  A step of p's sweep leaves the row's     *)
(* offboarding and the events alone and adds nothing to delete; the sweeps   *)
(* of the others name a version that is the row's no more, or the row is as  *)
(* it was.                                                                   *)

CameBackKept == CameBack' = CameBack /\ (row'.off = Never <=> row.off = Never)

LEMMA SameOffboarding ==
  ASSUME row'.off = row.off, sent' = sent
  PROVE  CameBackKept
  BY DEF CameBackKept, CameBack

(* A sweep that goes on with the version it read. *)
LEMMA EmptiedNext ==
  ASSUME TypeOK, NEW s \in Sweep, SweepEmptied(s), s.pc # "idle", s.ver <= row.rv,
         CameBackKept, rows' \subseteq rows, secrets' \subseteq secrets,
         row' = row \/ row'.rv = row.rv + 1,
         NEW t, t.ver = s.ver,
         t.pc \in {"check", "delete"} =>
            /\ s.pc \in {"check", "delete"}
            /\ secrets \subseteq s.todo => secrets' \subseteq t.todo,
         t.pc = "mark" => s.pc = "mark" \/ rows = {}
  PROVE  SweepEmptied(t)'
<1>1. row.rv \in Nat /\ s.ver \in Nat
  BY RowFields, SweepFields DEF TypeOK
<1>2. CASE row' = row
  BY <1>2 DEF SweepEmptied, CameBackKept
<1>3. CASE row'.rv = row.rv + 1
  BY <1>1, <1>3 DEF SweepEmptied
<1> QED BY <1>2, <1>3

(* A sweep that goes on with the version it wrote. *)
LEMMA EmptiedWritten ==
  ASSUME NEW s \in Sweep, SweepEmptied(s), s.pc # "idle", s.ver = row.rv, CameBackKept,
         NEW t, t.pc \notin {"check", "delete", "mark"}
  PROVE  SweepEmptied(t)'
  BY DEF SweepEmptied, CameBackKept

LEMMA RestingEmptied == SweepEmptied(Resting)'
  BY DEF Resting, SweepEmptied

(* What a mark in the row needs. *)
MarksAreDue ==
    /\ row'.purged => row.purged \/ (row.off # Never /\ (CameBack \/ rows = {}))
    /\ row'.credentialsPurged =>
          row.credentialsPurged \/ (row.off # Never /\ (CameBack \/ secrets = {}))

(* The sweep of p moves to a record that is emptied as it must be. *)
Empties(p) == SweepEmptied(purger[p])' /\ MarksAreDue

LEMMA EmptiesTo ==
  ASSUME TypeOK, NEW p \in Purgers, NEW t, Proceed(p, t), SweepEmptied(t)', MarksAreDue
  PROVE  Empties(p)
<1>1. purger'[p] = t
  BY DEF Proceed, TypeOK
<1> QED BY <1>1 DEF Empties, SweepEmptied

(* A step that leaves the row alone marks nothing. *)
LEMMA NothingMarked ==
  ASSUME row' = row
  PROVE  MarksAreDue
  BY DEF MarksAreDue

LEMMA RestsEmptied ==
  ASSUME TypeOK, NEW p \in Purgers, Proceed(p, Resting), MarksAreDue
  PROVE  Empties(p)
  BY EmptiesTo, RestingEmptied

LEMMA TickEmpties ==
  ASSUME TypeOK, NEW p \in Purgers, Tick(p)
  PROVE  Empties(p)
<1>1. PICK s : s = [Resting EXCEPT !.ver = row.rv, !.attempts = row.attempts,
                                   !.credentials = CredentialsDue, !.artifacts = ArtifactsDue]
  OBVIOUS
<1>2. /\ Proceed(p, IF CredentialsDue THEN [s EXCEPT !.pc = "check", !.todo = Paths]
                    ELSE AfterCredentials(s))
      /\ row' = row /\ secrets' = secrets /\ row.off # Never
  BY <1>1 DEF Tick, Due, CredentialsDue, ArtifactsDue
<1>3. MarksAreDue
  BY <1>2, NothingMarked
<1>4. CASE CredentialsDue
  <2>1. PICK t : t = [s EXCEPT !.pc = "check", !.todo = Paths]
    OBVIOUS
  <2>2. t.pc = "check" /\ t.todo = Paths
    BY <1>1, <2>1 DEF Resting
  <2>3. SweepEmptied(t)'
    BY <1>2, <2>2 DEF SweepEmptied, TypeOK
  <2> QED BY <1>2, <1>3, <1>4, <2>1, <2>3, EmptiesTo
<1>5. CASE ~CredentialsDue
  <2>1. s.artifacts /\ s.artifacts = ArtifactsDue
    BY <1>1, <1>5 DEF Tick, Due, Resting
  <2>2. PICK t : t = [s EXCEPT !.pc = "lock"]
    OBVIOUS
  <2>3. t.pc = "lock" /\ Proceed(p, t)
    BY <1>1, <1>2, <1>5, <2>1, <2>2 DEF AfterCredentials, Resting
  <2>4. SweepEmptied(t)'
    BY <1>2, <2>3 DEF SweepEmptied
  <2> QED BY <1>3, <2>3, <2>4, EmptiesTo
<1> QED BY <1>4, <1>5

(* What holds of the sweep of p at each of its other steps. *)
LEMMA Working ==
  ASSUME PurgeInv, NEW p \in Purgers, SweepOrFailure(p), purger[p].pc # "idle"
  PROVE  /\ TypeOK /\ purger[p] \in Sweep /\ SweepEmptied(purger[p])
         /\ purger[p].ver <= row.rv
         /\ CameBackKept /\ rows' \subseteq rows /\ secrets' \subseteq secrets
         /\ row' = row \/ row'.rv = row.rv + 1
<1>1. TypeOK /\ SweepsCurrent /\ purger[p] \in Sweep
  BY DEF PurgeInv, RetentionInv, TypeOK
<1>2. RowKept
  BY <1>1, SweepMoves
<1>3. sent' = sent /\ rows' \subseteq rows /\ secrets' \subseteq secrets
  BY <1>1, SweepKeepsTenant DEF tenantVars
<1>4. CameBackKept /\ (row' = row \/ row'.rv = row.rv + 1)
  BY <1>2, <1>3, SameOffboarding DEF RowKept
<1> QED BY <1>1, <1>3, <1>4 DEF PurgeInv, SweepsEmptied, SweepsCurrent, SweepCurrent

LEMMA CredentialEmpties ==
  ASSUME PurgeInv, NEW p \in Purgers, CheckSecret(p) \/ DeleteSecret(p)
  PROVE  Empties(p)
<1> DEFINE s == purger[p]
<1>1. SweepOrFailure(p) /\ s.pc \in {"check", "delete"} /\ row' = row
  BY DEF SweepOrFailure, SweepStep, CheckSecret, DeleteSecret, PurgeAt
<1>2. /\ TypeOK /\ s \in Sweep /\ SweepEmptied(s) /\ s.ver <= row.rv
      /\ CameBackKept /\ rows' \subseteq rows /\ secrets' \subseteq secrets
  BY <1>1, Working
<1>3. MarksAreDue
  BY <1>1, NothingMarked
<1>4. CASE Proceed(p, Resting)
  BY <1>2, <1>3, <1>4, RestsEmptied
<1>5. CASE Proceed(p, [s EXCEPT !.pc = "delete"])
  <2>1. PICK t : t = [s EXCEPT !.pc = "delete"]
    OBVIOUS
  <2>2. t.pc = "delete" /\ t.ver = s.ver /\ t.todo = s.todo
    BY <1>2, <2>1 DEF Sweep
  <2>3. SweepEmptied(t)'
    BY <1>1, <1>2, <2>2, EmptiedNext
  <2> QED BY <1>2, <1>3, <1>5, <2>1, <2>3, EmptiesTo
<1>6. ASSUME NEW x, secrets' = secrets \ {x},
             Proceed(p, [s EXCEPT !.pc = "check", !.todo = @ \ {x}])
      PROVE  Empties(p)
  <2>1. PICK t : t = [s EXCEPT !.pc = "check", !.todo = @ \ {x}]
    OBVIOUS
  <2>2. t.pc = "check" /\ t.ver = s.ver /\ t.todo = s.todo \ {x}
    BY <1>2, <2>1 DEF Sweep
  <2>3. SweepEmptied(t)'
    BY <1>1, <1>2, <1>6, <2>2, EmptiedNext
  <2> QED BY <1>2, <1>3, <1>6, <2>1, <2>3, EmptiesTo
<1> QED BY <1>4, <1>5, <1>6 DEF CheckSecret, DeleteSecret

LEMMA BatchEmpties ==
  ASSUME PurgeInv, NEW p \in Purgers, BatchBegin(p) \/ BatchCommit(p) \/ CheckEmpty(p)
  PROVE  Empties(p)
<1> DEFINE s == purger[p]
<1>1. SweepOrFailure(p) /\ s.pc \in {"lock", "batch", "count"} /\ row' = row
  BY DEF SweepOrFailure, SweepStep, BatchBegin, BatchCommit, CheckEmpty, PurgeAt
<1>2. /\ TypeOK /\ s \in Sweep /\ SweepEmptied(s) /\ s.ver <= row.rv
      /\ CameBackKept /\ rows' \subseteq rows /\ secrets' \subseteq secrets
  BY <1>1, Working
<1>3. MarksAreDue
  BY <1>1, NothingMarked
<1>4. CASE Proceed(p, Resting)
  BY <1>2, <1>3, <1>4, RestsEmptied
<1>5. ASSUME NEW t, Proceed(p, t), t.ver = s.ver,
             t.pc \in {"batch", "count", "lock", "failure"} \/ (t.pc = "mark" /\ rows = {})
      PROVE  Empties(p)
  <2>1. SweepEmptied(t)'
    BY <1>1, <1>2, <1>5, EmptiedNext
  <2> QED BY <1>2, <1>3, <1>5, <2>1, EmptiesTo
<1>6. ASSUME NEW b, Proceed(p, [s EXCEPT !.pc = "batch", !.batch = b])
      PROVE  Empties(p)
  <2>1. PICK t : t = [s EXCEPT !.pc = "batch", !.batch = b]
    OBVIOUS
  <2>2. t.ver = s.ver /\ t.pc = "batch"
    BY <1>2, <2>1 DEF Sweep
  <2> QED BY <1>5, <1>6, <2>1, <2>2
<1>7. ASSUME NEW x \in {"count", "lock"}, Proceed(p, [s EXCEPT !.batch = {}, !.pc = x])
      PROVE  Empties(p)
  <2>1. PICK t : t = [s EXCEPT !.batch = {}, !.pc = x]
    OBVIOUS
  <2>2. t.ver = s.ver /\ t.pc = x
    BY <1>2, <2>1 DEF Sweep
  <2> QED BY <1>5, <1>7, <2>1, <2>2
<1>8. CASE rows = {} /\ Proceed(p, [s EXCEPT !.pc = "mark"])
  <2>1. PICK t : t = [s EXCEPT !.pc = "mark"]
    OBVIOUS
  <2>2. t.ver = s.ver /\ t.pc = "mark"
    BY <1>2, <2>1 DEF Sweep
  <2> QED BY <1>5, <1>8, <2>1, <2>2
<1>9. CASE Proceed(p, [s EXCEPT !.pc = "failure", !.failed = TRUE])
  <2>1. PICK t : t = [s EXCEPT !.pc = "failure", !.failed = TRUE]
    OBVIOUS
  <2>2. t.ver = s.ver /\ t.pc = "failure"
    BY <1>2, <2>1 DEF Sweep
  <2> QED BY <1>5, <1>9, <2>1, <2>2
<1> QED BY <1>4, <1>6, <1>7, <1>8, <1>9 DEF BatchBegin, BatchCommit, CheckEmpty

(* The writes of a mark, and what they leave. *)
LEMMA MarksWritten ==
  ASSUME row \in LedgerRow
  PROVE  /\ WriteLedger([row EXCEPT !.credentialsPurged = TRUE, !.attempts = 0])
               => row'.purged = row.purged
         /\ WriteLedger([row EXCEPT !.purged = TRUE, !.attempts = 0])
               => row'.credentialsPurged = row.credentialsPurged
         /\ \A n, x : WriteLedger([row EXCEPT !.attempts = n, !.next = x])
               => /\ row'.purged = row.purged
                  /\ row'.credentialsPurged = row.credentialsPurged
  BY DEF WriteLedger, LedgerRow

LEMMA MarkCredentialsEmpties ==
  ASSUME PurgeInv, NEW p \in Purgers, MarkCredentialsPurged(p)
  PROVE  Empties(p)
<1> DEFINE s == purger[p]
           w == Written(s)
<1>1. SweepOrFailure(p) /\ s.pc = "check" /\ s.todo = {}
  BY DEF SweepOrFailure, SweepStep, MarkCredentialsPurged, PurgeAt
<1>2. /\ TypeOK /\ s \in Sweep /\ SweepEmptied(s) /\ CameBackKept /\ row \in LedgerRow
  BY <1>1, Working DEF TypeOK
<1>3. CASE row.rv # s.ver
  BY <1>2, <1>3, NothingMarked, RestsEmptied DEF MarkCredentialsPurged
<1>4. CASE row.rv = s.ver
  <2>1. /\ WriteLedger([row EXCEPT !.credentialsPurged = TRUE, !.attempts = 0])
        /\ Proceed(p, AfterCredentials(w))
    BY <1>4 DEF MarkCredentialsPurged
  <2>2. MarksAreDue
    BY <1>1, <1>2, <1>4, <2>1, MarksWritten DEF MarksAreDue, SweepEmptied
  <2>3. w \in Sweep
    BY <1>2, WrittenFields
  <2> HIDE DEF w
  <2>4. ASSUME NEW x \in {"lock", "failure"}, Proceed(p, [w EXCEPT !.pc = x])
        PROVE  Empties(p)
    <3>1. PICK t : t = [w EXCEPT !.pc = x]
      OBVIOUS
    <3>2. t.pc = x
      BY <2>3, <3>1 DEF Sweep
    <3>3. SweepEmptied(t)'
      BY <1>1, <1>2, <1>4, <3>2, EmptiedWritten
    <3> QED BY <1>2, <2>2, <2>4, <3>1, <3>3, EmptiesTo
  <2>5. CASE Proceed(p, Resting)
    BY <1>2, <2>2, <2>5, RestsEmptied
  <2> QED BY <2>1, <2>4, <2>5 DEF AfterCredentials, AfterArtifacts
<1> QED BY <1>3, <1>4

LEMMA MarkPurgedEmpties ==
  ASSUME PurgeInv, NEW p \in Purgers, MarkPurged(p)
  PROVE  Empties(p)
<1> DEFINE s == purger[p]
           w == Written(s)
<1>1. SweepOrFailure(p) /\ s.pc = "mark"
  BY DEF SweepOrFailure, SweepStep, MarkPurged, PurgeAt
<1>2. TypeOK /\ s \in Sweep /\ SweepEmptied(s) /\ CameBackKept /\ row \in LedgerRow
  BY <1>1, Working DEF TypeOK
<1>3. CASE row.rv # s.ver
  BY <1>2, <1>3, NothingMarked, RestsEmptied DEF MarkPurged
<1>4. CASE row.rv = s.ver
  <2>1. /\ WriteLedger([row EXCEPT !.purged = TRUE, !.attempts = 0])
        /\ Proceed(p, AfterArtifacts(w))
    BY <1>4 DEF MarkPurged
  <2>2. MarksAreDue
    BY <1>1, <1>2, <1>4, <2>1, MarksWritten DEF MarksAreDue, SweepEmptied
  <2>3. w \in Sweep
    BY <1>2, WrittenFields
  <2> HIDE DEF w
  <2>4. CASE Proceed(p, [w EXCEPT !.pc = "failure"])
    <3>1. PICK t : t = [w EXCEPT !.pc = "failure"]
      OBVIOUS
    <3>2. t.pc = "failure"
      BY <2>3, <3>1 DEF Sweep
    <3>3. SweepEmptied(t)'
      BY <1>1, <1>2, <1>4, <3>2, EmptiedWritten
    <3> QED BY <1>2, <2>2, <2>4, <3>1, <3>3, EmptiesTo
  <2>5. CASE Proceed(p, Resting)
    BY <1>2, <2>2, <2>5, RestsEmptied
  <2> QED BY <2>1, <2>4, <2>5 DEF AfterArtifacts
<1> QED BY <1>3, <1>4

LEMMA RecordFailureEmpties ==
  ASSUME PurgeInv, NEW p \in Purgers, RecordFailure(p)
  PROVE  Empties(p)
<1>1. TypeOK /\ row \in LedgerRow /\ Proceed(p, Resting)
  BY DEF PurgeInv, RetentionInv, TypeOK, RecordFailure
<1>2. \/ row' = row
      \/ \E n, x : WriteLedger([row EXCEPT !.attempts = n, !.next = x])
  BY DEF RecordFailure
<1>3. MarksAreDue
  BY <1>1, <1>2, MarksWritten DEF MarksAreDue
<1> QED BY <1>1, <1>3, RestsEmptied

LEMMA CredentialsFailEmpties ==
  ASSUME PurgeInv, NEW p \in Purgers, CredentialsFail(p)
  PROVE  Empties(p)
<1> DEFINE s == purger[p]
           f == [s EXCEPT !.failed = TRUE, !.todo = {}]
<1>1. SweepOrFailure(p) /\ s.pc \in {"check", "delete"}
  BY DEF SweepOrFailure, CredentialsFail
<1>2. /\ TypeOK /\ s \in Sweep /\ SweepEmptied(s) /\ s.ver <= row.rv /\ row \in LedgerRow
      /\ CameBackKept /\ rows' \subseteq rows /\ secrets' \subseteq secrets
      /\ row' = row \/ row'.rv = row.rv + 1
  BY <1>1, Working DEF TypeOK
<1>3. MarksAreDue
  BY <1>1, <1>2, MarksWritten DEF CredentialsFail, MarksAreDue, SweepEmptied, PurgeAt
<1>4. PICK stage \in {"lock", "failure"} : Proceed(p, [f EXCEPT !.pc = stage])
  BY DEF CredentialsFail
<1>5. PICK t : t = [f EXCEPT !.pc = stage]
  OBVIOUS
<1>6. t.pc = stage /\ t.ver = s.ver
  BY <1>2, <1>5 DEF Sweep
<1>7. SweepEmptied(t)'
  BY <1>1, <1>2, <1>6, EmptiedNext
<1> QED BY <1>2, <1>3, <1>4, <1>5, <1>7, EmptiesTo

LEMMA ArtifactsFailEmpties ==
  ASSUME PurgeInv, NEW p \in Purgers, ArtifactsFail(p)
  PROVE  Empties(p)
<1> DEFINE s == purger[p]
<1>1. SweepOrFailure(p) /\ s.pc \in {"lock", "batch", "count", "mark"}
  BY DEF SweepOrFailure, ArtifactsFail
<1>2. /\ TypeOK /\ s \in Sweep /\ SweepEmptied(s) /\ s.ver <= row.rv /\ row \in LedgerRow
      /\ CameBackKept /\ rows' \subseteq rows /\ secrets' \subseteq secrets
      /\ row' = row \/ row'.rv = row.rv + 1
  BY <1>1, Working DEF TypeOK
<1>3. MarksAreDue
  BY <1>1, <1>2, MarksWritten DEF ArtifactsFail, MarksAreDue, SweepEmptied, PurgeAt
<1>4. PICK t : t = [s EXCEPT !.pc = "failure", !.failed = TRUE, !.batch = {}]
  OBVIOUS
<1>5. t.pc = "failure" /\ t.ver = s.ver /\ Proceed(p, t)
  BY <1>2, <1>4 DEF Sweep, ArtifactsFail
<1>6. SweepEmptied(t)'
  BY <1>1, <1>2, <1>5, EmptiedNext
<1> QED BY <1>2, <1>3, <1>5, <1>6, EmptiesTo

LEMMA SweepEmpties ==
  ASSUME PurgeInv, NEW p \in Purgers, SweepOrFailure(p)
  PROVE  Empties(p)
<1>1. TypeOK
  BY DEF PurgeInv, RetentionInv
<1>2. CASE Stop(p)
  BY <1>1, <1>2, NothingMarked, RestsEmptied DEF Stop
<1> QED BY <1>1, <1>2, TickEmpties, CredentialEmpties, BatchEmpties, MarkCredentialsEmpties,
           MarkPurgedEmpties, RecordFailureEmpties, CredentialsFailEmpties,
           ArtifactsFailEmpties DEF SweepOrFailure, SweepStep

(* The parts of PurgeInv that say what is gone. *)
Emptied == OffboardingWasSent /\ SweepsEmptied /\ PurgedIsEmpty

LEMMA SweepPurges ==
  ASSUME PurgeInv, NEW p \in Purgers, SweepOrFailure(p)
  PROVE  Emptied'
<1>1. /\ TypeOK /\ SweepsCurrent /\ SweepsEmptied /\ PurgedIsEmpty /\ OffboardingWasSent
      /\ row \in LedgerRow /\ purger \in [Purgers -> Sweep]
  BY DEF PurgeInv, RetentionInv, TypeOK
<1>2. Moves(p) /\ RowKept
  BY <1>1, SweepMoves
<1>3. sent' = sent /\ rows' \subseteq rows /\ secrets' \subseteq secrets
  BY <1>1, SweepKeepsTenant DEF tenantVars
<1>4. Empties(p)
  BY SweepEmpties
<1>5. row'.off = row.off /\ (row' = row \/ row'.rv = row.rv + 1)
  BY <1>2 DEF RowKept
<1>6. CameBackKept
  BY <1>3, <1>5, SameOffboarding
<1>7. OffboardingWasSent'
  BY <1>1, <1>3, <1>4, <1>5 DEF OffboardingWasSent, Empties, MarksAreDue
<1>8. PurgedIsEmpty'
  BY <1>1, <1>3, <1>4, <1>6 DEF PurgedIsEmpty, Empties, MarksAreDue, CameBackKept
<1>9. SweepsEmptied'
  <2> SUFFICES ASSUME NEW q \in Purgers PROVE SweepEmptied(purger[q])'
    BY DEF SweepsEmptied
  <2>1. CASE q = p
    BY <1>4, <2>1 DEF Empties
  <2>2. CASE q # p
    <3>1. PICK s : s = purger[q]
      OBVIOUS
    <3>2. s \in Sweep /\ SweepEmptied(s) /\ purger'[q] = s /\ (s.pc # "idle" => s.ver <= row.rv)
      BY <1>1, <1>2, <2>2, <3>1 DEF Moves, SweepsEmptied, SweepsCurrent, SweepCurrent
    <3>3. CASE s.pc = "idle"
      BY <3>2, <3>3 DEF SweepEmptied
    <3>4. CASE s.pc # "idle"
      <4>1. s.pc \in {"check", "delete"} /\ secrets \subseteq s.todo => secrets' \subseteq s.todo
        BY <1>3
      <4>2. SweepEmptied(s)'
        BY <1>1, <1>3, <1>5, <1>6, <3>2, <3>4, <4>1, EmptiedNext
      <4> QED BY <3>2, <4>2
    <3> QED BY <3>3, <3>4
  <2> QED BY <2>1, <2>2
<1> QED BY <1>7, <1>8, <1>9 DEF Emptied

LEMMA DeliverPurges ==
  ASSUME PurgeInv, NEW e \in sent, Deliver(e)
  PROVE  Emptied'
<1>1. /\ TypeOK /\ SweepsCurrent /\ SweepsEmptied /\ PurgedIsEmpty /\ OffboardingWasSent
      /\ row \in LedgerRow /\ purger \in [Purgers -> Sweep] /\ e \in Event
  BY DEF PurgeInv, RetentionInv, TypeOK
<1>2. UNCHANGED <<sent, rows, secrets, purger>>
  BY DEF Deliver
<1>3. e.at \in Nat \ {0} /\ e = [kind |-> e.kind, at |-> e.at]
  BY <1>1 DEF Event
<1>4. CASE row' = row
  BY <1>1, <1>2, <1>4
     DEF Emptied, OffboardingWasSent, SweepsEmptied, SweepEmptied, PurgedIsEmpty, CameBack
<1>5. CASE row' # row
  <2>1. row'.rv = row.rv + 1
    BY <1>1, <1>3, <1>5, OffboardedRow, ReturnedRow DEF Deliver
  <2>2. SweepsEmptied'
    <3> SUFFICES ASSUME NEW q \in Purgers PROVE SweepEmptied(purger[q])'
      BY DEF SweepsEmptied
    <3>1. purger'[q] = purger[q] /\ purger[q] \in Sweep /\ SweepCurrent(purger[q])
      BY <1>1, <1>2 DEF SweepsCurrent
    <3> QED BY <1>1, <2>1, <3>1, RowFields, SweepFields DEF SweepEmptied, SweepCurrent
  <2>3. CASE e.kind = "offboarded"
    <3>1. row' = [NoLedgerRow EXCEPT !.off = e.at, !.next = e.at, !.rv = row.rv + 1]
      BY <1>5, <2>3 DEF Deliver, RecordOffboarded
    <3>2. row'.off = e.at /\ row'.purged = FALSE /\ row'.credentialsPurged = FALSE
      BY <3>1 DEF NoLedgerRow
    <3> QED BY <1>2, <1>3, <2>2, <2>3, <3>2 DEF Emptied, OffboardingWasSent, PurgedIsEmpty
  <2>4. CASE e.kind # "offboarded"
    <3>1. row' = [row EXCEPT !.ret = e.at, !.rv = @ + 1,
                             !.next = IF row.rv = 0 THEN e.at ELSE @]
      BY <1>5, <2>4 DEF Deliver, RecordReturned
    <3>2. /\ row'.off = row.off /\ row'.purged = row.purged
          /\ row'.credentialsPurged = row.credentialsPurged
      BY <1>1, <3>1 DEF LedgerRow
    <3> QED BY <1>1, <1>2, <2>2, <3>2
            DEF Emptied, OffboardingWasSent, PurgedIsEmpty, CameBack
  <2> QED BY <2>3, <2>4
<1> QED BY <1>4, <1>5

(* The tenant adds rows and secrets only when it has come back; its events   *)
(* only add to what was sent.                                                *)
LEMMA TenantPurges ==
  ASSUME PurgeInv, UNCHANGED <<row, purger>>, sent \subseteq sent',
         Active \/ (rows' = rows /\ secrets' = secrets)
  PROVE  Emptied'
<1>1. SweepsEmptied /\ PurgedIsEmpty /\ OffboardingWasSent
  BY DEF PurgeInv
<1>2. CameBack => CameBack'
  BY DEF CameBack
<1>3. Active /\ row.off # Never => CameBack
  BY <1>1 DEF Active, CameBack, OffboardingWasSent
<1>4. OffboardingWasSent' /\ PurgedIsEmpty'
  BY <1>1, <1>2, <1>3 DEF OffboardingWasSent, PurgedIsEmpty
<1>5. SweepsEmptied'
  BY <1>1, <1>2, <1>3 DEF SweepsEmptied, SweepEmptied
<1> QED BY <1>4, <1>5 DEF Emptied

LEMMA PurgeInvKept ==
  ASSUME PurgeInv, [Next]_vars
  PROVE  PurgeInv'
<1>1. SUFFICES Emptied'
  <2>1. RetentionInv'
    BY NextInv DEF PurgeInv
  <2> QED BY <2>1 DEF PurgeInv, Emptied
<1>2. CASE Advance \/ (\E kind \in {"offboarded", "returned"} : Occur(kind)) \/ UNCHANGED vars
  BY <1>2, TenantPurges DEF Advance, Occur, vars
<1>3. CASE CreateRow \/ StoreSecret
  BY <1>3, TenantPurges DEF CreateRow, StoreSecret, tenantVars
<1>4. CASE \E e \in sent : Deliver(e)
  BY <1>4, DeliverPurges
<1>5. CASE \E p \in Purgers : SweepOrFailure(p)
  BY <1>5, SweepPurges
<1> QED BY <1>2, <1>3, <1>4, <1>5 DEF Next, TenantStep, SweepOrFailure

(* The invariant of the purge: a sweep that is still at the version it read  *)
(* has deleted what it no longer lists, and what is marked is gone, unless   *)
(* the tenant came back (TenantPurger.purgeCredentials, purgeArtifacts).     *)
THEOREM PurgeInductive == Spec => []PurgeInv
<1>1. Init => PurgeInv
  <2> SUFFICES ASSUME Init PROVE PurgeInv
    OBVIOUS
  <2>1. RetentionInv
    <3>1. NoLedgerRow \in LedgerRow /\ NoLedgerRow.ret = Never /\ NoLedgerRow.off = Never
      BY DEF NoLedgerRow, LedgerRow, Never
    <3>2. Resting \in Sweep /\ Resting.pc = "idle"
      BY DEF Resting, Sweep, PurgeStage
    <3>3. TypeOK
      BY <3>1, <3>2 DEF Init, TypeOK
    <3> QED BY <3>1, <3>2, <3>3 DEF Init, RetentionInv, SweepsCurrent, SweepCurrent,
               ReturnIsNewer, NoRowNoDates, ReturnsAreCovered
  <2>2. /\ row.off = Never /\ row.purged = FALSE /\ row.credentialsPurged = FALSE
        /\ \A p \in Purgers : purger[p].pc = "idle"
    BY DEF Init, NoLedgerRow, Resting
  <2>3. OffboardingWasSent /\ PurgedIsEmpty /\ SweepsEmptied
    BY <2>2 DEF OffboardingWasSent, PurgedIsEmpty, SweepsEmptied, SweepEmptied
  <2> QED BY <2>1, <2>3 DEF PurgeInv
<1>2. PurgeInv /\ [Next]_vars => PurgeInv'
  BY PurgeInvKept
<1> QED BY <1>1, <1>2, PTL DEF Spec

(* What the ledger says is purged is gone, for every part and however many   *)
(* replicas delete at once, unless the tenant came back since (HasRows,      *)
(* MarkTenantPurged, MarkTenantCredentialsPurged).                           *)
THEOREM MarkedIsEmpty == Spec => []PurgedIsEmpty
<1>1. PurgeInv => PurgedIsEmpty
  BY DEF PurgeInv
<1> QED BY <1>1, PurgeInductive, PTL

=============================================================================
