------------------------- MODULE RetentionProperties -------------------------
(***************************************************************************)
(* What the retention of a departed tenant's data promises, and two things *)
(* it does not.                                                            *)
(***************************************************************************)
EXTENDS TenantRetention

(* A return that was heard stays in force against every offboarding that is  *)
(* not newer, in whatever order and however often the events come: the row   *)
(* is returned, or records a newer offboarding (RecordTenantOffboarded,      *)
(* RecordTenantReturned).                                                    *)
ReturnOutlivesOffboarding ==
    \A e \in heard : e.kind = "returned" =>
        (row.ret = Never => e.at <= row.off)

(* The sweep deletes a row only while the recorded offboarding is in force   *)
(* and its retention period has passed, though the tenant returned, left     *)
(* again, or was purged by another replica after it was listed (PurgeBatch). *)
RowsGoOnlyWhenDue ==
    [][~(rows \subseteq rows') =>
          /\ row.off # Never /\ row.ret = Never
          /\ row.off + ArtifactRetention <= now]_rows

(* A part that is marked purged has nothing left, unless the tenant has come *)
(* back since the offboarding the mark belongs to (HasRows, MarkTenantPurged *)
(* and MarkTenantCredentialsPurged by replicas that delete side by side).    *)
CameBack == \E e \in sent : e.kind = "returned" /\ e.at > row.off
PurgedIsEmpty ==
    /\ row.purged /\ rows # {} => CameBack
    /\ row.credentialsPurged /\ secrets # {} => CameBack

(* The data of a tenant that left for good, and whose offboarding is on      *)
(* record, is purged in the end: both parts, whatever failed part of the way *)
(* (TenantPurger.Tick, RecordTenantPurgeFailure).                            *)
Departed == row.off # Never /\ row.ret = Never /\ ~Active
DepartedIsPurged == []<>(Departed => row.purged /\ row.credentialsPurged)

-----------------------------------------------------------------------------
(* What makes the properties inductive. *)

(* A recorded return is newer than the offboarding it ended. *)
ReturnIsNewer == row.ret # Never => row.off < row.ret

(* No row, no dates; and a return that was heard is not newer than both.     *)
NoRowNoDates == row.rv = 0 => row.off = Never /\ row.ret = Never
ReturnsAreCovered ==
    \A e \in heard : e.kind = "returned" => e.at <= row.off \/ e.at <= row.ret

(* While the row has the version a sweep read, the parts that were due then  *)
(* are due still; an open batch holds the row at that version.               *)
SweepCurrent(s) ==
    s.pc # "idle" =>
        /\ s.ver <= row.rv
        /\ s.pc = "batch" => s.ver = row.rv /\ row.ret = Never
        /\ s.pc \in {"lock", "batch", "count", "mark"} => s.artifacts
        /\ s.artifacts /\ s.ver = row.rv =>
              row.off # Never /\ row.off + ArtifactRetention <= now

SweepsCurrent == \A p \in Purgers : SweepCurrent(purger[p])

RetentionInv ==
    TypeOK /\ ReturnIsNewer /\ NoRowNoDates /\ ReturnsAreCovered /\ SweepsCurrent

(* The recorded offboarding was published, and marks belong to one.          *)
OffboardingWasSent ==
    /\ row.off # Never => [kind |-> "offboarded", at |-> row.off] \in sent
    /\ row.purged \/ row.credentialsPurged => row.off # Never

(* While the row has the version a sweep read, the secrets it has no longer  *)
(* to delete are gone, and so are the rows when it is about to say so.       *)
SweepEmptied(s) ==
    s.pc # "idle" /\ s.ver = row.rv =>
        /\ row.off # Never
        /\ s.pc \in {"check", "delete"} => CameBack \/ secrets \subseteq s.todo
        /\ s.pc = "mark" => CameBack \/ rows = {}

SweepsEmptied == \A p \in Purgers : SweepEmptied(purger[p])

PurgeInv == RetentionInv /\ OffboardingWasSent /\ SweepsEmptied /\ PurgedIsEmpty

-----------------------------------------------------------------------------
(* What the documentation says and the code does not do. *)

(* "each credential delete checks the same before it runs, so a return       *)
(* recorded before a batch or a delete stops the purge there."               *)
(* (docs/lld/definition_service.md:3857)                                     *)
ReturnStopsDeletes ==
    [][\A p \in Purgers : DeleteSecret(p) => row.ret = Never]_<<secrets, purger>>

(* "An offboarding event (7.4.4) records the tenant in tenant_retention":    *)
(* once every event was heard, a tenant whose newest event is an offboarding *)
(* is not taken for returned.  (docs/lld/definition_service.md:3855)         *)
OffboardingIsRecorded == heard = sent /\ ~Active => row.ret = Never

=============================================================================
