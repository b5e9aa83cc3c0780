-------------------------- MODULE CatalogProperties --------------------------
(***************************************************************************)
(* What the library promises its authors and the workflows that call it.   *)
(***************************************************************************)
EXTENDS ModuleCatalog

(* A process id names one module to each tenant: two creates at once never   *)
(* give a tenant's module and a global one the same id, though no unique     *)
(* index spans both scopes: the look for the id and the insert are one       *)
(* serializable transaction (ModuleService.Create, ModuleProcessIDInUse).    *)
(* db/queries/workflow_module_version.sql:59 still says that a race between  *)
(* two creates gives a tenant module a global one's id; it does not.         *)
OneModulePerName ==
    \A m, o \in exists :
        (m # o /\ ProcessId(m) = ProcessId(o)) => Global \notin {Scope(m), Scope(o)}

(* A module's newest numbered version is the active one until it is archived,*)
(* so that no publish that lands during an archive leaves a published        *)
(* version the module no longer points to (ModuleService.Archive, Publish).  *)
NewestIsActive ==
    \A m \in exists : \A i \in DOMAIN versions[m] :
        (Number(m, i) # 0 /\ Number(m, i) + 1 = NextNumber(m))
            => (versions[m][i].status = "PUBLISHED" <=> active[m] = i)

(* Whatever was published while its calls were being resolved, a published   *)
(* workflow's calls never lead round in a circle: its plan expands to an end *)
(* (moduleResolver.resolve, ValidateCallGraph).                              *)
PublishedIsAcyclic == \A s \in snapshots : Acyclic(s)

(* Every call of a published workflow, its modules' calls included, is found *)
(* again in its module_refs: the version it was compiled with, or a newer    *)
(* one the same workflow pins.  What is archived or published later does not *)
(* matter (moduleResolver.snapshot).                                         *)
SnapshotResolves ==
    \A s \in snapshots : \A r \in s.resolved :
        LET picked == Picked(s, r.key)
        IN /\ picked # {}
           /\ \A q \in picked :
                 \/ q.module = r.module /\ q.version = r.version
                 \/ r.key[2] = 0 /\ RefNumber(q) > RefNumber(r)

=============================================================================
