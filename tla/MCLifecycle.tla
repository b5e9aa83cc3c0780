---------------------------- MODULE MCLifecycle ----------------------------
(***************************************************************************)
(* Values for the constants of WorkflowLifecycle that a .cfg cannot write, *)
(* and the permutations of identifiers the specification never compares    *)
(* but for equality.                                                       *)
(***************************************************************************)
EXTENDS LifecycleProperties, TLC

CONSTANTS d1, d2, u1

(* Two documents of one structure or of two, without assignees. *)
NoAssignees == [d \in Docs |-> {}]
OneShape == [d \in Docs |-> "s"]
TwoShapes == [d \in Docs |-> d]

(* Every document assigns u1, or only d1 does. *)
AllAssigned == [d \in Docs |-> Users]
FirstAssigned == [d \in Docs |-> IF d = d1 THEN Users ELSE {}]

Ids == Permutations(Workflows) \cup Permutations(Versions) \cup Permutations(Clients)

=============================================================================
