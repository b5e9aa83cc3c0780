----------------------------- MODULE OncePerKey -----------------------------
(***************************************************************************)
(* What an idempotency key promises its callers: the operation takes       *)
(* effect once, and once more at most for every fault so far; and a caller *)
(* is told nothing but the outcome of an operation of its own body.        *)
(***************************************************************************)
EXTENDS Naturals, FiniteSets

CONSTANTS
    Requests,       \* requests that carry the key
    Body            \* what each of them asks for

VARIABLES
    effects,        \* the runs that took effect: <<request, attempt>>
    credit,         \* faults so far
    told            \* the bodies whose outcome each caller was told

onceVars == <<effects, credit, told>>

OnceInit == effects = {} /\ credit = 0 /\ told = [r \in Requests |-> {}]

Fault == credit' = credit + 1 /\ UNCHANGED <<effects, told>>

(* The operation takes effect: the first time, or on credit. *)
Apply(r) ==
    /\ Cardinality(effects) <= credit
    /\ \E run \in effects' \ effects : run[1] = r /\ effects' = effects \cup {run}
    /\ told' = [told EXCEPT ![r] = @ \cup {Body[r]}]
    /\ UNCHANGED credit

(* A caller is told what an operation of its own body came to. *)
Replay(r) ==
    /\ \E run \in effects : Body[run[1]] = Body[r]
    /\ told' = [told EXCEPT ![r] = @ \cup {Body[r]}]
    /\ UNCHANGED <<effects, credit>>

OnceNext == Fault \/ \E r \in Requests : Apply(r) \/ Replay(r)

OnceSpec == OnceInit /\ [][OnceNext]_onceVars

=============================================================================
