------------------------ MODULE IdempotencyProperties ------------------------
(***************************************************************************)
(* What an idempotency key is worth to the callers of a mutating route.    *)
(***************************************************************************)
EXTENDS Idempotency

(* The wrapper, with the handler, the two cache keys and the faults between  *)
(* them, implements the abstract promise: every effect but the first is paid *)
(* for by a fault, and an answer is the outcome of an operation of the       *)
(* caller's own body (WithIdempotency).                                      *)
Once == INSTANCE OncePerKey WITH credit <- faults
KeepsPromise == Once!OnceSpec

(* Whatever a stopped replica leaves behind, a caller that goes on asking is *)
(* answered in the end (the time to live of the pending marker, reserve).    *)
CallersAreAnswered ==
    <>[](\A r \in Requests : request[r].at = "answered")

=============================================================================
