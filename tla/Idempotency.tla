----------------------------- MODULE Idempotency -----------------------------
(***************************************************************************)
(* WithIdempotency (handler/idempotency.go) around a mutating handler, for *)
(* one key of one user: requests on any replica look for a stored          *)
(* response, reserve the key in Valkey, look again, run the handler, store *)
(* its response and release the key.  A caller without an answer sends the *)
(* same request again.  Keys do not interact.                              *)
(*                                                                         *)
(* A request without a key, without an identity, or with a body that       *)
(* cannot be read runs unprotected and is no request of this key.          *)
(***************************************************************************)
EXTENDS Naturals, FiniteSets

CONSTANTS
    Requests,       \* requests that carry the one key
    Body,           \* [Requests -> bodies]: the hash of body and If-Match
    FaultKinds,     \* the faults of this instance
    MaxFaults,      \* bound: faults
    MaxFailures     \* bound: handler runs that fail

ASSUME RequestsFinite == IsFiniteSet(Requests)

VARIABLES
    stored,         \* the response under the key: {}, or the body it answers
    marker,         \* <key>:pending: {}, or the token that holds it
    request,        \* how far each request has come
    effects,        \* history: the runs that committed
    told,           \* history: the bodies whose outcome each caller was told
    faults,         \* history: faults so far
    failures        \* handler runs that failed so far

idemVars == <<stored, marker, request, effects, told, faults, failures>>
history == <<effects, told>>

(* A request's context lives until its caller goes away or its 30 s are over.*)
RequestState == [at: {"unsent", "lookup", "reserve", "recheck", "run", "store",
                      "release", "unanswered", "answered"},
                 attempt: Nat, reserved: BOOLEAN, live: BOOLEAN, final: BOOLEAN]
Unsent == [at |-> "unsent", attempt |-> 0, reserved |-> FALSE, live |-> TRUE, final |-> FALSE]
Token(r) == <<r, request[r].attempt>>

IdempotencyTypeOK ==
    /\ stored \in {{}} \cup {{Body[r]} : r \in Requests}
    /\ marker \in SUBSET (Requests \X Nat) /\ Cardinality(marker) <= 1
    /\ request \in [Requests -> RequestState]
    /\ effects \in SUBSET (Requests \X Nat)
    /\ told \in [Requests -> SUBSET {Body[r] : r \in Requests}]
    /\ faults \in Nat /\ failures \in Nat

IdempotencyInit ==
    /\ stored = {} /\ marker = {}
    /\ request = [r \in Requests |-> Unsent]
    /\ effects = {} /\ told = [r \in Requests |-> {}]
    /\ faults = 0 /\ failures = 0

At(r, stage) == request[r].at = stage
Move(r, stage) == request' = [request EXCEPT ![r].at = stage]
Tell(r, body) == told' = [told EXCEPT ![r] = @ \cup {body}]

Faulty(kind) == kind \in FaultKinds /\ faults < MaxFaults /\ faults' = faults + 1
NoFault == UNCHANGED faults

-----------------------------------------------------------------------------
(* The caller sends the request, again and again until it is answered        *)
(* (external).                                                               *)
Send(r) ==
    /\ request[r].at \in {"unsent", "unanswered"}
    /\ request' = [request EXCEPT ![r] =
                     [Unsent EXCEPT !.at = "lookup", !.attempt = request[r].attempt]]
    /\ UNCHANGED <<stored, marker, history, faults, failures>>

(* replayIfCached finds a response: it answers the request with it, or, if   *)
(* it is of another body, with IDEMPOTENCY_KEY_REPLAY.                       *)
AnswerFromStore(r) ==
    \/ stored = {Body[r]} /\ Tell(r, Body[r])
    \/ stored \notin {{}, {Body[r]}} /\ UNCHANGED told

(* A GET that fails, as it does once the context has ended, passes for an    *)
(* empty store.                                                              *)
NoResponseSeen(r) ==
    \/ (request[r].live => stored = {}) /\ NoFault
    \/ request[r].live /\ Faulty("cache")

(* The first replayIfCached. *)
Lookup(r) ==
    /\ At(r, "lookup")
    /\ \/ request[r].live /\ AnswerFromStore(r) /\ Move(r, "answered") /\ NoFault
       \/ /\ NoResponseSeen(r)
          /\ Move(r, "reserve") /\ UNCHANGED told
    /\ UNCHANGED <<stored, marker, effects, failures>>

(* reserve: SET NX of the pending marker.  A marker that is held refuses the *)
(* request; a SET NX that fails, applied or not, lets it run unreserved.     *)
NewToken(r) == <<r, request[r].attempt + 1>>
Proceed(r, reserved) ==
    request' = [request EXCEPT ![r].at = "recheck", ![r].reserved = reserved,
                               ![r].attempt = @ + 1]
Reserve(r) ==
    /\ At(r, "reserve")
    /\ \/ /\ request[r].live /\ marker = {} /\ NoFault
          /\ marker' = {NewToken(r)}
          /\ Proceed(r, TRUE)
       \/ /\ request[r].live /\ marker # {} /\ NoFault
          /\ Move(r, "unanswered") /\ UNCHANGED marker
       \/ ~request[r].live /\ Proceed(r, FALSE) /\ UNCHANGED marker /\ NoFault
       \/ /\ request[r].live /\ Faulty("cache")
          /\ marker' \in {marker, IF marker = {} THEN {NewToken(r)} ELSE marker}
          /\ Proceed(r, FALSE)
    /\ UNCHANGED <<stored, history, failures>>

(* The second replayIfCached, under the reservation. *)
RecheckSkipped(r) ==
    /\ At(r, "recheck")
    /\ Move(r, "run") /\ NoFault
    /\ UNCHANGED <<stored, marker, history, failures>>
Recheck(r) ==
    /\ At(r, "recheck")
    /\ \/ /\ request[r].live /\ AnswerFromStore(r) /\ NoFault
          /\ request' = [request EXCEPT ![r].at = "release", ![r].final = TRUE]
       \/ /\ NoResponseSeen(r)
          /\ Move(r, "run") /\ UNCHANGED told
    /\ UNCHANGED <<stored, marker, effects, failures>>

(* The wrapped handler commits and writes its response. *)
HandlerCommits(r) ==
    /\ At(r, "run") /\ request[r].live
    /\ effects' = effects \cup {Token(r)}
    /\ Move(r, "store") /\ Tell(r, Body[r])
    /\ UNCHANGED <<stored, marker, faults, failures>>

(* It fails, on its own account or because its context has ended. *)
HandlerFails(r) ==
    /\ At(r, "run")
    /\ IF request[r].live THEN failures < MaxFailures /\ failures' = failures + 1
                          ELSE UNCHANGED failures
    /\ Move(r, "release")
    /\ UNCHANGED <<stored, marker, history, faults>>

(* storeIfSuccess: a SET under the request's context, which fails once that  *)
(* has ended.                                                                *)
Store(r) ==
    /\ At(r, "store")
    /\ \/ request[r].live /\ stored' = {Body[r]} /\ NoFault
       \/ ~request[r].live /\ UNCHANGED stored /\ NoFault
       \/ request[r].live /\ UNCHANGED stored /\ Faulty("cache")
    /\ request' = [request EXCEPT ![r].at = "release", ![r].final = request[r].live]
    /\ UNCHANGED <<marker, history, failures>>

(* The deferred release gives up its own token and no other (DelIfEqual),    *)
(* whether the context has ended or not.                                     *)
Released(r) == IF request[r].reserved THEN marker \ {Token(r)} ELSE marker
Release(r) ==
    /\ At(r, "release")
    /\ Move(r, IF request[r].final THEN "answered" ELSE "unanswered")
    /\ \/ marker' = Released(r) /\ NoFault
       \/ request[r].reserved /\ UNCHANGED marker /\ Faulty("cache")
    /\ UNCHANGED <<stored, history, failures>>

-----------------------------------------------------------------------------
InHandler == {"lookup", "reserve", "recheck", "run", "store", "release"}
MarkerIsHeld ==
    \E r \in Requests : Token(r) \in marker /\ request[r].reserved /\ request[r].at \in InHandler

(* The caller goes away, or the request's time is over. *)
ContextEnds(r) ==
    /\ request[r].at \in InHandler \ {"release"} /\ request[r].live
    /\ Faulty("disconnect")
    /\ request' = [request EXCEPT ![r].live = FALSE]
    /\ UNCHANGED <<stored, marker, history, failures>>

(* The replica stops; nothing is released. *)
Stop(r) ==
    /\ request[r].at \in InHandler
    /\ Faulty("stop")
    /\ Move(r, "unanswered")
    /\ UNCHANGED <<stored, marker, history, failures>>

MarkerStays == FALSE /\ marker' = {} /\ UNCHANGED <<stored, request, history, failures>> /\ NoFault

(* The marker lives a minute.  A handler ends within its 30 s, so only a     *)
(* marker nobody is running under lapses, unless a handler overruns.         *)
MarkerLapses ==
    /\ marker # {}
    /\ \/ ~MarkerIsHeld /\ NoFault
       \/ MarkerIsHeld /\ Faulty("overrun")
    /\ marker' = {}
    /\ UNCHANGED <<stored, request, history, failures>>

(* The response lives a day. *)
ResponseLapses ==
    /\ stored # {} /\ stored' = {}
    /\ Faulty("lapse")
    /\ UNCHANGED <<marker, request, history, failures>>

-----------------------------------------------------------------------------
HandleStep(r) ==
    \/ Lookup(r) \/ Reserve(r) \/ Recheck(r) \/ HandlerCommits(r) \/ HandlerFails(r)
    \/ Store(r) \/ Release(r)

IdempotencyNext ==
    \/ \E r \in Requests : Send(r) \/ HandleStep(r) \/ ContextEnds(r) \/ Stop(r)
    \/ MarkerLapses \/ ResponseLapses

IdempotencySpec == IdempotencyInit /\ [][IdempotencyNext]_idemVars

(* Callers retry; a handler ends; Valkey expires keys. *)
IdempotencyFairness ==
    /\ \A r \in Requests : WF_idemVars(Send(r)) /\ WF_idemVars(HandleStep(r))
    /\ WF_idemVars(MarkerLapses)

=============================================================================
