-------------------------- MODULE IdempotencyProofs --------------------------
(***************************************************************************)
(* Proof that WithIdempotency implements OncePerKey, for any finite number *)
(* of requests under a key, of attempts and of faults of every kind.       *)
(*                                                                         *)
(* The argument counts runs.  A request on its way to the handler without  *)
(* the marker is loose, and every loose request is paid for by the fault   *)
(* that let it loose.  The holder of the marker needs no fault while the   *)
(* key is open.  Runs so far, loose requests and the one run an open key   *)
(* still grants never exceed the faults by more than one (Budget).         *)
(***************************************************************************)
EXTENDS IdempotencyProperties, FiniteSetTheorems, TLAPS

-----------------------------------------------------------------------------
(* The inductive invariant *)

Holds(r) == request[r].reserved /\ Token(r) \in marker
Bound(r) == request[r].live /\ request[r].at \in {"recheck", "run"}

Loose == {r \in Requests : Bound(r) /\ ~Holds(r)}

MayRun(r) == Holds(r) /\ request[r].live /\ At(r, "run")
MayStore(r) == Holds(r) /\ request[r].live /\ At(r, "store")
Open ==
    \/ \E r \in Requests : MayRun(r)
    \/ stored = {} /\ ~\E r \in Requests : MayStore(r)

Granted == IF Open THEN 1 ELSE 0

Typed ==
    /\ marker \in SUBSET (Requests \X Nat)
    /\ request \in [Requests -> RequestState]
    /\ effects \in SUBSET (Requests \X Nat)
    /\ IsFiniteSet(effects)
    /\ faults \in Nat

OneHolder == \A a, b \in marker : a = b

(* An attempt commits once, and only after it has got to the handler. *)
AttemptsAreNew ==
    \A e \in effects :
        /\ e[2] <= request[e[1]].attempt
        /\ request[e[1]].at \in {"recheck", "run"} => e[2] < request[e[1]].attempt

(* What is stored, or about to be, is the response of a run that committed. *)
ResponsesAreReal ==
    /\ stored # {} => \E e \in effects : stored = {Body[e[1]]}
    /\ \A r \in Requests : At(r, "store") => Token(r) \in effects

Budget == Cardinality(effects) + Cardinality(Loose) + Granted <= faults + 1

KeyInv == Typed /\ OneHolder /\ AttemptsAreNew /\ ResponsesAreReal /\ Budget

-----------------------------------------------------------------------------
(* What the steps do to the budget *)

Free ==
    /\ effects' = effects /\ faults' = faults
    /\ Loose' \subseteq Loose /\ (Open' => Open)

Paid ==
    /\ effects' = effects /\ faults' = faults + 1
    /\ \/ Loose' \subseteq Loose
       \/ \E x \in Requests : Loose' \subseteq Loose \cup {x} /\ (Open' => Open)

Spends(r) ==
    /\ effects' = effects \cup {Token(r)} /\ faults' = faults
    /\ \/ r \in Loose /\ Loose' \subseteq Loose \ {r} /\ (Open' => Open)
       \/ Open /\ ~Open' /\ Loose' \subseteq Loose

LEMMA LooseIsFinite ==
  ASSUME IsFiniteSet(Requests)
  PROVE  IsFiniteSet(Loose) /\ IsFiniteSet(Loose')
<1>1. Loose \in SUBSET Requests /\ Loose' \in SUBSET Requests
  BY DEF Loose
<1> QED
  BY <1>1, FS_Subset

LEMMA GrantedIsNat == Granted \in {0, 1} /\ Granted' \in {0, 1} /\ ((Open' => Open) => Granted' <= Granted)
  BY DEF Granted

LEMMA BudgetKept ==
  ASSUME IsFiniteSet(Requests), Typed, Budget,
         Free \/ Paid \/ \E r \in Requests : Spends(r)
  PROVE  Budget' /\ IsFiniteSet(effects')
<1> DEFINE C == Cardinality(effects)
           L == Cardinality(Loose)
<1>1. /\ C \in Nat /\ L \in Nat /\ faults \in Nat
      /\ C + L + Granted <= faults + 1
  BY LooseIsFinite, FS_CardinalityType DEF Typed, Budget
<1>2. Cardinality(Loose') \in Nat
  BY LooseIsFinite, FS_CardinalityType
<1>3. ASSUME NEW S \in SUBSET Requests, Loose' \subseteq S
      PROVE  Cardinality(Loose') <= Cardinality(S)
  <2>1. IsFiniteSet(S)
    BY <1>3, FS_Subset
  <2> QED
    BY <1>3, <2>1, FS_Subset
<1>4. Loose \in SUBSET Requests /\ IsFiniteSet(Loose)
  BY LooseIsFinite DEF Loose
<1>5. IsFiniteSet(effects)
  BY DEF Typed
<1>6. CASE Free
  <2>1. Cardinality(Loose') <= L /\ Granted' <= Granted
    BY <1>6, <1>3, <1>4, GrantedIsNat DEF Free
  <2>2. effects' = effects /\ faults' = faults
    BY <1>6 DEF Free
  <2> QED
    BY <1>1, <1>2, <1>5, <2>1, <2>2, GrantedIsNat DEF Budget
<1>7. CASE Paid
  <2>1. effects' = effects /\ faults' = faults + 1
    BY <1>7 DEF Paid
  <2>2. CASE Loose' \subseteq Loose
    <3>1. Cardinality(Loose') <= L
      BY <2>2, <1>3, <1>4
    <3> QED
      BY <1>1, <1>2, <1>5, <2>1, <3>1, GrantedIsNat DEF Budget
  <2>3. CASE \E x \in Requests : Loose' \subseteq Loose \cup {x} /\ (Open' => Open)
    <3>1. PICK x \in Requests : Loose' \subseteq Loose \cup {x} /\ (Open' => Open)
      BY <2>3
    <3>2. Cardinality(Loose') <= Cardinality(Loose \cup {x}) /\ Granted' <= Granted
      BY <1>3, <1>4, <3>1, GrantedIsNat
    <3>3. Cardinality(Loose \cup {x}) = IF x \in Loose THEN L ELSE L + 1
      BY <1>4, FS_AddElement
    <3>4. Cardinality(Loose \cup {x}) <= L + 1 /\ Cardinality(Loose \cup {x}) \in Nat
      BY <1>1, <3>3
    <3> QED
      BY <1>1, <1>2, <1>5, <2>1, <3>2, <3>4, GrantedIsNat DEF Budget
  <2> QED
    BY <1>7, <2>2, <2>3 DEF Paid
<1>8. ASSUME NEW r \in Requests, Spends(r)
      PROVE  Budget' /\ IsFiniteSet(effects')
  <2>1. effects' = effects \cup {Token(r)} /\ faults' = faults
    BY <1>8 DEF Spends
  <2>2. /\ IsFiniteSet(effects')
        /\ Cardinality(effects') <= C + 1 /\ Cardinality(effects') \in Nat
    BY <1>1, <1>5, <2>1, FS_AddElement
  <2>3. CASE r \in Loose /\ Loose' \subseteq Loose \ {r} /\ (Open' => Open)
    <3>1. Cardinality(Loose') <= Cardinality(Loose \ {r}) /\ Granted' <= Granted
      BY <1>3, <1>4, <2>3, GrantedIsNat
    <3>2. Cardinality(Loose \ {r}) = L - 1
      BY <1>4, <2>3, FS_RemoveElement
    <3> QED
      BY <1>1, <1>2, <2>1, <2>2, <3>1, <3>2, GrantedIsNat DEF Budget
  <2>4. CASE Open /\ ~Open' /\ Loose' \subseteq Loose
    <3>1. Cardinality(Loose') <= L /\ Granted = 1 /\ Granted' = 0
      BY <1>3, <1>4, <2>4 DEF Granted
    <3> QED
      BY <1>1, <1>2, <2>1, <2>2, <3>1 DEF Budget
  <2> QED
    BY <1>8, <2>3, <2>4 DEF Spends
<1> QED
  BY <1>6, <1>7, <1>8

-----------------------------------------------------------------------------
(* Facts about one request *)

LEMMA Fields ==
  ASSUME Typed, NEW r \in Requests
  PROVE  /\ request[r].at \in {"unsent", "lookup", "reserve", "recheck", "run", "store",
                             "release", "unanswered", "answered"}
         /\ request[r].attempt \in Nat
         /\ request[r].reserved \in BOOLEAN /\ request[r].live \in BOOLEAN
         /\ request[r].final \in BOOLEAN
         /\ Token(r) \in Requests \X Nat
  BY DEF Typed, RequestState, Token

(* What a move of one request changes, and what it leaves. *)
LEMMA Moved ==
  ASSUME Typed, NEW r \in Requests,
         NEW stage \in {"unsent", "lookup", "reserve", "recheck", "run", "store",
                        "release", "unanswered", "answered"},
         NEW final \in BOOLEAN,
         \/ request' = [request EXCEPT ![r].at = stage]
         \/ request' = [request EXCEPT ![r].at = stage, ![r].final = final]
  PROVE  /\ request' \in [Requests -> RequestState]
         /\ \A q \in Requests \ {r} : request'[q] = request[q]
         /\ request'[r].at = stage /\ request'[r].attempt = request[r].attempt
         /\ request'[r].live = request[r].live /\ request'[r].reserved = request[r].reserved
<1> DEFINE s == request[r]
           moved == [s EXCEPT !.at = stage]
           ended == [s EXCEPT !.at = stage, !.final = final]
<1>1. s \in RequestState
  BY DEF Typed
<1>2. /\ moved \in RequestState /\ moved.at = stage /\ moved.attempt = s.attempt
      /\ moved.live = s.live /\ moved.reserved = s.reserved
  BY <1>1 DEF RequestState
<1>3. /\ ended \in RequestState /\ ended.at = stage /\ ended.attempt = s.attempt
      /\ ended.live = s.live /\ ended.reserved = s.reserved
  BY <1>1 DEF RequestState
<1>4. \/ request' = [request EXCEPT ![r] = moved]
      \/ request' = [request EXCEPT ![r] = ended]
  OBVIOUS
<1> HIDE DEF s, moved, ended
<1>5. /\ request' \in [Requests -> RequestState]
      /\ \A q \in Requests \ {r} : request'[q] = request[q]
      /\ request'[r] \in {moved, ended}
  BY <1>2, <1>3, <1>4 DEF Typed
<1> QED
  BY <1>2, <1>3, <1>5 DEF s

(* A request is not the holder when another one is. *)
LEMMA HolderIsAlone ==
  ASSUME OneHolder, NEW r \in Requests, NEW q \in Requests, Holds(r), Holds(q)
  PROVE  q = r
  BY DEF OneHolder, Holds, Token

(* The others go on as they are. *)
OnlyMoves(r) ==
    /\ request' \in [Requests -> RequestState]
    /\ \A q \in Requests \ {r} : request'[q] = request[q] /\ (Holds(q)' <=> Holds(q))

(* So the budget changes by what happens to r alone. *)
LEMMA LooseByOne ==
  ASSUME NEW r \in Requests, OnlyMoves(r)
  PROVE  /\ Loose' \subseteq Loose \cup {r}
         /\ (Bound(r)' /\ ~Holds(r)' => Bound(r) /\ ~Holds(r)) => Loose' \subseteq Loose
         /\ ~(Bound(r)' /\ ~Holds(r)') => Loose' \subseteq Loose \ {r}
<1>1. \A q \in Requests \ {r} : (Bound(q)' <=> Bound(q)) /\ (Holds(q)' <=> Holds(q))
  BY DEF OnlyMoves, Bound
<1> QED
  BY <1>1 DEF Loose

LEMMA OpenByOne ==
  ASSUME NEW r \in Requests, OnlyMoves(r),
         stored = {} \/ stored' # {},
         MayRun(r)' => Open,
         MayStore(r) => stored' # {} \/ MayStore(r)'
  PROVE  Open' => Open
<1>1. \A q \in Requests \ {r} : (MayRun(q)' <=> MayRun(q)) /\ (MayStore(q)' <=> MayStore(q))
  BY DEF OnlyMoves, MayRun, MayStore, At
<1>2. CASE \E q \in Requests : MayRun(q)'
  BY <1>1, <1>2 DEF Open
<1>3. CASE stored' = {} /\ ~\E q \in Requests : MayStore(q)'
  BY <1>1, <1>3 DEF Open
<1> QED
  BY <1>2, <1>3 DEF Open

LEMMA Quietly ==
  ASSUME NEW r \in Requests, OnlyMoves(r),
         effects' = effects, faults' \in {faults, faults + 1},
         Bound(r)' /\ ~Holds(r)' => Bound(r) /\ ~Holds(r),
         \/ faults' = faults + 1
         \/ /\ stored = {} \/ stored' # {}
            /\ MayRun(r)' => Open
            /\ MayStore(r) => stored' # {} \/ MayStore(r)'
  PROVE  Free \/ Paid
<1>1. Loose' \subseteq Loose
  BY LooseByOne
<1>2. CASE faults' = faults + 1
  BY <1>1, <1>2 DEF Paid
<1>3. CASE /\ faults' = faults
           /\ stored = {} \/ stored' # {}
           /\ MayRun(r)' => Open
           /\ MayStore(r) => stored' # {} \/ MayStore(r)'
  <2>1. Open' => Open
    BY <1>3, OpenByOne
  <2> QED
    BY <1>1, <1>3, <2>1 DEF Free
<1> QED
  BY <1>2, <1>3

-----------------------------------------------------------------------------
(* The steps, one by one: what a step of r does besides the budget. *)
Turn(r) ==
    /\ request' \in [Requests -> RequestState]
    /\ \A q \in Requests \ {r} : request'[q] = request[q]
    /\ request'[r].attempt >= request[r].attempt
    /\ request'[r].at \in {"recheck", "run"} =>
         \/ request'[r].attempt > request[r].attempt
         \/ request[r].at \in {"recheck", "run"}
    /\ At(r, "store")' => Token(r)' \in effects'
    /\ marker' \in {marker, {}, {NewToken(r)}}
    /\ \/ effects' = effects
       \/ /\ effects' = effects \cup {Token(r)} /\ At(r, "store")'
          /\ request'[r].attempt = request[r].attempt
    /\ \/ stored' \in {stored, {}}
       \/ stored' = {Body[r]} /\ At(r, "store")

(* A step that keeps the marker and leaves the run as it is. *)
Keeps(r) ==
    /\ marker' = marker
    /\ request' \in [Requests -> RequestState]
    /\ \A q \in Requests \ {r} : request'[q] = request[q]
    /\ request'[r].attempt = request[r].attempt

LEMMA KeepsAlone ==
  ASSUME NEW r \in Requests, Keeps(r)
  PROVE  OnlyMoves(r)
  BY DEF Keeps, OnlyMoves, Holds, Token

LEMMA FaultCounts ==
  ASSUME NEW kind, Faulty(kind)
  PROVE  faults' = faults + 1
  BY DEF Faulty

LEMMA SendStep ==
  ASSUME KeyInv, NEW r \in Requests, Send(r)
  PROVE  Turn(r) /\ (Free \/ Paid)
<1>1. /\ request' = [request EXCEPT ![r] = [Unsent EXCEPT !.at = "lookup", !.attempt = request[r].attempt]]
      /\ UNCHANGED <<stored, marker, effects, faults>>
      /\ request[r].at \in {"unsent", "unanswered"}
  BY DEF Send, history
<1>2. /\ Keeps(r) /\ request'[r].at = "lookup"
  BY <1>1, Fields DEF KeyInv, Keeps, Typed, RequestState, Unsent
<1>3. ~Bound(r)' /\ ~MayRun(r)' /\ ~MayStore(r)
  BY <1>1, <1>2 DEF Bound, MayRun, MayStore, At
<1>4. Free \/ Paid
  BY <1>1, <1>2, <1>3, KeepsAlone, Quietly
<1> QED
  BY <1>1, <1>2, <1>4, Fields DEF Turn, KeyInv, Typed, Keeps, At

LEMMA LookupStep ==
  ASSUME KeyInv, NEW r \in Requests, Lookup(r)
  PROVE  Turn(r) /\ (Free \/ Paid)
<1>1. /\ UNCHANGED <<stored, marker, effects>> /\ request[r].at = "lookup"
      /\ faults' \in {faults, faults + 1}
      /\ \/ request' = [request EXCEPT ![r].at = "answered"]
         \/ request' = [request EXCEPT ![r].at = "reserve"]
  BY FaultCounts DEF Lookup, NoResponseSeen, NoFault, Move, At
<1>2. Keeps(r) /\ request'[r].at \in {"answered", "reserve"}
  <2>1. CASE request' = [request EXCEPT ![r].at = "answered"]
    BY <1>1, <2>1, Moved DEF KeyInv, Keeps
  <2>2. CASE request' = [request EXCEPT ![r].at = "reserve"]
    BY <1>1, <2>2, Moved DEF KeyInv, Keeps
  <2> QED
    BY <1>1, <2>1, <2>2
<1>3. ~Bound(r)' /\ ~MayRun(r)' /\ ~MayStore(r)
  BY <1>1, <1>2 DEF Bound, MayRun, MayStore, At
<1>4. Free \/ Paid
  BY <1>1, <1>2, <1>3, KeepsAlone, Quietly
<1> QED
  BY <1>1, <1>2, <1>4, Fields DEF Turn, KeyInv, Typed, Keeps, At

(* Reserved, a request holds the marker; unreserved and alive, it is loose   *)
(* by a fault.                                                               *)
LEMMA ReserveStep ==
  ASSUME KeyInv, NEW r \in Requests, Reserve(r)
  PROVE  Turn(r) /\ (Free \/ Paid)
<1>1. UNCHANGED <<stored, effects>> /\ request[r].at = "reserve"
  BY DEF Reserve, history, At
<1>2. ~MayRun(r) /\ ~MayStore(r)
  BY <1>1 DEF MayRun, MayStore, At
<1>3. ASSUME NEW reserved \in BOOLEAN, Proceed(r, reserved)
      PROVE  /\ request' \in [Requests -> RequestState]
             /\ \A q \in Requests \ {r} : request'[q] = request[q]
             /\ request'[r].at = "recheck" /\ request'[r].reserved = reserved
             /\ request'[r].attempt = request[r].attempt + 1
             /\ request'[r].live = request[r].live
             /\ ~MayRun(r)'
             /\ Token(r)' = NewToken(r)
  <2>1. request' = [request EXCEPT ![r] = [request[r] EXCEPT !.at = "recheck", !.reserved = reserved,
                                                             !.attempt = request[r].attempt + 1]]
    BY <1>3, Zenon DEF Proceed
  <2>2. /\ request' \in [Requests -> RequestState]
        /\ \A q \in Requests \ {r} : request'[q] = request[q]
        /\ request'[r].at = "recheck" /\ request'[r].reserved = reserved
        /\ request'[r].attempt = request[r].attempt + 1
        /\ request'[r].live = request[r].live
    <3> DEFINE n == request[r].attempt + 1
               s == [request[r] EXCEPT !.at = "recheck", !.reserved = reserved, !.attempt = n]
    <3>1. request[r] \in RequestState /\ n \in Nat
      BY Fields DEF KeyInv, Typed
    <3> HIDE DEF n
    <3>2. /\ s \in RequestState /\ s.at = "recheck" /\ s.reserved = reserved
          /\ s.attempt = n /\ s.live = request[r].live
      BY <3>1 DEF RequestState
    <3>3. request' = [request EXCEPT ![r] = s]
      BY <2>1 DEF n
    <3> HIDE DEF s
    <3> QED
      BY <3>2, <3>3 DEF KeyInv, Typed, n
  <2> QED
    BY <2>2 DEF MayRun, At, Token, NewToken
<1>4. ASSUME NEW reserved \in BOOLEAN, Proceed(r, reserved),
             marker' \in {marker, {}, {NewToken(r)}}
      PROVE  Turn(r)
  BY <1>1, <1>3, <1>4, Fields DEF Turn, KeyInv, Typed, At
<1>5. ASSUME NEW reserved \in BOOLEAN, Proceed(r, reserved),
             \/ marker' = marker
             \/ marker = {} /\ marker' = {NewToken(r)}
      PROVE  OnlyMoves(r)
  <2>1. \A q \in Requests \ {r} : Holds(q)' <=> Holds(q)
    BY <1>3, <1>5 DEF Holds, Token, NewToken
  <2> QED
    BY <1>3, <1>5, <2>1 DEF OnlyMoves
<1>6. CASE marker = {} /\ NoFault /\ marker' = {NewToken(r)} /\ Proceed(r, TRUE)
  <2>1. Holds(r)'
    BY <1>3, <1>6 DEF Holds
  <2>2. Free \/ Paid
    BY <1>1, <1>2, <1>3, <1>5, <1>6, <2>1, Quietly DEF NoFault
  <2> QED
    BY <1>4, <1>6, <2>2
<1>7. CASE Move(r, "unanswered") /\ UNCHANGED marker /\ NoFault
  <2>1. Keeps(r) /\ request'[r].at = "unanswered"
    BY <1>7, Fields DEF KeyInv, Keeps, Typed, RequestState, Move
  <2>2. ~Bound(r)' /\ ~MayRun(r)'
    BY <2>1 DEF Bound, MayRun, At
  <2>3. Free \/ Paid
    BY <1>1, <1>2, <1>7, <2>1, <2>2, KeepsAlone, Quietly DEF NoFault
  <2> QED
    BY <1>1, <2>1, <2>3, Fields DEF Turn, KeyInv, Typed, Keeps, At
<1>8. CASE ~request[r].live /\ Proceed(r, FALSE) /\ UNCHANGED marker /\ NoFault
  <2>1. ~Bound(r)'
    BY <1>3, <1>8 DEF Bound
  <2>2. Free \/ Paid
    BY <1>1, <1>2, <1>3, <1>5, <1>8, <2>1, Quietly DEF NoFault
  <2> QED
    BY <1>4, <1>8, <2>2
<1>9. CASE /\ Faulty("cache") /\ Proceed(r, FALSE)
           /\ marker' \in {marker, IF marker = {} THEN {NewToken(r)} ELSE marker}
  <2>1. OnlyMoves(r) /\ Turn(r)
    BY <1>4, <1>5, <1>9
  <2>2. (Open' => Open) /\ Loose' \subseteq Loose \cup {r}
    BY <1>1, <1>2, <1>3, <1>9, <2>1, OpenByOne, LooseByOne
  <2> QED
    BY <1>1, <1>9, <2>1, <2>2, FaultCounts DEF Paid
<1> QED
  BY <1>6, <1>7, <1>8, <1>9 DEF Reserve

(* The holder of the marker runs only while the key is open. *)
LEMMA RecheckStep ==
  ASSUME KeyInv, NEW r \in Requests, Recheck(r)
  PROVE  Turn(r) /\ (Free \/ Paid)
<1>1. /\ UNCHANGED <<stored, marker, effects>> /\ request[r].at = "recheck"
      /\ faults' \in {faults, faults + 1}
      /\ \/ request' = [request EXCEPT ![r].at = "release", ![r].final = TRUE]
         \/ /\ request' = [request EXCEPT ![r].at = "run"]
            /\ faults' = faults + 1 \/ (request[r].live => stored = {})
  BY FaultCounts DEF Recheck, NoResponseSeen, NoFault, Move, At
<1>2. /\ Keeps(r) /\ request'[r].at \in {"release", "run"}
      /\ request'[r].live = request[r].live /\ request'[r].reserved = request[r].reserved
      /\ request'[r].at = "run" => faults' = faults + 1 \/ (request[r].live => stored = {})
  <2>1. CASE request' = [request EXCEPT ![r].at = "release", ![r].final = TRUE]
    BY <1>1, <2>1, Moved DEF KeyInv, Keeps
  <2>2. CASE /\ request' = [request EXCEPT ![r].at = "run"]
             /\ faults' = faults + 1 \/ (request[r].live => stored = {})
    BY <1>1, <2>2, Moved DEF KeyInv, Keeps
  <2> QED
    BY <1>1, <2>1, <2>2
<1>3. ~MayStore(r) /\ (Bound(r)' /\ ~Holds(r)' => Bound(r) /\ ~Holds(r))
  BY <1>1, <1>2 DEF Bound, MayStore, At, Holds, Token, Keeps
<1>4. ASSUME MayRun(r)', faults' # faults + 1
      PROVE  Open
  <2>1. stored = {} /\ Holds(r)
    BY <1>2, <1>4 DEF MayRun, Holds, Token, Keeps, At
  <2>2. ASSUME NEW q \in Requests
        PROVE  ~MayStore(q)
    BY <1>3, <2>1, HolderIsAlone DEF KeyInv, MayStore
  <2> QED
    BY <2>1, <2>2 DEF Open
<1>5. Free \/ Paid
  BY <1>1, <1>2, <1>3, <1>4, KeepsAlone, Quietly
<1> QED
  BY <1>1, <1>2, <1>5, Fields DEF Turn, KeyInv, Typed, Keeps, At

(* A run is spent: a loose request's, or the holder's. *)
LEMMA CommitStep ==
  ASSUME KeyInv, NEW r \in Requests, HandlerCommits(r)
  PROVE  Turn(r) /\ Spends(r)
<1>1. /\ UNCHANGED <<stored, marker, faults>> /\ request[r].at = "run" /\ request[r].live
      /\ effects' = effects \cup {Token(r)}
      /\ request' = [request EXCEPT ![r].at = "store"]
  BY DEF HandlerCommits, Move, At
<1>2. /\ Keeps(r) /\ request'[r].at = "store"
      /\ request'[r].live = request[r].live /\ request'[r].reserved = request[r].reserved
  BY <1>1, Fields DEF KeyInv, Keeps, Typed, RequestState
<1>3. ~Bound(r)' /\ ~MayRun(r)' /\ ~MayStore(r) /\ Bound(r)
  BY <1>1, <1>2 DEF Bound, MayRun, MayStore, At
<1>4. OnlyMoves(r)
  BY <1>2, KeepsAlone
<1>5. Turn(r)
  <2>1. Token(r)' = Token(r)
    BY <1>2 DEF Token, Keeps
  <2>2. Token(r)' \in effects'
    BY <1>1, <2>1
  <2> QED
    BY <1>1, <1>2, <2>2, Fields DEF Turn, KeyInv, Keeps, At
<1>6. CASE ~Holds(r)
  <2>1. r \in Loose /\ Loose' \subseteq Loose \ {r}
    BY <1>3, <1>4, <1>6, LooseByOne DEF Loose
  <2>2. Open' => Open
    BY <1>1, <1>3, <1>4, OpenByOne
  <2> QED
    BY <1>1, <1>5, <2>1, <2>2 DEF Spends
<1>7. CASE Holds(r)
  <2>1. MayRun(r) /\ MayStore(r)'
    BY <1>1, <1>2, <1>7 DEF MayRun, MayStore, At, Holds, Token, Keeps
  <2>2. \A q \in Requests : ~MayRun(q)'
    BY <1>3, <1>4, <1>7, HolderIsAlone DEF KeyInv, MayRun, OnlyMoves
  <2>3. Open /\ ~Open'
    BY <2>1, <2>2 DEF Open
  <2>4. Loose' \subseteq Loose
    BY <1>3, <1>4, LooseByOne
  <2> QED
    BY <1>1, <1>5, <2>3, <2>4 DEF Spends
<1> QED
  BY <1>6, <1>7

LEMMA FailStep ==
  ASSUME KeyInv, NEW r \in Requests, HandlerFails(r)
  PROVE  Turn(r) /\ (Free \/ Paid)
<1>1. /\ UNCHANGED <<stored, marker, effects, faults>> /\ request[r].at = "run"
      /\ request' = [request EXCEPT ![r].at = "release"]
  BY DEF HandlerFails, Move, At, history
<1>2. Keeps(r) /\ request'[r].at = "release"
  BY <1>1, Fields DEF KeyInv, Keeps, Typed, RequestState
<1>3. ~Bound(r)' /\ ~MayRun(r)' /\ ~MayStore(r)
  BY <1>1, <1>2 DEF Bound, MayRun, MayStore, At
<1>4. Free \/ Paid
  BY <1>1, <1>2, <1>3, KeepsAlone, Quietly
<1> QED
  BY <1>1, <1>2, <1>4, Fields DEF Turn, KeyInv, Typed, Keeps, At

(* A response that is not stored is paid for, or the context had ended and   *)
(* was paid for then.                                                        *)
LEMMA StoreStep ==
  ASSUME KeyInv, NEW r \in Requests, Store(r)
  PROVE  Turn(r) /\ (Free \/ Paid)
<1>1. /\ UNCHANGED <<marker, effects>> /\ request[r].at = "store"
      /\ request' = [request EXCEPT ![r].at = "release", ![r].final = request[r].live]
      /\ request[r].live \in BOOLEAN
      /\ \/ request[r].live /\ stored' = {Body[r]} /\ faults' = faults
         \/ ~request[r].live /\ stored' = stored /\ faults' = faults
         \/ stored' = stored /\ faults' = faults + 1
  BY FaultCounts, Fields DEF Store, NoFault, At, history, KeyInv
<1>2. Keeps(r) /\ request'[r].at = "release"
  BY <1>1, Moved DEF KeyInv, Keeps
<1>3. ~Bound(r)' /\ ~MayRun(r)'
  BY <1>1, <1>2 DEF Bound, MayRun, At
<1>4. faults' # faults + 1 => ~MayStore(r) \/ stored' # {}
  BY <1>1 DEF MayStore
<1>5. (faults' = faults \/ faults' = faults + 1) /\ (stored = {} \/ stored' # {})
  BY <1>1
<1>6. Free \/ Paid
  BY <1>1, <1>2, <1>3, <1>4, <1>5, KeepsAlone, Quietly
<1> QED
  BY <1>1, <1>2, <1>6, Fields DEF Turn, KeyInv, Keeps, At

(* A release takes the marker from nobody else. *)
LEMMA ReleaseStep ==
  ASSUME KeyInv, NEW r \in Requests, Release(r)
  PROVE  Turn(r) /\ (Free \/ Paid)
<1>1. /\ UNCHANGED <<stored, effects>> /\ request[r].at = "release"
      /\ \/ marker' = Released(r) /\ faults' = faults
         \/ marker' = marker /\ faults' = faults + 1
      /\ \/ request' = [request EXCEPT ![r].at = "answered"]
         \/ request' = [request EXCEPT ![r].at = "unanswered"]
  BY FaultCounts DEF Release, Move, At, history, NoFault
<1>2. marker' = marker \/ (marker' = {} /\ Holds(r))
  BY <1>1 DEF Released, Holds, OneHolder, KeyInv
<1>3. /\ request' \in [Requests -> RequestState]
      /\ \A q \in Requests \ {r} : request'[q] = request[q]
      /\ request'[r].at \in {"answered", "unanswered"}
      /\ request'[r].attempt = request[r].attempt
  BY <1>1, Moved DEF KeyInv
<1>4. \A q \in Requests \ {r} : Holds(q)' <=> Holds(q)
  <2>1. CASE marker' = marker
    BY <1>3, <2>1 DEF Holds, Token
  <2>2. CASE marker' = {} /\ Holds(r)
    BY <2>2, HolderIsAlone DEF Holds, KeyInv
  <2> QED
    BY <1>2, <2>1, <2>2
<1>5. OnlyMoves(r)
  BY <1>3, <1>4 DEF OnlyMoves
<1>6. ~Bound(r)' /\ ~MayRun(r)' /\ ~MayStore(r)
  BY <1>1, <1>3 DEF Bound, MayRun, MayStore, At
<1>7. Free \/ Paid
  BY <1>1, <1>5, <1>6, Quietly
<1> QED
  BY <1>1, <1>2, <1>3, <1>7, Fields DEF Turn, KeyInv, Typed, At

LEMMA ContextEndsStep ==
  ASSUME KeyInv, NEW r \in Requests, ContextEnds(r)
  PROVE  Turn(r) /\ (Free \/ Paid)
<1>1. /\ UNCHANGED <<stored, marker, effects>> /\ faults' = faults + 1
      /\ request' = [request EXCEPT ![r].live = FALSE]
  BY FaultCounts DEF ContextEnds, history
<1>2. Keeps(r) /\ request'[r].at = request[r].at /\ ~request'[r].live
  BY <1>1, Fields DEF KeyInv, Keeps, Typed, RequestState
<1>3. ~Bound(r)'
  BY <1>2 DEF Bound
<1>4. Free \/ Paid
  BY <1>1, <1>2, <1>3, KeepsAlone, Quietly
<1>5. At(r, "store")' => Token(r)' \in effects'
  BY <1>1, <1>2 DEF KeyInv, ResponsesAreReal, Token, At, Keeps
<1> QED
  BY <1>1, <1>2, <1>4, <1>5, Fields DEF Turn, KeyInv, Keeps

LEMMA StopStep ==
  ASSUME KeyInv, NEW r \in Requests, Stop(r)
  PROVE  Turn(r) /\ (Free \/ Paid)
<1>1. /\ UNCHANGED <<stored, marker, effects>> /\ faults' = faults + 1
      /\ request' = [request EXCEPT ![r].at = "unanswered"]
  BY FaultCounts DEF Stop, history, Move
<1>2. Keeps(r) /\ request'[r].at = "unanswered"
  BY <1>1, Fields DEF KeyInv, Keeps, Typed, RequestState
<1>3. ~Bound(r)'
  BY <1>2 DEF Bound
<1>4. Free \/ Paid
  BY <1>1, <1>2, <1>3, KeepsAlone, Quietly
<1> QED
  BY <1>1, <1>2, <1>4, Fields DEF Turn, KeyInv, Keeps, At

(* A marker that lapses under its holder makes the holder loose. *)
LEMMA MarkerStep ==
  ASSUME KeyInv, MarkerLapses
  PROVE  Free \/ Paid
<1>1. /\ UNCHANGED <<stored, request, effects>> /\ marker' = {}
      /\ \/ ~MarkerIsHeld /\ faults' = faults
         \/ MarkerIsHeld /\ faults' = faults + 1
  BY FaultCounts DEF MarkerLapses, history, NoFault
<1>2. \A q \in Requests : ~Holds(q)' /\ (Bound(q)' <=> Bound(q)) /\ ~MayRun(q)' /\ ~MayStore(q)'
  BY <1>1 DEF Holds, Bound, MayRun, MayStore
<1>3. CASE ~MarkerIsHeld /\ faults' = faults
  <2>1. \A q \in Requests : ~(Holds(q) /\ Bound(q)) /\ ~MayStore(q)
    BY <1>3 DEF MarkerIsHeld, Holds, Bound, MayStore, InHandler, At
  <2>2. Loose' \subseteq Loose /\ (Open' => Open)
    BY <1>1, <1>2, <2>1 DEF Loose, Open
  <2> QED
    BY <1>1, <1>3, <2>2 DEF Free
<1>4. CASE MarkerIsHeld /\ faults' = faults + 1
  <2>1. PICK h \in Requests : Holds(h)
    BY <1>4 DEF MarkerIsHeld, Holds
  <2>2. \A q \in Requests : Holds(q) => q = h
    BY <2>1, HolderIsAlone DEF KeyInv
  <2>3. CASE Bound(h)
    <3>1. Loose' \subseteq Loose \cup {h}
      BY <1>2, <2>2 DEF Loose
    <3>2. ~\E q \in Requests : MayStore(q)
      BY <2>2, <2>3 DEF MayStore, Bound, At
    <3>3. Open' => Open
      BY <1>1, <1>2, <3>2 DEF Open
    <3> QED
      BY <1>1, <1>4, <3>1, <3>3 DEF Paid
  <2>4. CASE ~Bound(h)
    <3>1. Loose' \subseteq Loose
      BY <1>2, <2>2, <2>4 DEF Loose
    <3> QED
      BY <1>1, <1>4, <3>1 DEF Paid
  <2> QED
    BY <2>3, <2>4
<1> QED
  BY <1>1, <1>3, <1>4

LEMMA ResponseStep ==
  ASSUME KeyInv, ResponseLapses
  PROVE  Free \/ Paid
<1>1. UNCHANGED <<marker, request, effects>> /\ faults' = faults + 1
  BY FaultCounts DEF ResponseLapses, history
<1>2. Loose' = Loose
  BY <1>1 DEF Loose, Bound, Holds, Token
<1> QED
  BY <1>1, <1>2 DEF Paid

-----------------------------------------------------------------------------
(* The invariant is inductive *)

LEMMA TurnKeeps ==
  ASSUME IsFiniteSet(Requests), KeyInv, NEW r \in Requests,
         Turn(r), Free \/ Paid \/ Spends(r)
  PROVE  KeyInv'
<1>1. Budget' /\ IsFiniteSet(effects')
  BY BudgetKept DEF KeyInv
<1>2. faults' \in Nat
  BY DEF Free, Paid, Spends, KeyInv, Typed
<1>3. /\ Token(r) \in Requests \X Nat /\ NewToken(r) \in Requests \X Nat
      /\ request[r].attempt \in Nat
  BY Fields DEF KeyInv, NewToken
<1>4. request'[r].attempt \in Nat
  BY DEF Turn, RequestState
<1>5. effects \subseteq effects' /\ effects' \subseteq effects \cup {Token(r)}
  BY DEF Turn
<1>6. Typed'
  BY <1>1, <1>2, <1>3, <1>5 DEF KeyInv, Typed, Turn
<1>7. OneHolder'
  BY DEF KeyInv, OneHolder, Turn
<1>8. AttemptsAreNew'
  <2> SUFFICES ASSUME NEW e \in effects'
               PROVE  /\ e[2] <= request'[e[1]].attempt
                      /\ request'[e[1]].at \in {"recheck", "run"} => e[2] < request'[e[1]].attempt
    BY DEF AttemptsAreNew
  <2>1. e \in Requests \X Nat
    BY <1>6 DEF Typed
  <2>2. CASE e \in effects /\ e[1] # r
    BY <2>1, <2>2 DEF KeyInv, AttemptsAreNew, Turn
  <2>3. CASE e \in effects /\ e[1] = r
    <3>1. /\ e[2] <= request[r].attempt
          /\ request[r].at \in {"recheck", "run"} => e[2] < request[r].attempt
      BY <2>3 DEF KeyInv, AttemptsAreNew
    <3> QED
      BY <1>3, <1>4, <2>1, <2>3, <3>1 DEF Turn
  <2>4. CASE e \notin effects
    <3>1. e = Token(r) /\ request'[r].at = "store" /\ request'[r].attempt = request[r].attempt
      BY <1>5, <2>4 DEF Turn, At
    <3> QED
      BY <1>3, <3>1 DEF Token
  <2> QED
    BY <2>2, <2>3, <2>4
<1>9. ResponsesAreReal'
  <2>1. stored' # {} => \E e \in effects' : stored' = {Body[e[1]]}
    <3>1. CASE stored' \in {stored, {}}
      BY <1>5, <3>1 DEF KeyInv, ResponsesAreReal
    <3>2. CASE stored' = {Body[r]} /\ At(r, "store")
      <4>1. Token(r) \in effects' /\ Token(r)[1] = r
        BY <1>5, <3>2 DEF KeyInv, ResponsesAreReal, Token
      <4> QED
        BY <3>2, <4>1
    <3> QED
      BY <3>1, <3>2 DEF Turn
  <2>2. ASSUME NEW q \in Requests, At(q, "store")'
        PROVE  Token(q)' \in effects'
    <3>1. CASE q = r
      BY <2>2, <3>1 DEF Turn
    <3>2. CASE q # r
      BY <1>5, <2>2, <3>2 DEF Turn, KeyInv, ResponsesAreReal, At, Token
    <3> QED
      BY <3>1, <3>2
  <2> QED
    BY <2>1, <2>2 DEF ResponsesAreReal
<1> QED
  BY <1>1, <1>6, <1>7, <1>8, <1>9 DEF KeyInv

LEMMA KeyInvStarts ==
  ASSUME IsFiniteSet(Requests), IdempotencyInit
  PROVE  KeyInv
<1>1. Typed
  BY FS_EmptySet DEF IdempotencyInit, Typed, RequestState, Unsent
<1>2. OneHolder /\ AttemptsAreNew /\ ResponsesAreReal
  BY DEF IdempotencyInit, OneHolder, AttemptsAreNew, ResponsesAreReal, At, Unsent
<1>3. Cardinality(effects) = 0 /\ Cardinality(Loose) = 0
  <2>1. Loose = {} /\ effects = {}
    BY DEF IdempotencyInit, Loose, Bound, Unsent
  <2> QED
    BY <2>1, FS_EmptySet
<1>4. Budget
  BY <1>3, GrantedIsNat DEF Budget, IdempotencyInit
<1> QED
  BY <1>1, <1>2, <1>4 DEF KeyInv

LEMMA KeyInvKept ==
  ASSUME IsFiniteSet(Requests), KeyInv, [IdempotencyNext]_idemVars
  PROVE  KeyInv'
<1>1. ASSUME NEW r \in Requests, Send(r) \/ HandleStep(r) \/ ContextEnds(r) \/ Stop(r)
      PROVE  KeyInv'
  BY <1>1, TurnKeeps, SendStep, LookupStep, ReserveStep, RecheckStep, CommitStep,
     FailStep, StoreStep, ReleaseStep, ContextEndsStep, StopStep DEF HandleStep
<1>2. CASE MarkerLapses
  <2>1. UNCHANGED <<stored, request, effects>> /\ marker' = {} /\ faults' \in {faults, faults + 1}
    BY <1>2, FaultCounts DEF MarkerLapses, history, NoFault
  <2>2. Budget'
    BY <1>2, MarkerStep, BudgetKept DEF KeyInv
  <2> QED
    BY <2>1, <2>2 DEF KeyInv, Typed, OneHolder, AttemptsAreNew, ResponsesAreReal, At, Token
<1>3. CASE ResponseLapses
  <2>1. UNCHANGED <<marker, request, effects>> /\ stored' = {} /\ faults' = faults + 1
    BY <1>3, FaultCounts DEF ResponseLapses, history
  <2>2. Budget'
    BY <1>3, ResponseStep, BudgetKept DEF KeyInv
  <2> QED
    BY <2>1, <2>2 DEF KeyInv, Typed, OneHolder, AttemptsAreNew, ResponsesAreReal, At, Token
<1>4. CASE UNCHANGED idemVars
  BY <1>4 DEF idemVars, KeyInv, Typed, OneHolder, AttemptsAreNew, ResponsesAreReal, Budget,
     Granted, Open, Loose, Bound, Holds, MayRun, MayStore, At, Token
<1> QED
  BY <1>1, <1>2, <1>3, <1>4 DEF IdempotencyNext

(* Whatever fails, and however often, the runs that took effect and those on *)
(* their way are the faults so far and one more, at most.                    *)
THEOREM KeyInvariant == IdempotencySpec => []KeyInv
<1>1. IdempotencyInit => KeyInv
  BY KeyInvStarts, RequestsFinite
<1>2. KeyInv /\ [IdempotencyNext]_idemVars => KeyInv'
  BY KeyInvKept, RequestsFinite
<1> QED
  BY <1>1, <1>2, PTL DEF IdempotencySpec

-----------------------------------------------------------------------------
(* Every step is a step of OncePerKey, or none *)

(* A run that takes effect is the first, or on credit. *)
LEMMA CommitIsApply ==
  ASSUME IsFiniteSet(Requests), KeyInv, NEW r \in Requests, HandlerCommits(r)
  PROVE  Once!Apply(r)
<1>1. /\ request[r].at = "run" /\ request[r].live /\ effects' = effects \cup {Token(r)}
      /\ faults' = faults /\ told' = [told EXCEPT ![r] = @ \cup {Body[r]}]
  BY DEF HandlerCommits, At, Tell
<1>2. Token(r) \notin effects /\ Token(r)[1] = r
  BY <1>1, Fields DEF KeyInv, AttemptsAreNew, Token
<1>3. /\ Cardinality(effects) \in Nat /\ Cardinality(Loose) \in Nat /\ faults \in Nat
      /\ Cardinality(effects) + Cardinality(Loose) + Granted <= faults + 1
  BY LooseIsFinite, FS_CardinalityType DEF KeyInv, Typed, Budget
<1>4. Cardinality(Loose) >= 1 \/ Granted = 1
  <2>1. CASE Holds(r)
    BY <1>1, <2>1 DEF Granted, Open, MayRun, At
  <2>2. CASE ~Holds(r)
    <3>1. r \in Loose
      BY <1>1, <2>2 DEF Loose, Bound
    <3>2. Cardinality(Loose) # 0
      BY <3>1, LooseIsFinite, FS_EmptySet
    <3> QED
      BY <1>3, <3>2
  <2> QED
    BY <2>1, <2>2
<1>5. Cardinality(effects) <= faults
  BY <1>3, <1>4, GrantedIsNat
<1>6. Once!Cardinality(effects) = Cardinality(effects)
  BY Zenon DEF Once!Cardinality, Cardinality
<1> QED
  BY <1>1, <1>2, <1>5, <1>6 DEF Once!Apply

LEMMA StepIsOnce ==
  ASSUME IsFiniteSet(Requests), KeyInv, [IdempotencyNext]_idemVars
  PROVE  [Once!OnceNext]_(Once!onceVars)
<1>1. ASSUME NEW r \in Requests, stored = {Body[r]}, Tell(r, Body[r]), UNCHANGED <<effects, faults>>
      PROVE  Once!Replay(r)
  <2>1. \E run \in effects : Body[run[1]] = Body[r]
    BY <1>1 DEF KeyInv, ResponsesAreReal
  <2> QED
    BY <1>1, <2>1 DEF Once!Replay, Tell
<1>2. ASSUME NEW kind, Faulty(kind), UNCHANGED <<effects, told>>
      PROVE  Once!Fault
  BY <1>2 DEF Faulty, Once!Fault
<1>3. ASSUME NEW r \in Requests, Lookup(r) \/ Recheck(r)
      PROVE  Once!Fault \/ Once!Replay(r) \/ UNCHANGED Once!onceVars
  BY <1>1, <1>2, <1>3
     DEF Lookup, Recheck, AnswerFromStore, NoResponseSeen, NoFault, Once!onceVars
<1>4. ASSUME NEW r \in Requests,
             \/ Send(r) \/ Reserve(r) \/ HandlerFails(r) \/ Store(r)
             \/ Release(r) \/ ContextEnds(r) \/ Stop(r)
      PROVE  Once!Fault \/ UNCHANGED Once!onceVars
  BY <1>2, <1>4
     DEF Send, Reserve, HandlerFails, Store, Release, ContextEnds, Stop, NoFault, history,
         Once!onceVars
<1>5. CASE MarkerLapses \/ ResponseLapses
  BY <1>2, <1>5 DEF MarkerLapses, ResponseLapses, NoFault, history, Once!onceVars, Once!OnceNext
<1>6. CASE UNCHANGED idemVars
  BY <1>6 DEF idemVars, Once!onceVars
<1> QED
  BY <1>3, <1>4, <1>5, <1>6, CommitIsApply DEF IdempotencyNext, HandleStep, Once!OnceNext

(* WithIdempotency keeps the promise of OncePerKey: an operation takes       *)
(* effect once, and once more at most for every fault, and callers are told  *)
(* nothing but what an operation of their own body came to.                  *)
THEOREM PromiseKept == IdempotencySpec => KeepsPromise
<1>1. IdempotencyInit => Once!OnceInit
  BY DEF IdempotencyInit, Once!OnceInit
<1>2. KeyInv /\ [IdempotencyNext]_idemVars => [Once!OnceNext]_(Once!onceVars)
  BY StepIsOnce, RequestsFinite
<1> QED
  BY <1>1, <1>2, KeyInvariant, PTL DEF IdempotencySpec, KeepsPromise, Once!OnceSpec

=============================================================================
