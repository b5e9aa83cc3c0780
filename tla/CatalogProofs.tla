---------------------------- MODULE CatalogProofs ----------------------------
(***************************************************************************)
(* Proofs about the module library, for any number of users, modules and   *)
(* versions and any documents.                                             *)
(*                                                                         *)
(* TableSteps says what the steps do to the tables; that the newest number *)
(* is the active version's, and that a name is one module's, follow from   *)
(* its cases.  The largest number is a fact about sets: the numbers of a   *)
(* module are bounded (NumbersBounded), so there is one.                   *)
(***************************************************************************)
EXTENDS CatalogProperties, FiniteSetsExt, SequenceTheorems, WellFoundedInduction, TLAPS

-----------------------------------------------------------------------------
(* The inductive invariant *)

Row == [doc: Seq(Calls), number: Nat, status: {"DRAFT", "PUBLISHED", "ARCHIVED"}]
Request == [at: {"idle", "walk", "commit"},
            op: {"none", "create", "add", "publish", "workflow", "archive"},
            module: Modules, version: Nat, doc: Seq(Calls), todo: Seq(Calls),
            resolved: SUBSET Resolved]

TablesTyped ==
    /\ versions \in [Modules -> Seq(Row)]
    /\ active \in [Modules -> Nat]
    /\ exists \in SUBSET Modules

(* An active version exists, and what was never created is empty. *)
PointersSound ==
    \A m \in Modules :
        /\ active[m] # 0 => active[m] \in DOMAIN versions[m]
        /\ m \notin exists => versions[m] = <<>> /\ active[m] = 0

NumbersBounded ==
    \E b \in Nat : \A m \in Modules : \A i \in DOMAIN versions[m] : Number(m, i) <= b

TablesInv == TablesTyped /\ PointersSound /\ NumbersBounded /\ OneModulePerName /\ NewestIsActive

(* What a request took from the tables is there still. *)
Sound(s) ==
    s.at # "idle" =>
        /\ s.op \in {"add", "publish", "archive"} => s.module \in exists
        /\ s.op = "publish" => s.version \in DOMAIN versions[s.module]

RequestsInv == user \in [Users -> Request] /\ \A u \in Users : Sound(user[u])

CatalogInv == TablesInv /\ RequestsInv

-----------------------------------------------------------------------------
Numbers(m) == {Number(m, i) : i \in DOMAIN versions[m]} \cup {0}

LEMMA RowsAreRows ==
  ASSUME TablesTyped, NEW m \in Modules, NEW i \in DOMAIN versions[m]
  PROVE  /\ versions[m][i] \in Row /\ i \in 1 .. Len(versions[m])
         /\ Number(m, i) \in Nat
<1>1. versions[m] \in Seq(Row)
  BY DEF TablesTyped
<1>2. i \in 1 .. Len(versions[m])
  BY <1>1, LenProperties
<1>3. versions[m][i] \in Row
  BY <1>1, <1>2, ElementOfSeq
<1> QED
  BY <1>2, <1>3 DEF Row, Number

(* A bounded set of numbers has a largest, and it is what Max gives (the     *)
(* SELECT max(...) of the repositories).                                     *)
LEMMA MaxIsLargest ==
  ASSUME NEW S, S \subseteq Nat, S # {}, NEW b \in Nat, \A s \in S : s <= b
  PROVE  Max(S) \in S /\ \A s \in S : s <= Max(S)
<1> DEFINE Room == {b - s : s \in S}
<1>1. Room \subseteq Nat /\ Room # {}
  <2>1. \A s \in S : b - s \in Nat
    OBVIOUS
  <2> QED
    BY <2>1
<1>2. PICK n \in Room : \A k \in Room : ~(<<k, n>> \in OpToRel(<, Nat))
  BY <1>1, WFMin, NatLessThanWellFounded
<1>3. PICK x \in S : n = b - x
  OBVIOUS
<1>4. \A y \in S : ~(b - y < b - x)
  BY <1>1, <1>2, <1>3 DEF OpToRel
<1>5. \A y \in S : x >= y
  BY <1>4
<1> QED
  BY <1>5 DEF Max

(* The next number is above every number given. *)
NextIsAbove ==
    \A m \in Modules :
        /\ NextNumber(m) \in Nat \ {0}
        /\ \A i \in DOMAIN versions[m] : Number(m, i) < NextNumber(m)

LEMMA NextIsNew == TablesTyped /\ NumbersBounded => NextIsAbove
<1> SUFFICES ASSUME TablesTyped, NumbersBounded, NEW m \in Modules
             PROVE  /\ NextNumber(m) \in Nat \ {0}
                    /\ \A i \in DOMAIN versions[m] : Number(m, i) < NextNumber(m)
  BY DEF NextIsAbove
<1>1. PICK b \in Nat : \A i \in DOMAIN versions[m] : Number(m, i) <= b
  BY DEF NumbersBounded
<1>2. Numbers(m) \subseteq Nat /\ Numbers(m) # {} /\ \A n \in Numbers(m) : n <= b
  BY <1>1, RowsAreRows DEF Numbers
<1>3. Max(Numbers(m)) \in Numbers(m) /\ \A n \in Numbers(m) : n <= Max(Numbers(m))
  BY <1>2, MaxIsLargest
<1>4. NextNumber(m) = Max(Numbers(m)) + 1
  BY DEF NextNumber, Numbers
<1>5. Max(Numbers(m)) \in Nat
  BY <1>2, <1>3
<1>6. \A i \in DOMAIN versions[m] : Number(m, i) \in Numbers(m)
  BY DEF Numbers
<1> QED
  BY <1>3, <1>4, <1>5, <1>6, RowsAreRows

-----------------------------------------------------------------------------
(* What the steps do to the tables *)

NewRow(m, s) == versions' = [versions EXCEPT ![m] = s]
PublishedRow(m, i) == [versions[m][i] EXCEPT !.status = "PUBLISHED", !.number = NextNumber(m)]
ArchivedRow(m, i) == [versions[m][i] EXCEPT !.status = "ARCHIVED"]

Creates(m) ==
    /\ ~InUse(m) /\ exists' = exists \cup {m} /\ active' = active
    /\ \E doc \in Seq(Calls) : NewRow(m, <<Draft(doc)>>)

Adds(m) ==
    /\ m \in exists /\ UNCHANGED <<active, exists>>
    /\ \E doc \in Seq(Calls) : NewRow(m, Append(versions[m], Draft(doc)))

Publishes(m, i) ==
    /\ m \in exists /\ i \in DOMAIN versions[m] /\ versions[m][i].status = "DRAFT"
    /\ NewRow(m, [versions[m] EXCEPT ![i] = PublishedRow(m, i)])
    /\ active' = [active EXCEPT ![m] = i] /\ exists' = exists

Archives(m, i) ==
    /\ m \in exists /\ i = active[m] /\ i # 0
    /\ NewRow(m, [versions[m] EXCEPT ![i] = ArchivedRow(m, i)])
    /\ active' = [active EXCEPT ![m] = 0] /\ exists' = exists

TableStep ==
    \/ UNCHANGED tables
    \/ \E m \in Modules : Creates(m) \/ Adds(m)
    \/ \E m \in Modules : \E i \in Nat : Publishes(m, i) \/ Archives(m, i)

NewestAt(m) ==
    \A i \in DOMAIN versions[m] :
        (Number(m, i) # 0 /\ Number(m, i) + 1 = NextNumber(m))
            => (versions[m][i].status = "PUBLISHED" <=> active[m] = i)

(* A module nothing happens to keeps its newest number. *)
LEMMA OthersKeep ==
  ASSUME NEW m \in Modules, versions'[m] = versions[m], active'[m] = active[m], NewestAt(m)
  PROVE  NewestAt(m)'
<1>1. NextNumber(m)' = NextNumber(m)
  BY DEF NextNumber, Number
<1> QED
  BY <1>1 DEF NewestAt, Number

(* Rows that are written into a module's table, and the tables after it. *)
LEMMA NewRowTyped ==
  ASSUME TablesTyped, NEW m \in Modules, NEW s \in Seq(Row), NewRow(m, s)
  PROVE  /\ versions' \in [Modules -> Seq(Row)]
         /\ versions'[m] = s
         /\ \A o \in Modules \ {m} : versions'[o] = versions[o]
  BY DEF TablesTyped, NewRow

LEMMA BoundKept ==
  ASSUME TablesTyped, NumbersBounded, NEW m \in Modules, NEW n \in Nat,
         \A o \in Modules \ {m} : versions'[o] = versions[o],
         \A i \in DOMAIN versions'[m] :
             \/ Number(m, i)' <= n
             \/ i \in DOMAIN versions[m] /\ Number(m, i)' = Number(m, i),
         \A i \in DOMAIN versions'[m] : Number(m, i)' \in Nat
  PROVE  NumbersBounded'
<1>1. PICK b \in Nat : \A o \in Modules : \A i \in DOMAIN versions[o] : Number(o, i) <= b
  BY DEF NumbersBounded
<1> DEFINE c == b + n
<1>2. c \in Nat /\ n <= c /\ b <= c
  OBVIOUS
<1>3. ASSUME NEW o \in Modules, NEW i \in DOMAIN versions'[o]
      PROVE  Number(o, i)' <= c
  <2>1. CASE o = m
    BY <1>1, <1>2, <1>3, <2>1
  <2>2. CASE o # m
    <3>1. i \in DOMAIN versions[o] /\ Number(o, i)' = Number(o, i)
      BY <1>3, <2>2 DEF Number
    <3>2. Number(o, i) \in Nat
      BY <3>1, RowsAreRows
    <3> QED
      BY <1>1, <1>2, <3>1, <3>2
  <2> QED
    BY <2>1, <2>2
<1> HIDE DEF c
<1> QED
  BY <1>2, <1>3 DEF NumbersBounded

LEMMA NewestKept ==
  ASSUME TablesInv, NEW m \in Modules, exists' \in SUBSET Modules, exists' \subseteq exists \cup {m},
         \A o \in Modules \ {m} : versions'[o] = versions[o] /\ active'[o] = active[o],
         NewestAt(m)'
  PROVE  NewestIsActive'
<1>1. ASSUME NEW o \in exists'
      PROVE  NewestAt(o)'
  <2>1. CASE o = m
    BY <2>1
  <2>2. CASE o # m
    <3>1. NewestAt(o)
      BY <1>1, <2>2 DEF TablesInv, NewestIsActive, NewestAt
    <3> QED
      BY <1>1, <2>2, <3>1, OthersKeep
  <2> QED
    BY <2>1, <2>2
<1> QED
  BY <1>1 DEF NewestIsActive, NewestAt

LEMMA CreatesKeeps ==
  ASSUME TablesInv, NEW m \in Modules, Creates(m)
  PROVE  TablesInv'
<1>1. PICK doc \in Seq(Calls) : NewRow(m, <<Draft(doc)>>)
  BY DEF Creates
<1>2. <<Draft(doc)>> \in Seq(Row)
  BY DEF Row, Draft
<1>3. /\ versions' \in [Modules -> Seq(Row)] /\ versions'[m] = <<Draft(doc)>>
      /\ \A o \in Modules \ {m} : versions'[o] = versions[o]
  BY <1>1, <1>2, NewRowTyped DEF TablesInv
<1>4. /\ active' = active /\ exists' = exists \cup {m} /\ m \notin exists
  BY DEF Creates, InUse
<1>5. active[m] = 0
  BY <1>4 DEF TablesInv, PointersSound
<1>6. TablesTyped'
  BY <1>3, <1>4 DEF TablesInv, TablesTyped
<1>7. PointersSound'
  BY <1>3, <1>4, <1>5 DEF TablesInv, PointersSound
<1>8. DOMAIN versions'[m] = {1} /\ Number(m, 1)' = 0
  BY <1>3 DEF Number, Draft
<1>9. NumbersBounded'
  BY <1>3, <1>8, BoundKept DEF TablesInv
<1>10. OneModulePerName'
  BY <1>4 DEF TablesInv, OneModulePerName, Creates, InUse
<1>11. NewestAt(m)'
  BY <1>8 DEF NewestAt
<1>12. NewestIsActive'
  BY <1>3, <1>4, <1>6, <1>11, NewestKept DEF TablesTyped
<1> QED
  BY <1>6, <1>7, <1>9, <1>10, <1>12 DEF TablesInv

LEMMA AddsKeeps ==
  ASSUME TablesInv, NEW m \in Modules, Adds(m)
  PROVE  TablesInv'
<1>1. PICK doc \in Seq(Calls) : NewRow(m, Append(versions[m], Draft(doc)))
  BY DEF Adds
<1> DEFINE old == versions[m]
           new == Append(old, Draft(doc))
<1>2. old \in Seq(Row) /\ Draft(doc) \in Row
  BY DEF TablesInv, TablesTyped, Row, Draft
<1>3. /\ new \in Seq(Row) /\ Len(new) = Len(old) + 1 /\ Len(old) \in Nat
      /\ DOMAIN new = 1 .. Len(old) + 1 /\ DOMAIN old = 1 .. Len(old)
      /\ \A i \in 1 .. Len(old) : new[i] = old[i]
      /\ new[Len(old) + 1] = Draft(doc)
  BY <1>2
<1>4. /\ versions' \in [Modules -> Seq(Row)] /\ versions'[m] = new
      /\ \A o \in Modules \ {m} : versions'[o] = versions[o]
  BY <1>1, <1>3, NewRowTyped DEF TablesInv
<1>5. active' = active /\ exists' = exists /\ m \in exists
  BY DEF Adds
<1>6. TablesTyped'
  BY <1>4, <1>5 DEF TablesInv, TablesTyped
<1>7. PointersSound'
  BY <1>3, <1>4, <1>5 DEF TablesInv, PointersSound
<1>0. PICK last \in Nat : last = Len(old) + 1
  BY <1>3
<1>8. /\ DOMAIN versions'[m] = DOMAIN versions[m] \cup {last}
      /\ last \notin DOMAIN versions[m]
      /\ \A i \in DOMAIN versions[m] : versions'[m][i] = versions[m][i]
      /\ versions'[m][last] = Draft(doc)
  <2> HIDE DEF new
  <2>1. 1 .. last = 1 .. Len(old) \cup {last} /\ last \notin 1 .. Len(old)
    BY <1>0, <1>3
  <2> QED
    BY <1>0, <1>3, <1>4, <2>1
<1> HIDE DEF new, old
<1>9. /\ \A i \in DOMAIN versions[m] : Number(m, i)' = Number(m, i)
      /\ Number(m, last)' = 0
  BY <1>8 DEF Number, Draft
<1>10. NumbersBounded'
  <2>1. \A i \in DOMAIN versions'[m] : Number(m, i)' \in Nat
    <3> SUFFICES ASSUME NEW i \in DOMAIN versions'[m]
                 PROVE  Number(m, i)' \in Nat
      OBVIOUS
    <3>1. CASE i \in DOMAIN versions[m]
      BY <1>9, <3>1, RowsAreRows DEF TablesInv
    <3>2. CASE i = last
      BY <1>9, <3>2
    <3> QED
      BY <1>8, <3>1, <3>2
  <2>2. \A i \in DOMAIN versions'[m] :
            \/ Number(m, i)' <= 0
            \/ i \in DOMAIN versions[m] /\ Number(m, i)' = Number(m, i)
    BY <1>8, <1>9
  <2> QED
    BY <1>4, <2>1, <2>2, BoundKept DEF TablesInv
<1>11. OneModulePerName'
  BY <1>5 DEF TablesInv, OneModulePerName
<1>12. NextNumber(m)' = NextNumber(m)
  <2>1. Numbers(m)' = Numbers(m)
    BY <1>8, <1>9 DEF Numbers
  <2> QED
    BY <2>1 DEF NextNumber, Numbers
<1>13. NewestAt(m)'
  <2>1. NewestAt(m)
    BY <1>5 DEF TablesInv, NewestIsActive, NewestAt
  <2> QED
    BY <2>1, <1>5, <1>8, <1>9, <1>12 DEF NewestAt
<1>14. NewestIsActive'
  BY <1>4, <1>5, <1>6, <1>13, NewestKept DEF TablesTyped
<1> QED
  BY <1>6, <1>7, <1>10, <1>11, <1>14 DEF TablesInv

(* One row of a module's table is written anew. *)
LEMMA RowWritten ==
  ASSUME TablesTyped, NEW m \in Modules, NEW i \in DOMAIN versions[m], NEW row \in Row,
         NewRow(m, [versions[m] EXCEPT ![i] = row])
  PROVE  /\ versions' \in [Modules -> Seq(Row)]
         /\ \A o \in Modules \ {m} : versions'[o] = versions[o]
         /\ DOMAIN versions'[m] = DOMAIN versions[m]
         /\ versions'[m][i] = row
         /\ \A j \in DOMAIN versions[m] \ {i} : versions'[m][j] = versions[m][j]
<1> DEFINE old == versions[m]
           new == [old EXCEPT ![i] = row]
<1>1. old \in Seq(Row) /\ i \in 1 .. Len(old) /\ DOMAIN old = 1 .. Len(old)
  BY RowsAreRows, LenProperties DEF TablesTyped
<1>2. /\ new \in Seq(Row) /\ Len(new) = Len(old)
      /\ \A j \in 1 .. Len(old) : new[j] = IF j = i THEN row ELSE old[j]
  BY <1>1, ExceptSeq
<1>3. DOMAIN new = DOMAIN old
  OBVIOUS
<1>4. /\ versions' \in [Modules -> Seq(Row)] /\ versions'[m] = new
      /\ \A o \in Modules \ {m} : versions'[o] = versions[o]
  BY <1>2, NewRowTyped
<1> HIDE DEF new
<1> QED
  BY <1>1, <1>2, <1>3, <1>4

LEMMA PublishesKeeps ==
  ASSUME TablesInv, NEW m \in Modules, NEW i, Publishes(m, i)
  PROVE  TablesInv'
<1> DEFINE n == NextNumber(m)
           row == PublishedRow(m, i)
<1>1. /\ m \in exists /\ i \in DOMAIN versions[m] /\ exists' = exists
      /\ active' = [active EXCEPT ![m] = i]
      /\ NewRow(m, [versions[m] EXCEPT ![i] = row])
  BY DEF Publishes
<1>2. TablesTyped /\ NumbersBounded
  BY DEF TablesInv
<1>3. n \in Nat \ {0} /\ \A j \in DOMAIN versions[m] : Number(m, j) < n
  BY <1>2, NextIsNew DEF NextIsAbove, n
<1>4. versions[m][i] \in Row /\ i \in 1 .. Len(versions[m])
  BY <1>1, <1>2, RowsAreRows
<1>5. i \in Nat \ {0}
  BY <1>2, <1>4 DEF TablesTyped
<1> HIDE DEF n
<1>6. row \in Row /\ row.number = n /\ row.status = "PUBLISHED"
  BY <1>3, <1>4 DEF Row, PublishedRow, n
<1> HIDE DEF row
<1>7. /\ versions' \in [Modules -> Seq(Row)]
      /\ \A o \in Modules \ {m} : versions'[o] = versions[o]
      /\ DOMAIN versions'[m] = DOMAIN versions[m]
      /\ versions'[m][i] = row
      /\ \A j \in DOMAIN versions[m] \ {i} : versions'[m][j] = versions[m][j]
  BY <1>1, <1>2, <1>6, RowWritten
<1>8. TablesTyped'
  BY <1>1, <1>2, <1>5, <1>7 DEF TablesTyped
<1>9. PointersSound'
  BY <1>1, <1>2, <1>7, <1>8 DEF TablesInv, PointersSound, TablesTyped
<1>10. /\ Number(m, i)' = n
       /\ \A j \in DOMAIN versions[m] \ {i} : Number(m, j)' = Number(m, j)
  BY <1>6, <1>7 DEF Number
<1>11. NumbersBounded'
  BY <1>2, <1>3, <1>7, <1>8, <1>10, BoundKept, RowsAreRows
<1>12. OneModulePerName'
  BY <1>1 DEF TablesInv, OneModulePerName
<1>13. NewestAt(m)'
  <2> SUFFICES ASSUME NEW j \in DOMAIN versions'[m], Number(m, j)' + 1 = NextNumber(m)'
               PROVE  versions'[m][j].status = "PUBLISHED" <=> active'[m] = j
    BY DEF NewestAt
  <2>1. Number(m, i)' < NextNumber(m)' /\ NextNumber(m)' \in Nat
    <3>1. NextIsAbove'
      BY <1>8, <1>11, NextIsNew, PTL
    <3> QED
      BY <1>1, <1>7, <3>1 DEF NextIsAbove
  <2>2. j = i
    BY <1>3, <1>7, <1>10, <2>1, RowsAreRows, <1>2
  <2> QED
    BY <1>1, <1>2, <1>6, <1>7, <2>2 DEF TablesTyped
<1>14. NewestIsActive'
  BY <1>1, <1>2, <1>7, <1>8, <1>13, NewestKept DEF TablesTyped
<1> QED
  BY <1>8, <1>9, <1>11, <1>12, <1>14 DEF TablesInv

LEMMA ArchivesKeeps ==
  ASSUME TablesInv, NEW m \in Modules, NEW i, Archives(m, i)
  PROVE  TablesInv'
<1> DEFINE row == ArchivedRow(m, i)
<1>1. /\ m \in exists /\ i = active[m] /\ i # 0 /\ exists' = exists
      /\ active' = [active EXCEPT ![m] = 0]
      /\ NewRow(m, [versions[m] EXCEPT ![i] = row])
  BY DEF Archives
<1>2. TablesTyped /\ NumbersBounded
  BY DEF TablesInv
<1>3. i \in DOMAIN versions[m]
  BY <1>1 DEF TablesInv, PointersSound
<1>4. versions[m][i] \in Row
  BY <1>2, <1>3, RowsAreRows
<1>5. row \in Row /\ row.number = Number(m, i) /\ row.status = "ARCHIVED"
  BY <1>4 DEF Row, ArchivedRow, Number
<1> HIDE DEF row
<1>6. /\ versions' \in [Modules -> Seq(Row)]
      /\ \A o \in Modules \ {m} : versions'[o] = versions[o]
      /\ DOMAIN versions'[m] = DOMAIN versions[m]
      /\ versions'[m][i] = row
      /\ \A j \in DOMAIN versions[m] \ {i} : versions'[m][j] = versions[m][j]
  BY <1>1, <1>2, <1>3, <1>5, RowWritten
<1>7. TablesTyped'
  BY <1>1, <1>2, <1>6 DEF TablesTyped
<1>8. PointersSound'
  BY <1>1, <1>2, <1>6 DEF TablesInv, PointersSound, TablesTyped
<1>9. \A j \in DOMAIN versions[m] : Number(m, j)' = Number(m, j)
  BY <1>5, <1>6 DEF Number
<1>10. NumbersBounded'
  BY <1>2, <1>6, <1>9, BoundKept, RowsAreRows
<1>11. OneModulePerName'
  BY <1>1 DEF TablesInv, OneModulePerName
<1>12. NextNumber(m)' = NextNumber(m)
  <2>1. Numbers(m)' = Numbers(m)
    BY <1>6, <1>9 DEF Numbers
  <2> QED
    BY <2>1 DEF NextNumber, Numbers
<1>13. NewestAt(m)'
  <2> SUFFICES ASSUME NEW j \in DOMAIN versions'[m], Number(m, j)' # 0,
                      Number(m, j)' + 1 = NextNumber(m)'
               PROVE  versions'[m][j].status = "PUBLISHED" <=> active'[m] = j
    BY DEF NewestAt
  <2>1. active'[m] = 0 /\ j # 0
    BY <1>1, <1>2, <1>6, RowsAreRows DEF TablesTyped
  <2>2. CASE j = i
    BY <1>5, <1>6, <2>1, <2>2
  <2>3. CASE j # i
    <3>1. versions[m][j].status = "PUBLISHED" <=> active[m] = j
      BY <1>1, <1>6, <1>9, <1>12 DEF TablesInv, NewestIsActive
    <3> QED
      BY <1>1, <1>6, <2>1, <2>3, <3>1
  <2> QED
    BY <2>2, <2>3
<1>14. NewestIsActive'
  BY <1>1, <1>2, <1>6, <1>7, <1>13, NewestKept DEF TablesTyped
<1> QED
  BY <1>7, <1>8, <1>10, <1>11, <1>14 DEF TablesInv

-----------------------------------------------------------------------------
(* What the steps do to the requests, and to the tables under them *)

(* No row goes: what was taken from the tables is there still. *)
TablesGrow ==
    /\ exists \subseteq exists'
    /\ \A m \in Modules : DOMAIN versions[m] \subseteq DOMAIN versions'[m]

LEMMA TablesKept ==
  ASSUME TablesInv, TableStep
  PROVE  TablesInv' /\ TablesGrow
<1>1. CASE UNCHANGED tables
  <2>1. versions' = versions /\ active' = active /\ exists' = exists
    BY <1>1 DEF tables
  <2>2. TablesTyped' /\ PointersSound' /\ NumbersBounded' /\ OneModulePerName' /\ TablesGrow
    BY <2>1 DEF TablesInv, TablesTyped, PointersSound, NumbersBounded, OneModulePerName, Number,
       TablesGrow
  <2>3. ASSUME NEW m \in exists
        PROVE  NewestAt(m)'
    <3>1. NewestAt(m) /\ m \in Modules
      BY DEF TablesInv, TablesTyped, NewestIsActive, NewestAt
    <3> QED
      BY <2>1, <3>1, OthersKeep
  <2>4. NewestIsActive'
    BY <2>1, <2>3 DEF NewestIsActive, NewestAt
  <2> QED
    BY <2>2, <2>4 DEF TablesInv
<1>2. ASSUME NEW m \in Modules, Creates(m)
      PROVE  TablesInv' /\ TablesGrow
  <2>1. TablesInv'
    BY <1>2, CreatesKeeps
  <2>2. PICK s : NewRow(m, s)
    BY <1>2 DEF Creates
  <2>3. m \notin exists /\ exists \subseteq exists'
    BY <1>2 DEF Creates, InUse
  <2>4. versions[m] = <<>>
    BY <2>3 DEF TablesInv, PointersSound
  <2>5. \A o \in Modules \ {m} : versions'[o] = versions[o]
    BY <2>2 DEF NewRow, TablesInv, TablesTyped
  <2> QED
    BY <2>1, <2>3, <2>4, <2>5 DEF TablesGrow
<1>3. ASSUME NEW m \in Modules, Adds(m)
      PROVE  TablesInv' /\ TablesGrow
  <2>1. TablesInv' /\ exists' = exists
    BY <1>3, AddsKeeps DEF Adds
  <2>2. PICK doc \in Seq(Calls) : NewRow(m, Append(versions[m], Draft(doc)))
    BY <1>3 DEF Adds
  <2>3. versions[m] \in Seq(Row) /\ Draft(doc) \in Row
    BY DEF TablesInv, TablesTyped, Row, Draft
  <2>4. DOMAIN versions[m] \subseteq DOMAIN Append(versions[m], Draft(doc))
    BY <2>3
  <2>5. /\ versions'[m] = Append(versions[m], Draft(doc))
        /\ \A o \in Modules \ {m} : versions'[o] = versions[o]
    BY <2>2 DEF NewRow, TablesInv, TablesTyped
  <2> QED
    BY <2>1, <2>4, <2>5 DEF TablesGrow
<1>4. ASSUME NEW m \in Modules, NEW i, NEW row, exists' = exists,
             NewRow(m, [versions[m] EXCEPT ![i] = row])
      PROVE  TablesGrow
  BY <1>4 DEF NewRow, TablesInv, TablesTyped, TablesGrow
<1>5. ASSUME NEW m \in Modules, NEW i \in Nat, Publishes(m, i)
      PROVE  TablesInv' /\ TablesGrow
  BY <1>4, <1>5, PublishesKeeps DEF Publishes
<1>6. ASSUME NEW m \in Modules, NEW i \in Nat, Archives(m, i)
      PROVE  TablesInv' /\ TablesGrow
  BY <1>4, <1>6, ArchivesKeeps DEF Archives
<1> QED
  BY <1>1, <1>2, <1>3, <1>5, <1>6 DEF TableStep

UserStep(u) ==
    \E s \in Request : user' = [user EXCEPT ![u] = s] /\ Sound(s)

LEMMA StepKeeps ==
  ASSUME CatalogInv, TableStep, NEW u \in Users, UserStep(u)
  PROVE  CatalogInv'
<1>1. TablesInv' /\ TablesGrow
  BY TablesKept DEF CatalogInv
<1>2. PICK s \in Request : user' = [user EXCEPT ![u] = s] /\ Sound(s)
  BY DEF UserStep
<1>3. user \in [Users -> Request] /\ \A v \in Users : Sound(user[v])
  BY DEF CatalogInv, RequestsInv
<1>4. /\ user' \in [Users -> Request]
      /\ \A v \in Users : user'[v] = s \/ user'[v] = user[v]
  BY <1>2, <1>3
<1>5. ASSUME NEW t \in Request, Sound(t)
      PROVE  /\ t.at # "idle" /\ t.op \in {"add", "publish", "archive"} => t.module \in exists'
             /\ t.at # "idle" /\ t.op = "publish" => t.version \in DOMAIN versions'[t.module]
  BY <1>1, <1>5 DEF Sound, TablesGrow, Request
<1>6. ASSUME NEW v \in Users
      PROVE  Sound(user[v])'
  BY <1>2, <1>3, <1>4, <1>5 DEF Sound
<1> QED
  BY <1>1, <1>4, <1>6 DEF CatalogInv, RequestsInv

-----------------------------------------------------------------------------
(* The steps *)

LEMMA RequestFields ==
  ASSUME NEW s \in Request
  PROVE  /\ s.at \in {"idle", "walk", "commit"}
         /\ s.op \in {"none", "create", "add", "publish", "workflow", "archive"}
         /\ s.module \in Modules /\ s.version \in Nat
         /\ s.doc \in Seq(Calls) /\ s.todo \in Seq(Calls)
         /\ s.resolved \in SUBSET Resolved
  BY DEF Request

LEMMA IdleIsRequest ==
  ASSUME Authors
  PROVE  Idle \in Request /\ Idle.at = "idle" /\ Sound(Idle)
<1>1. (CHOOSE m \in Modules : TRUE) \in Modules
  BY DEF Authors
<1>2. <<>> \in Seq(Calls)
  BY EmptySeq
<1>3. Idle \in Request /\ Idle.at = "idle"
  BY <1>1, <1>2 DEF Idle, Request
<1> QED
  BY <1>3 DEF Sound

LEMMA Refuses ==
  ASSUME Authors, NEW u \in Users, Refuse(u)
  PROVE  UserStep(u)
  BY IdleIsRequest DEF Refuse, UserStep

(* A request begins with what it found in the tables. *)
LEMMA Begins ==
  ASSUME Authors, NEW u \in Users, NEW op \in {"create", "add", "publish", "workflow"},
         NEW m \in Modules, NEW i \in Nat, NEW doc \in Seq(Calls), Begin(u, op, m, i, doc),
         op \in {"add", "publish"} => m \in exists,
         op = "publish" => i \in DOMAIN versions[m]
  PROVE  UserStep(u) /\ UNCHANGED tables
<1> DEFINE s == [Idle EXCEPT !.at = "walk", !.op = op, !.module = m,
                             !.version = i, !.doc = doc, !.todo = doc]
<1>1. s \in Request /\ s.op = op /\ s.module = m /\ s.version = i
  BY IdleIsRequest DEF Request
<1>2. Sound(s)
  BY <1>1 DEF Sound
<1>3. user' = [user EXCEPT ![u] = s] /\ UNCHANGED tables
  BY DEF Begin
<1> HIDE DEF s
<1> QED
  BY <1>1, <1>2, <1>3 DEF UserStep

LEMMA DocumentsRead ==
  ASSUME Authors, TablesInv, NEW m \in Modules
  PROVE  /\ Documents[m] \subseteq Seq(Calls)
         /\ \A i \in DOMAIN versions[m] : versions[m][i].doc \in Seq(Calls) /\ i \in Nat
<1>1. ASSUME NEW i \in DOMAIN versions[m]
      PROVE  versions[m][i].doc \in Seq(Calls) /\ i \in Nat
  <2>1. versions[m][i] \in Row /\ i \in 1 .. Len(versions[m]) /\ Len(versions[m]) \in Nat
    BY RowsAreRows, LenProperties DEF TablesInv, TablesTyped
  <2> QED
    BY <2>1 DEF Row
<1> QED
  BY <1>1 DEF Authors

LEMMA BeginStep ==
  ASSUME Authors, CatalogInv, NEW u \in Users,
         BeginCreate(u) \/ BeginAdd(u) \/ BeginCopy(u) \/ BeginPublish(u) \/ BeginWorkflow(u)
  PROVE  UserStep(u) /\ UNCHANGED tables
<1>1. TablesInv /\ exists \subseteq Modules
  BY DEF CatalogInv, TablesInv, TablesTyped
<1>2. CASE BeginCreate(u)
  BY <1>1, <1>2, Begins, DocumentsRead DEF BeginCreate
<1>3. CASE BeginAdd(u)
  BY <1>1, <1>3, Begins, DocumentsRead DEF BeginAdd
<1>4. CASE BeginCopy(u)
  <2>1. PICK m \in exists : active[m] # 0 /\ Begin(u, "add", m, 0, versions[m][active[m]].doc)
    BY <1>4 DEF BeginCopy
  <2>2. active[m] \in DOMAIN versions[m] /\ m \in Modules
    BY <1>1, <2>1 DEF TablesInv, PointersSound
  <2> QED
    BY <1>1, <2>1, <2>2, Begins, DocumentsRead
<1>5. CASE BeginPublish(u)
  <2>1. PICK m \in exists : \E i \in DOMAIN versions[m] : Begin(u, "publish", m, i, versions[m][i].doc)
    BY <1>5 DEF BeginPublish
  <2> QED
    BY <1>1, <2>1, Begins, DocumentsRead
<1>6. CASE BeginWorkflow(u)
  <2>1. Idle.module \in Modules /\ Workflows \subseteq Seq(Calls)
    BY IdleIsRequest, RequestFields DEF Authors
  <2> QED
    BY <1>6, <2>1, Begins DEF BeginWorkflow
<1> QED
  BY <1>2, <1>3, <1>4, <1>5, <1>6

LEMMA ReadArchiveStep ==
  ASSUME Authors, CatalogInv, NEW u \in Users, ReadArchive(u)
  PROVE  UserStep(u) /\ UNCHANGED tables
<1>1. PICK m \in exists :
        user' = [user EXCEPT ![u] = [Idle EXCEPT !.at = "commit", !.op = "archive",
                                                 !.module = m, !.version = active[m]]]
  BY DEF ReadArchive
<1> DEFINE s == [Idle EXCEPT !.at = "commit", !.op = "archive", !.module = m, !.version = active[m]]
<1>2. m \in Modules /\ active[m] \in Nat
  BY DEF CatalogInv, TablesInv, TablesTyped
<1>3. s \in Request /\ s.op = "archive" /\ s.module = m
  BY <1>2, IdleIsRequest DEF Request
<1>4. Sound(s)
  BY <1>3 DEF Sound
<1>5. user' = [user EXCEPT ![u] = s]
  BY <1>1
<1> HIDE DEF s
<1> QED
  BY <1>3, <1>4, <1>5 DEF UserStep, ReadArchive

(* A walk goes on, with its purpose unchanged. *)
LEMMA WalksOn ==
  ASSUME CatalogInv, NEW u \in Users, NEW s \in Request, user' = [user EXCEPT ![u] = s],
         user[u].at # "idle", s.op = user[u].op, s.module = user[u].module,
         s.version = user[u].version
  PROVE  UserStep(u)
<1>1. Sound(user[u])
  BY DEF CatalogInv, RequestsInv
<1>2. Sound(s)
  BY <1>1 DEF Sound
<1> QED
  BY <1>2 DEF UserStep

LEMMA VisitStep ==
  ASSUME Authors, CatalogInv, NEW u \in Users, Visit(u)
  PROVE  UserStep(u) /\ UNCHANGED tables
<1> DEFINE r == user[u]
           call == Head(r.todo)
           rest == Tail(r.todo)
           found == OwnFirst(Found(ResolveAs(u), call))
<1>1. r \in Request /\ r.at = "walk" /\ r.todo # <<>> /\ UNCHANGED tables
  BY DEF Visit, CatalogInv, RequestsInv
<1>2. r.todo \in Seq(Calls) /\ call \in Calls /\ rest \in Seq(Calls)
  BY <1>1, RequestFields, HeadTailProperties
<1> HIDE DEF call, rest
<1>3. CASE Refuse(u)
  BY <1>1, <1>3, Refuses
<1>4. CASE user' = [user EXCEPT ![u].todo = rest]
  <2> DEFINE s == [r EXCEPT !.todo = rest]
  <2>1. s \in Request /\ s.op = r.op /\ s.module = r.module /\ s.version = r.version
    BY <1>1, <1>2 DEF Request
  <2>2. user' = [user EXCEPT ![u] = s]
    BY <1>4
  <2> HIDE DEF s
  <2> QED
    BY <1>1, <2>1, <2>2, WalksOn
<1>5. ASSUME NEW f \in found,
             user' = [user EXCEPT
               ![u].resolved = @ \cup {[key |-> call, module |-> f[1], version |-> f[2]]},
               ![u].todo = IF Met(u, f[1], f[2]) THEN rest
                           ELSE rest \o versions[f[1]][f[2]].doc]
      PROVE  UserStep(u)
  <2>1. f \in Modules \X (1 .. MaxVersions) /\ f[2] \in DOMAIN versions[f[1]]
    BY <1>5 DEF OwnFirst, Found, Names
  <2>2. versions[f[1]][f[2]].doc \in Seq(Calls)
    BY <2>1, DocumentsRead DEF CatalogInv
  <2> DEFINE more == IF Met(u, f[1], f[2]) THEN rest ELSE rest \o versions[f[1]][f[2]].doc
             refs == r.resolved \cup {[key |-> call, module |-> f[1], version |-> f[2]]}
             s == [r EXCEPT !.resolved = refs, !.todo = more]
  <2>3. more \in Seq(Calls)
    BY <1>2, <2>2, ConcatProperties
  <2>4. refs \in SUBSET Resolved
    BY <1>1, <1>2, <2>1, RequestFields DEF Resolved
  <2>5. user' = [user EXCEPT ![u] = s]
    BY <1>5
  <2> HIDE DEF more, refs
  <2>6. s \in Request /\ s.op = r.op /\ s.module = r.module /\ s.version = r.version
    BY <1>1, <2>3, <2>4 DEF Request
  <2> HIDE DEF s
  <2> QED
    BY <1>1, <2>5, <2>6, WalksOn
<1> QED
  BY <1>1, <1>3, <1>4, <1>5 DEF Visit, call, rest

LEMMA WalkDoneStep ==
  ASSUME Authors, CatalogInv, NEW u \in Users, WalkDone(u)
  PROVE  UserStep(u) /\ UNCHANGED tables
<1>1. CASE Refuse(u)
  BY <1>1, Refuses DEF WalkDone
<1>2. CASE user' = [user EXCEPT ![u].at = "commit"]
  <2> DEFINE r == user[u]
             s == [r EXCEPT !.at = "commit"]
  <2>1. r \in Request /\ r.at = "walk"
    BY DEF WalkDone, CatalogInv, RequestsInv
  <2>2. s \in Request /\ s.op = r.op /\ s.module = r.module /\ s.version = r.version
    BY <2>1 DEF Request
  <2>3. user' = [user EXCEPT ![u] = s]
    BY <1>2
  <2> HIDE DEF s
  <2> QED
    BY <2>1, <2>2, <2>3, WalksOn DEF WalkDone
<1> QED
  BY <1>1, <1>2 DEF WalkDone

(* A commit ends its request; what it does to the tables is up to its module.*)
LEMMA CommitRequest ==
  ASSUME Authors, CatalogInv, NEW u \in Users, NEW op, Commit(u, op)
  PROVE  /\ UserStep(u)
         /\ user[u].module \in Modules /\ user[u].version \in Nat
         /\ user[u].doc \in Seq(Calls)
         /\ op \in {"add", "publish", "archive"} => user[u].module \in exists
         /\ op = "publish" => user[u].version \in DOMAIN versions[user[u].module]
<1>1. user[u] \in Request /\ Sound(user[u])
  BY DEF CatalogInv, RequestsInv
<1>2. user[u].at = "commit" /\ user[u].op = op /\ UserStep(u)
  BY Refuses DEF Commit
<1> QED
  BY <1>1, <1>2, RequestFields DEF Sound

LEMMA CreateStep ==
  ASSUME Authors, CatalogInv, NEW u \in Users, CreateCommit(u)
  PROVE  UserStep(u) /\ TableStep
<1> DEFINE m == user[u].module
<1>1. Commit(u, "create")
  BY DEF CreateCommit
<1>2. UserStep(u) /\ m \in Modules /\ user[u].doc \in Seq(Calls)
  BY <1>1, CommitRequest
<1>3. \/ UNCHANGED tables
      \/ /\ ~InUse(m) /\ exists' = exists \cup {m} /\ active' = active
         /\ NewRow(m, <<Draft(user[u].doc)>>)
  BY DEF CreateCommit, NewRow
<1> HIDE DEF m
<1>4. UNCHANGED tables \/ Creates(m)
  BY <1>2, <1>3 DEF Creates
<1> QED
  BY <1>2, <1>4 DEF TableStep

LEMMA AddStep ==
  ASSUME Authors, CatalogInv, NEW u \in Users, AddCommit(u)
  PROVE  UserStep(u) /\ TableStep
<1> DEFINE m == user[u].module
<1>1. Commit(u, "add")
  BY DEF AddCommit
<1>2. UserStep(u) /\ m \in Modules /\ user[u].doc \in Seq(Calls) /\ m \in exists
  BY <1>1, CommitRequest
<1>3. UNCHANGED <<active, exists>>
  BY DEF AddCommit
<1>4. \/ UNCHANGED tables
      \/ NewRow(m, Append(versions[m], Draft(user[u].doc)))
  BY DEF AddCommit, NewRow, tables
<1> HIDE DEF m
<1>5. UNCHANGED tables \/ Adds(m)
  BY <1>2, <1>3, <1>4 DEF Adds
<1> QED
  BY <1>2, <1>5 DEF TableStep

LEMMA PublishStep ==
  ASSUME Authors, CatalogInv, NEW u \in Users, PublishCommit(u)
  PROVE  UserStep(u) /\ TableStep
<1> DEFINE m == user[u].module
           i == user[u].version
<1>1. Commit(u, "publish")
  BY DEF PublishCommit
<1>2. UserStep(u) /\ m \in Modules /\ i \in Nat /\ m \in exists /\ i \in DOMAIN versions[m]
  BY <1>1, CommitRequest
<1>3. \/ UNCHANGED tables
      \/ /\ versions[m][i].status = "DRAFT"
         /\ versions' = [versions EXCEPT ![m][i].status = "PUBLISHED",
                                         ![m][i].number = NextNumber(m)]
         /\ active' = [active EXCEPT ![m] = i] /\ exists' = exists
  BY DEF PublishCommit
<1>4. versions \in [Modules -> Seq(Row)]
  BY DEF CatalogInv, TablesInv, TablesTyped
<1> HIDE DEF m, i
<1>5. [versions EXCEPT ![m][i].status = "PUBLISHED", ![m][i].number = NextNumber(m)]
        = [versions EXCEPT ![m] = [versions[m] EXCEPT ![i] = PublishedRow(m, i)]]
  BY <1>2, <1>4 DEF PublishedRow
<1>6. UNCHANGED tables \/ Publishes(m, i)
  BY <1>2, <1>3, <1>5 DEF Publishes, NewRow
<1> QED
  BY <1>2, <1>6 DEF TableStep

LEMMA ArchiveStep ==
  ASSUME Authors, CatalogInv, NEW u \in Users, ArchiveCommit(u)
  PROVE  UserStep(u) /\ TableStep
<1> DEFINE m == user[u].module
           i == active[m]
<1>1. Commit(u, "archive")
  BY DEF ArchiveCommit
<1>2. UserStep(u) /\ m \in Modules /\ m \in exists
  BY <1>1, CommitRequest
<1>3. i \in Nat
  BY <1>2 DEF CatalogInv, TablesInv, TablesTyped
<1>4. \/ UNCHANGED tables
      \/ /\ i # 0 /\ versions' = [versions EXCEPT ![m][i].status = "ARCHIVED"]
         /\ active' = [active EXCEPT ![m] = 0] /\ exists' = exists
  BY DEF ArchiveCommit, Archived
<1>5. [versions EXCEPT ![m][i].status = "ARCHIVED"]
        = [versions EXCEPT ![m] = [versions[m] EXCEPT ![i] = ArchivedRow(m, i)]]
  BY DEF ArchivedRow
<1>6. UNCHANGED tables \/ Archives(m, i)
  BY <1>2, <1>4, <1>5 DEF Archives, NewRow
<1> QED
  BY <1>2, <1>3, <1>6 DEF TableStep

LEMMA WorkflowStep ==
  ASSUME Authors, CatalogInv, NEW u \in Users, WorkflowCommit(u)
  PROVE  UserStep(u) /\ TableStep
  BY CommitRequest DEF WorkflowCommit, TableStep

LEMMA CatalogInvStarts ==
  ASSUME Authors, CatalogInit
  PROVE  CatalogInv
<1>1. /\ versions = [m \in Modules |-> <<>>] /\ active = [m \in Modules |-> 0]
      /\ exists = {} /\ user = [u \in Users |-> Idle]
  BY DEF CatalogInit
<1>2. <<>> \in Seq(Row) /\ DOMAIN <<>> = {}
  BY EmptySeq
<1>3. TablesTyped /\ PointersSound
  BY <1>1, <1>2 DEF TablesTyped, PointersSound
<1>4. NumbersBounded
  <2>1. \A m \in Modules : DOMAIN versions[m] = {}
    BY <1>1, <1>2
  <2> QED
    BY <2>1 DEF NumbersBounded
<1>5. OneModulePerName /\ NewestIsActive
  BY <1>1 DEF OneModulePerName, NewestIsActive
<1>6. RequestsInv
  BY <1>1, IdleIsRequest DEF RequestsInv
<1> QED
  BY <1>3, <1>4, <1>5, <1>6 DEF CatalogInv, TablesInv

LEMMA CatalogInvKept ==
  ASSUME Authors, CatalogInv, [CatalogNext]_catalogVars
  PROVE  CatalogInv'
<1>1. CASE UNCHANGED catalogVars
  <2>1. TableStep /\ user' = user
    BY <1>1 DEF catalogVars, TableStep, tables
  <2>2. TablesInv' /\ TablesGrow
    BY <2>1, TablesKept DEF CatalogInv
  <2>3. user \in [Users -> Request] /\ \A v \in Users : Sound(user[v])
    BY DEF CatalogInv, RequestsInv
  <2>4. versions' = versions /\ exists' = exists
    BY <1>1 DEF catalogVars
  <2>5. \A v \in Users : Sound(user[v])'
    BY <2>1, <2>3, <2>4 DEF Sound
  <2> QED
    BY <2>1, <2>2, <2>3, <2>5 DEF CatalogInv, RequestsInv
<1>2. CASE CatalogNext
  <2>1. PICK u \in Users :
          \/ BeginCreate(u) \/ BeginAdd(u) \/ BeginCopy(u) \/ BeginPublish(u)
          \/ BeginWorkflow(u) \/ ReadArchive(u) \/ Visit(u) \/ WalkDone(u)
          \/ CreateCommit(u) \/ AddCommit(u) \/ PublishCommit(u) \/ ArchiveCommit(u)
          \/ WorkflowCommit(u)
    BY <1>2 DEF CatalogNext
  <2>2. CASE \/ BeginCreate(u) \/ BeginAdd(u) \/ BeginCopy(u) \/ BeginPublish(u)
             \/ BeginWorkflow(u)
    BY <2>2, BeginStep, StepKeeps DEF TableStep
  <2>3. CASE ReadArchive(u)
    BY <2>3, ReadArchiveStep, StepKeeps DEF TableStep
  <2>4. CASE Visit(u)
    BY <2>4, VisitStep, StepKeeps DEF TableStep
  <2>5. CASE WalkDone(u)
    BY <2>5, WalkDoneStep, StepKeeps DEF TableStep
  <2>6. CASE CreateCommit(u)
    BY <2>6, CreateStep, StepKeeps
  <2>7. CASE AddCommit(u)
    BY <2>7, AddStep, StepKeeps
  <2>8. CASE PublishCommit(u)
    BY <2>8, PublishStep, StepKeeps
  <2>9. CASE ArchiveCommit(u)
    BY <2>9, ArchiveStep, StepKeeps
  <2>10. CASE WorkflowCommit(u)
    BY <2>10, WorkflowStep, StepKeeps
  <2> QED
    BY <2>1, <2>2, <2>3, <2>4, <2>5, <2>6, <2>7, <2>8, <2>9, <2>10
<1> QED
  BY <1>1, <1>2

-----------------------------------------------------------------------------
(* What was resolved *)

(* No two versions of a module get one number, and a draft has none yet. *)
NumbersInv ==
    \A m \in Modules : \A i \in DOMAIN versions[m] :
        /\ versions[m][i].status = "DRAFT" => Number(m, i) = 0
        /\ \A j \in DOMAIN versions[m] :
              (Number(m, i) = Number(m, j) /\ Number(m, i) # 0) => i = j

(* A version that was resolved has a number, and the call names it. *)
RefSound(r) ==
    /\ r.module \in exists /\ r.version \in DOMAIN versions[r.module]
    /\ RefNumber(r) # 0
    /\ ProcessId(r.module) = r.key[1] /\ r.key[2] \in {0, RefNumber(r)}

Visible(r) == Scope(r.module) \in {Global, Tenant}

CallsSound(s) ==
    /\ \A r \in s.resolved : RefSound(r) /\ (s.op = "workflow" => Visible(r))
    /\ s.at = "commit" => Acyclic(s)

SnapshotSound(t) ==
    /\ t.resolved \in SUBSET Resolved /\ Acyclic(t)
    /\ \A r \in t.resolved : RefSound(r) /\ Visible(r)

CallsInv ==
    /\ CatalogInv /\ NumbersInv
    /\ \A u \in Users : CallsSound(user[u])
    /\ \A t \in snapshots : SnapshotSound(t)

(* What a version says never changes, nor the number it has once it has one. *)
RowsKept ==
    \A m \in Modules : \A i \in DOMAIN versions[m] :
        /\ i \in DOMAIN versions'[m]
        /\ versions'[m][i].doc = versions[m][i].doc
        /\ Number(m, i) # 0 => Number(m, i)' = Number(m, i)

(* The numbers of one module's rows, and the rows of the others. *)
RowsOf(m) ==
    \A i \in DOMAIN versions[m] :
        /\ versions[m][i].status = "DRAFT" => Number(m, i) = 0
        /\ \A j \in DOMAIN versions[m] :
              (Number(m, i) = Number(m, j) /\ Number(m, i) # 0) => i = j

LEMMA OneTableMoves ==
  ASSUME TablesInv, NumbersInv, NEW m \in Modules,
         \A o \in Modules \ {m} : versions'[o] = versions[o],
         RowsOf(m)',
         \A i \in DOMAIN versions[m] :
            /\ i \in DOMAIN versions'[m]
            /\ versions'[m][i].doc = versions[m][i].doc
            /\ Number(m, i) # 0 => Number(m, i)' = Number(m, i)
  PROVE  NumbersInv' /\ RowsKept
<1>1. \A o \in Modules : RowsOf(o)'
  BY DEF NumbersInv, RowsOf, Number
<1>2. NumbersInv'
  BY <1>1 DEF NumbersInv, RowsOf
<1> QED
  BY <1>2 DEF RowsKept, Number

LEMMA CreatesKeepsNumbers ==
  ASSUME TablesInv, NumbersInv, NEW m \in Modules, Creates(m)
  PROVE  NumbersInv' /\ RowsKept
<1>1. PICK doc \in Seq(Calls) : NewRow(m, <<Draft(doc)>>)
  BY DEF Creates
<1>2. versions[m] = <<>>
  BY DEF Creates, InUse, TablesInv, PointersSound
<1>3. /\ versions'[m] = <<Draft(doc)>>
      /\ \A o \in Modules \ {m} : versions'[o] = versions[o]
  BY <1>1 DEF NewRow, TablesInv, TablesTyped
<1>4. RowsOf(m)'
  BY <1>3 DEF RowsOf, Number, Draft
<1> QED
  BY <1>2, <1>3, <1>4, OneTableMoves

LEMMA AddsKeepsNumbers ==
  ASSUME TablesInv, NumbersInv, NEW m \in Modules, Adds(m)
  PROVE  NumbersInv' /\ RowsKept
<1>1. PICK doc \in Seq(Calls) : NewRow(m, Append(versions[m], Draft(doc)))
  BY DEF Adds
<1>2. versions[m] \in Seq(Row) /\ Draft(doc) \in Row
  BY DEF TablesInv, TablesTyped, Row, Draft
<1>3. PICK last \in Nat :
        /\ last \notin DOMAIN versions[m]
        /\ DOMAIN Append(versions[m], Draft(doc)) = DOMAIN versions[m] \cup {last}
        /\ \A i \in DOMAIN versions[m] : Append(versions[m], Draft(doc))[i] = versions[m][i]
        /\ Append(versions[m], Draft(doc))[last] = Draft(doc)
  <2>1. PICK last \in Nat : last = Len(versions[m]) + 1
    BY <1>2
  <2>2. 1 .. last = 1 .. Len(versions[m]) \cup {last} /\ last \notin 1 .. Len(versions[m])
    BY <1>2, <2>1
  <2> QED
    BY <1>2, <2>1, <2>2
<1>4. /\ versions'[m] = Append(versions[m], Draft(doc))
      /\ \A o \in Modules \ {m} : versions'[o] = versions[o]
  BY <1>1 DEF NewRow, TablesInv, TablesTyped
<1>5. /\ DOMAIN versions'[m] = DOMAIN versions[m] \cup {last}
      /\ \A i \in DOMAIN versions[m] : versions'[m][i] = versions[m][i]
      /\ versions'[m][last].number = 0
  BY <1>3, <1>4 DEF Draft
<1>6. RowsOf(m)'
  BY <1>5 DEF RowsOf, NumbersInv, Number
<1> QED
  BY <1>4, <1>5, <1>6, OneTableMoves DEF Number

LEMMA PublishesKeepsNumbers ==
  ASSUME TablesInv, NumbersInv, NEW m \in Modules, NEW i, Publishes(m, i)
  PROVE  NumbersInv' /\ RowsKept
<1>1. /\ i \in DOMAIN versions[m] /\ TablesTyped /\ versions[m][i].status = "DRAFT"
      /\ NewRow(m, [versions[m] EXCEPT ![i] = PublishedRow(m, i)])
  BY DEF Publishes, TablesInv
<1>2. /\ NextNumber(m) \in Nat \ {0}
      /\ \A j \in DOMAIN versions[m] : Number(m, j) < NextNumber(m) /\ Number(m, j) \in Nat
  BY NextIsNew, RowsAreRows DEF NextIsAbove, TablesInv
<1>3. versions[m][i] \in Row
  BY <1>1, RowsAreRows
<1>4. /\ PublishedRow(m, i) \in Row /\ PublishedRow(m, i).number = NextNumber(m)
      /\ PublishedRow(m, i).status = "PUBLISHED"
      /\ PublishedRow(m, i).doc = versions[m][i].doc
  BY <1>2, <1>3 DEF Row, PublishedRow
<1>5. /\ \A o \in Modules \ {m} : versions'[o] = versions[o]
      /\ DOMAIN versions'[m] = DOMAIN versions[m]
      /\ versions'[m][i] = PublishedRow(m, i)
      /\ \A j \in DOMAIN versions[m] \ {i} : versions'[m][j] = versions[m][j]
  BY <1>1, <1>4, RowWritten
<1>6. RowsOf(m)'
  BY <1>2, <1>4, <1>5 DEF RowsOf, NumbersInv, Number
<1>7. Number(m, i) = 0
  BY <1>1 DEF NumbersInv
<1> QED
  BY <1>4, <1>5, <1>6, <1>7, OneTableMoves DEF Number

LEMMA ArchivesKeepsNumbers ==
  ASSUME TablesInv, NumbersInv, NEW m \in Modules, NEW i, Archives(m, i)
  PROVE  NumbersInv' /\ RowsKept
<1>1. /\ i \in DOMAIN versions[m] /\ TablesTyped
      /\ NewRow(m, [versions[m] EXCEPT ![i] = ArchivedRow(m, i)])
  BY DEF Archives, TablesInv, PointersSound
<1>2. versions[m][i] \in Row
  BY <1>1, RowsAreRows
<1>3. /\ ArchivedRow(m, i) \in Row /\ ArchivedRow(m, i).number = versions[m][i].number
      /\ ArchivedRow(m, i).status = "ARCHIVED"
      /\ ArchivedRow(m, i).doc = versions[m][i].doc
  BY <1>2 DEF Row, ArchivedRow
<1>4. /\ \A o \in Modules \ {m} : versions'[o] = versions[o]
      /\ DOMAIN versions'[m] = DOMAIN versions[m]
      /\ versions'[m][i] = ArchivedRow(m, i)
      /\ \A j \in DOMAIN versions[m] \ {i} : versions'[m][j] = versions[m][j]
  BY <1>1, <1>3, RowWritten
<1>5. RowsOf(m)'
  BY <1>3, <1>4 DEF RowsOf, NumbersInv, Number
<1> QED
  BY <1>3, <1>4, <1>5, OneTableMoves DEF Number

LEMMA NumbersKept ==
  ASSUME TablesInv, NumbersInv, TableStep
  PROVE  NumbersInv' /\ RowsKept
<1>1. CASE UNCHANGED tables
  BY <1>1 DEF tables, NumbersInv, RowsKept, Number
<1> QED
  BY <1>1, CreatesKeepsNumbers, AddsKeepsNumbers, PublishesKeepsNumbers, ArchivesKeepsNumbers
  DEF TableStep

(* A document's calls go where they went, whatever is published meanwhile. *)
LEMMA AcyclicKept ==
  ASSUME NEW s, NEW t, t.resolved = s.resolved, Acyclic(s),
         \A r \in s.resolved :
            versions'[r.module][r.version].doc = versions[r.module][r.version].doc
  PROVE  Acyclic(t)'
<1>1. Versions(t)' = Versions(s)
  BY DEF Versions
<1>2. \A v \in Versions(s) : \A w : LeadsTo(t, v, w)' <=> LeadsTo(s, v, w)
  <2> SUFFICES ASSUME NEW v \in Versions(s), NEW w
               PROVE  LeadsTo(t, v, w)' <=> LeadsTo(s, v, w)
    OBVIOUS
  <2>1. versions'[v[1]][v[2]].doc = versions[v[1]][v[2]].doc
    BY DEF Versions
  <2> QED
    BY <2>1 DEF LeadsTo
<1> QED
  BY <1>1, <1>2 DEF Acyclic

LEMMA NothingIsAcyclic ==
  ASSUME NEW s, s.resolved = {}
  PROVE  Acyclic(s)
  BY DEF Acyclic, Versions

LEMMA RefKept ==
  ASSUME TablesInv, RowsKept, TablesGrow, NEW r \in Resolved, RefSound(r)
  PROVE  /\ RefSound(r)'
         /\ versions'[r.module][r.version].doc = versions[r.module][r.version].doc
<1>1. r.module \in Modules /\ r.version \in DOMAIN versions[r.module]
  BY DEF Resolved, RefSound
<1>2. /\ r.module \in exists' /\ r.version \in DOMAIN versions'[r.module]
      /\ RefNumber(r)' = RefNumber(r)
      /\ versions'[r.module][r.version].doc = versions[r.module][r.version].doc
  BY <1>1 DEF RowsKept, TablesGrow, RefSound, RefNumber
<1> QED
  BY <1>2 DEF RefSound

-----------------------------------------------------------------------------
(* What a step resolves: of the request that moves, and of the workflow      *)
(* versions it publishes.                                                    *)
ResolvesStep(u) ==
    /\ TableStep
    /\ \E s \in Request : user' = [user EXCEPT ![u] = s] /\ CallsSound(s)
    /\ \A t \in snapshots' : t \in snapshots \/ SnapshotSound(t)

LEMMA ResolvesKept ==
  ASSUME CallsInv, CatalogInv', NEW u \in Users, ResolvesStep(u)
  PROVE  CallsInv'
<1>1. TablesInv /\ NumbersInv /\ TableStep /\ user \in [Users -> Request]
  BY DEF CallsInv, CatalogInv, RequestsInv, ResolvesStep
<1>2. NumbersInv' /\ RowsKept /\ TablesGrow
  BY <1>1, NumbersKept, TablesKept
<1>3. \A r \in Resolved : RefSound(r) =>
         /\ RefSound(r)'
         /\ versions'[r.module][r.version].doc = versions[r.module][r.version].doc
  BY <1>1, <1>2, RefKept
<1>4. ASSUME NEW s, s.resolved \in SUBSET Resolved, CallsSound(s)
      PROVE  CallsSound(s)'
  <2>1. s.at = "commit" => Acyclic(s)'
    BY <1>3, <1>4, AcyclicKept DEF CallsSound
  <2>2. \A r \in s.resolved : RefSound(r)' /\ (s.op = "workflow" => Visible(r)')
    BY <1>3, <1>4 DEF CallsSound, Visible
  <2> QED
    BY <2>1, <2>2 DEF CallsSound
<1>5. ASSUME NEW t, SnapshotSound(t)
      PROVE  SnapshotSound(t)'
  <2>1. Acyclic(t)'
    BY <1>3, <1>5, AcyclicKept DEF SnapshotSound
  <2>2. \A r \in t.resolved : RefSound(r)' /\ Visible(r)'
    BY <1>3, <1>5 DEF SnapshotSound, Visible
  <2> QED
    BY <1>5, <2>1, <2>2 DEF SnapshotSound
<1>6. ASSUME NEW v \in Users
      PROVE  CallsSound(user[v])'
  <2>1. PICK s \in Request : user' = [user EXCEPT ![u] = s] /\ CallsSound(s)
    BY DEF ResolvesStep
  <2>2. PICK t : t = user'[v]
    OBVIOUS
  <2>3. t \in Request /\ CallsSound(t)
    <3>1. CASE v = u
      BY <1>1, <2>1, <2>2, <3>1
    <3>2. CASE v # u
      BY <1>1, <2>1, <2>2, <3>2 DEF CallsInv
    <3> QED
      BY <3>1, <3>2
  <2>4. CallsSound(t)'
    BY <1>4, <2>3, RequestFields
  <2> QED
    BY <2>2, <2>4
<1>7. \A t \in snapshots' : SnapshotSound(t)'
  BY <1>5 DEF ResolvesStep, CallsInv
<1> QED
  BY <1>2, <1>6, <1>7 DEF CallsInv

LEMMA IdleResolvesNothing ==
  ASSUME Authors
  PROVE  /\ Idle \in Request /\ Idle.resolved = {} /\ Idle.at = "idle" /\ CallsSound(Idle)
<1>1. Idle \in Request /\ Idle.resolved = {} /\ Idle.at = "idle"
  BY IdleIsRequest DEF Idle
<1> QED
  BY <1>1 DEF CallsSound

(* A request that has resolved nothing is sound whatever it is about to do. *)
LEMMA BeginResolves ==
  ASSUME Authors, NEW u \in Users, NEW s \in Request, s.resolved = {},
         user' = [user EXCEPT ![u] = s], TableStep, snapshots' = snapshots
  PROVE  ResolvesStep(u)
<1>1. CallsSound(s)
  BY NothingIsAcyclic DEF CallsSound
<1> QED
  BY <1>1 DEF ResolvesStep

LEMMA BeginsEmpty ==
  ASSUME Authors, CallsInv, NEW u \in Users,
         \/ BeginCreate(u) \/ BeginAdd(u) \/ BeginCopy(u) \/ BeginPublish(u)
         \/ BeginWorkflow(u)
  PROVE  ResolvesStep(u)
<1>1. UserStep(u) /\ TableStep
  BY BeginStep DEF CallsInv, TableStep
<1>2. PICK op, m, i, doc : Begin(u, op, m, i, doc)
  BY DEF BeginCreate, BeginAdd, BeginCopy, BeginPublish, BeginWorkflow
<1> DEFINE s == [Idle EXCEPT !.at = "walk", !.op = op, !.module = m,
                             !.version = i, !.doc = doc, !.todo = doc]
<1>3. user' = [user EXCEPT ![u] = s] /\ snapshots' = snapshots /\ s.resolved = {}
  BY <1>2, IdleResolvesNothing DEF Begin, Idle
<1> HIDE DEF s
<1>4. PICK q \in Request : user' = [user EXCEPT ![u] = q]
  BY <1>1 DEF UserStep
<1>5. q = s
  BY <1>3, <1>4 DEF CallsInv, CatalogInv, RequestsInv
<1> QED
  BY <1>1, <1>3, <1>4, <1>5, BeginResolves

LEMMA ReadArchiveResolves ==
  ASSUME Authors, CallsInv, NEW u \in Users, ReadArchive(u)
  PROVE  ResolvesStep(u)
<1>1. UserStep(u) /\ TableStep
  BY ReadArchiveStep DEF CallsInv, TableStep
<1>2. PICK m \in exists :
        user' = [user EXCEPT ![u] = [Idle EXCEPT !.at = "commit", !.op = "archive",
                                                 !.module = m, !.version = active[m]]]
  BY DEF ReadArchive
<1> DEFINE s == [Idle EXCEPT !.at = "commit", !.op = "archive", !.module = m, !.version = active[m]]
<1>3. user' = [user EXCEPT ![u] = s] /\ snapshots' = snapshots /\ s.resolved = {}
  BY <1>2 DEF ReadArchive, Idle
<1> HIDE DEF s
<1>4. PICK q \in Request : user' = [user EXCEPT ![u] = q]
  BY <1>1 DEF UserStep
<1>5. q = s
  BY <1>3, <1>4 DEF CallsInv, CatalogInv, RequestsInv
<1> QED
  BY <1>1, <1>3, <1>4, <1>5, BeginResolves

LEMMA RefuseResolves ==
  ASSUME Authors, CallsInv, NEW u \in Users, Refuse(u), TableStep,
         \A t \in snapshots' : t \in snapshots \/ SnapshotSound(t)
  PROVE  ResolvesStep(u)
  BY IdleResolvesNothing DEF Refuse, ResolvesStep

(* What a lookup finds is there, has a number, and is what the call names. *)
LEMMA FoundIsSound ==
  ASSUME CatalogInv, NEW scope, NEW call \in Calls,
         NEW f \in OwnFirst(Found(scope, call)),
         NEW r, r = [key |-> call, module |-> f[1], version |-> f[2]]
  PROVE  /\ r \in Resolved /\ RefSound(r) /\ Scope(r.module) \in {Global, scope}
<1>1. /\ f \in Modules \X (1 .. MaxVersions) /\ Names(scope, call, f[1], f[2])
  BY DEF OwnFirst, Found
<1>2. r \in Resolved /\ r.module = f[1] /\ r.version = f[2] /\ r.key = call
  BY <1>1 DEF Resolved
<1>3. /\ ProcessId(r.module) = r.key[1] /\ Scope(r.module) \in {Global, scope}
      /\ active[r.module] # 0 /\ r.version \in DOMAIN versions[r.module]
      /\ RefNumber(r) # 0
      /\ r.key[2] # 0 => RefNumber(r) = r.key[2]
  BY <1>1, <1>2 DEF Names, RefNumber
<1>4. r.module \in exists
  BY <1>1, <1>2, <1>3 DEF CatalogInv, TablesInv, PointersSound
<1> QED
  BY <1>2, <1>3, <1>4 DEF RefSound

LEMMA VisitResolves ==
  ASSUME Authors, CallsInv, NEW u \in Users, Visit(u)
  PROVE  ResolvesStep(u)
<1> DEFINE old == user[u]
           call == Head(old.todo)
           rest == Tail(old.todo)
           found == OwnFirst(Found(ResolveAs(u), call))
<1>1. UserStep(u) /\ TableStep /\ snapshots' = snapshots
  BY VisitStep DEF CallsInv, TableStep, Visit
<1>2. PICK q \in Request : user' = [user EXCEPT ![u] = q]
  BY <1>1 DEF UserStep
<1>3. /\ old \in Request /\ CallsSound(old) /\ old.at = "walk" /\ old.todo # <<>>
      /\ user'[u] = q
  BY <1>2 DEF CallsInv, CatalogInv, RequestsInv, Visit
<1>4. call \in Calls
  BY <1>3, RequestFields, HeadTailProperties
<1>5. CASE Refuse(u)
  BY <1>1, <1>5, RefuseResolves
<1>6. CASE user' = [user EXCEPT ![u].todo = rest]
  <2>1. q.resolved = old.resolved /\ q.op = old.op /\ q.at = "walk"
    BY <1>3, <1>6 DEF CallsInv, CatalogInv, RequestsInv, Request
  <2>2. CallsSound(q)
    BY <1>3, <2>1 DEF CallsSound
  <2> QED
    BY <1>1, <1>2, <2>2 DEF ResolvesStep
<1>7. ASSUME NEW f \in found, NEW more,
             user' = [user EXCEPT
               ![u].resolved = @ \cup {[key |-> call, module |-> f[1], version |-> f[2]]},
               ![u].todo = more]
      PROVE  ResolvesStep(u)
  <2>1. PICK r : r = [key |-> call, module |-> f[1], version |-> f[2]]
    OBVIOUS
  <2>2. q.resolved = old.resolved \cup {r} /\ q.op = old.op /\ q.at = "walk"
    BY <1>3, <1>7, <2>1 DEF CallsInv, CatalogInv, RequestsInv, Request
  <2>3. RefSound(r) /\ Scope(r.module) \in {Global, ResolveAs(u)}
    BY <1>4, <1>7, <2>1, FoundIsSound DEF CallsInv
  <2>4. q.op = "workflow" => Visible(r)
    BY <2>2, <2>3 DEF ResolveAs, Visible
  <2>5. CallsSound(q)
    BY <1>3, <2>2, <2>3, <2>4 DEF CallsSound
  <2> QED
    BY <1>1, <1>2, <2>5 DEF ResolvesStep
<1> HIDE DEF call, rest
<1> QED
  BY <1>5, <1>6, <1>7 DEF Visit, call, rest

LEMMA WalkDoneResolves ==
  ASSUME Authors, CallsInv, NEW u \in Users, WalkDone(u)
  PROVE  ResolvesStep(u)
<1>1. UserStep(u) /\ TableStep /\ snapshots' = snapshots
  BY WalkDoneStep DEF CallsInv, TableStep, WalkDone
<1>2. CASE Refuse(u)
  BY <1>1, <1>2, RefuseResolves
<1>3. CASE Acyclic(user[u]) /\ user' = [user EXCEPT ![u].at = "commit"]
  <2>1. PICK q \in Request : user' = [user EXCEPT ![u] = q]
    BY <1>1 DEF UserStep
  <2>2. q.resolved = user[u].resolved /\ q.op = user[u].op
    BY <1>3, <2>1 DEF CallsInv, CatalogInv, RequestsInv, Request
  <2>3. Acyclic(q)
    BY <1>3, <2>2 DEF Acyclic, Versions, LeadsTo
  <2>4. CallsSound(q)
    BY <2>2, <2>3 DEF CallsInv, CallsSound
  <2> QED
    BY <1>1, <2>1, <2>4 DEF ResolvesStep
<1> QED
  BY <1>2, <1>3 DEF WalkDone, Expands

LEMMA CommitResolves ==
  ASSUME Authors, CallsInv, NEW u \in Users,
         \/ CreateCommit(u) \/ AddCommit(u) \/ PublishCommit(u) \/ ArchiveCommit(u)
  PROVE  ResolvesStep(u)
<1>1. Refuse(u) /\ snapshots' = snapshots
  BY DEF CreateCommit, AddCommit, PublishCommit, ArchiveCommit, Commit
<1>2. TableStep
  BY CreateStep, AddStep, PublishStep, ArchiveStep DEF CallsInv
<1> QED
  BY <1>1, <1>2, RefuseResolves

LEMMA WorkflowResolves ==
  ASSUME Authors, CallsInv, NEW u \in Users, WorkflowCommit(u)
  PROVE  ResolvesStep(u)
<1> DEFINE new == [doc |-> user[u].doc, resolved |-> user[u].resolved]
<1>1. /\ Refuse(u) /\ user[u].op = "workflow" /\ user[u].at = "commit"
      /\ \A t \in snapshots' : t \in snapshots \/ t = new
  BY DEF WorkflowCommit, Commit
<1>2. TableStep
  BY WorkflowStep DEF CallsInv
<1>3. CallsSound(user[u]) /\ user[u].resolved \in SUBSET Resolved
  BY RequestFields DEF CallsInv, CatalogInv, RequestsInv
<1>4. Acyclic(new)
  BY <1>1, <1>3 DEF CallsSound, Acyclic, Versions, LeadsTo
<1>5. SnapshotSound(new)
  BY <1>1, <1>3, <1>4 DEF CallsSound, SnapshotSound
<1> QED
  BY <1>1, <1>2, <1>5, RefuseResolves

LEMMA CallsInvStarts ==
  ASSUME Authors, CatalogInit
  PROVE  CallsInv
<1>1. /\ CatalogInv /\ versions = [m \in Modules |-> <<>>]
      /\ user = [u \in Users |-> Idle] /\ snapshots = {}
  BY CatalogInvStarts DEF CatalogInit
<1>2. NumbersInv
  BY <1>1 DEF NumbersInv
<1> QED
  BY <1>1, <1>2, IdleResolvesNothing DEF CallsInv

LEMMA CallsInvKept ==
  ASSUME Authors, CallsInv, [CatalogNext]_catalogVars
  PROVE  CallsInv'
<1>1. CatalogInv'
  BY CatalogInvKept DEF CallsInv
<1>2. CASE UNCHANGED catalogVars
  <2>1. versions' = versions /\ exists' = exists /\ user' = user /\ snapshots' = snapshots
    BY <1>2 DEF catalogVars
  <2>2. NumbersInv' <=> NumbersInv
    BY <2>1 DEF NumbersInv, Number
  <2>3. \A s : (Acyclic(s)' <=> Acyclic(s)) /\ (RefSound(s)' <=> RefSound(s))
    BY <2>1 DEF Acyclic, Versions, LeadsTo, RefSound, RefNumber, Number
  <2>4. \A u \in Users : CallsSound(user[u])'
    <3> SUFFICES ASSUME NEW u \in Users
                 PROVE  CallsSound(user[u])'
      OBVIOUS
    <3>1. PICK s : s = user[u]
      OBVIOUS
    <3>2. CallsSound(s)'
      BY <2>3, <3>1 DEF CallsInv, CallsSound, Visible
    <3> QED
      BY <2>1, <3>1, <3>2
  <2>5. \A t \in snapshots' : SnapshotSound(t)'
    BY <2>1, <2>3 DEF CallsInv, SnapshotSound, Visible
  <2> QED
    BY <1>1, <2>2, <2>4, <2>5 DEF CallsInv
<1>3. CASE CatalogNext
  <2>1. PICK u \in Users :
          \/ BeginCreate(u) \/ BeginAdd(u) \/ BeginCopy(u) \/ BeginPublish(u)
          \/ BeginWorkflow(u) \/ ReadArchive(u) \/ Visit(u) \/ WalkDone(u)
          \/ CreateCommit(u) \/ AddCommit(u) \/ PublishCommit(u) \/ ArchiveCommit(u)
          \/ WorkflowCommit(u)
    BY <1>3 DEF CatalogNext
  <2>2. ResolvesStep(u)
    BY <2>1, BeginsEmpty, ReadArchiveResolves, VisitResolves, WalkDoneResolves,
       CommitResolves, WorkflowResolves
  <2> QED
    BY <1>1, <2>2, ResolvesKept
<1> QED
  BY <1>2, <1>3

-----------------------------------------------------------------------------
(* The version a published workflow's call runs is the one it was compiled   *)
(* with, or a newer one the workflow pins.                                   *)
LEMMA RefsHaveALargest ==
  ASSUME CallsInv, NEW s \in snapshots, NEW r \in s.resolved
  PROVE  Picked(s, r.key) # {}
<1> DEFINE refs == RefsFor(s, r.key)
           numbers == {RefNumber(q) : q \in refs}
<1>1. s.resolved \subseteq Resolved /\ \A q \in s.resolved : RefSound(q)
  BY DEF CallsInv, SnapshotSound
<1>2. r \in refs
  BY <1>1 DEF RefsFor, RefSound
<1>3. PICK b \in Nat : \A m \in Modules : \A i \in DOMAIN versions[m] : Number(m, i) <= b
  BY DEF CallsInv, CatalogInv, TablesInv, NumbersBounded
<1>4. \A q \in refs : RefNumber(q) \in Nat /\ RefNumber(q) <= b
  <2> SUFFICES ASSUME NEW q \in refs
               PROVE  RefNumber(q) \in Nat /\ RefNumber(q) <= b
    OBVIOUS
  <2>1. q.module \in Modules /\ q.version \in DOMAIN versions[q.module]
    BY <1>1 DEF RefsFor, RefSound, Resolved
  <2>2. Number(q.module, q.version) \in Nat
    BY <2>1, RowsAreRows DEF CallsInv, CatalogInv, TablesInv
  <2> QED
    BY <1>3, <2>1, <2>2 DEF RefNumber
<1>5. numbers \subseteq Nat /\ numbers # {} /\ \A n \in numbers : n <= b
  BY <1>2, <1>4
<1>6. Max(numbers) \in numbers /\ \A n \in numbers : n <= Max(numbers)
  BY <1>5, MaxIsLargest
<1>7. PICK q \in refs : RefNumber(q) = Max(numbers)
  BY <1>6
<1>8. \A o \in refs : RefNumber(q) >= RefNumber(o)
  BY <1>4, <1>6, <1>7
<1> QED
  BY <1>7, <1>8 DEF Picked

LEMMA PickedIsTheSameOrNewer ==
  ASSUME Authors, CallsInv, NEW s \in snapshots, NEW r \in s.resolved, NEW q \in Picked(s, r.key)
  PROVE  \/ q.module = r.module /\ q.version = r.version
         \/ r.key[2] = 0 /\ RefNumber(q) > RefNumber(r)
<1>1. s.resolved \subseteq Resolved /\ \A o \in s.resolved : RefSound(o) /\ Visible(o)
  BY DEF CallsInv, SnapshotSound
<1>2. /\ q \in s.resolved /\ ProcessId(q.module) = r.key[1]
      /\ r.key[2] \in {0, RefNumber(q)} /\ RefNumber(q) >= RefNumber(r)
  BY <1>1 DEF Picked, RefsFor, RefSound
<1>3. /\ q.module \in exists /\ r.module \in exists
      /\ q.module \in Modules /\ r.module \in Modules
      /\ q.version \in DOMAIN versions[q.module] /\ r.version \in DOMAIN versions[r.module]
      /\ RefNumber(r) # 0 /\ RefNumber(q) # 0
      /\ ProcessId(r.module) = r.key[1] /\ r.key[2] \in {0, RefNumber(r)}
      /\ Scope(q.module) \in {Global, Tenant} /\ Scope(r.module) \in {Global, Tenant}
  BY <1>1, <1>2 DEF RefSound, Resolved, Visible
<1>4. RefNumber(q) \in Nat /\ RefNumber(r) \in Nat
  BY <1>3, RowsAreRows DEF RefNumber, CallsInv, CatalogInv, TablesInv
<1>5. CASE RefNumber(q) = RefNumber(r)
  <2>1. q.module = r.module
    <3>1. CASE Global \in {Scope(q.module), Scope(r.module)}
      BY <1>2, <1>3, <3>1 DEF CallsInv, CatalogInv, TablesInv, OneModulePerName
    <3>2. CASE Global \notin {Scope(q.module), Scope(r.module)}
      <4>1. Scope(q.module) = Scope(r.module) /\ ProcessId(q.module) = ProcessId(r.module)
        BY <1>2, <1>3, <3>2
      <4> QED
        BY <1>3, <4>1 DEF Authors
    <3> QED
      BY <3>1, <3>2
  <2>2. q.version = r.version
    BY <1>3, <1>5, <2>1 DEF RefNumber, CallsInv, NumbersInv
  <2> QED
    BY <2>1, <2>2
<1>6. CASE RefNumber(q) # RefNumber(r)
  BY <1>2, <1>3, <1>4, <1>6
<1> QED
  BY <1>5, <1>6

-----------------------------------------------------------------------------
(* The tables of the library stay sound under any interleaving of creates,   *)
(* drafts, publishes, archives and walks (ModuleService).                    *)
THEOREM CatalogInvariant == CatalogSpec => []CatalogInv
<1>1. CatalogInit => CatalogInv
  BY CatalogInvStarts, AuthorsWrite
<1>2. CatalogInv /\ [CatalogNext]_catalogVars => CatalogInv'
  BY CatalogInvKept, AuthorsWrite
<1> QED
  BY <1>1, <1>2, PTL DEF CatalogSpec

(* However creates race, a tenant's module and a global one never come to    *)
(* share a process id (ModuleService.Create, ModuleProcessIDInUse).          *)
THEOREM NamesStayUnique == CatalogSpec => []OneModulePerName
<1>1. CatalogInv => OneModulePerName
  BY DEF CatalogInv, TablesInv
<1> QED
  BY <1>1, CatalogInvariant, PTL

(* However publishes and archives race, the newest numbered version is the   *)
(* active one exactly while it is published (ModuleService.Publish, Archive).*)
THEOREM NewestStaysActive == CatalogSpec => []NewestIsActive
<1>1. CatalogInv => NewestIsActive
  BY DEF CatalogInv, TablesInv
<1> QED
  BY <1>1, CatalogInvariant, PTL

(* Whatever was published while the calls were resolved, the versions a      *)
(* request or a published workflow has resolved stay where they are, say     *)
(* what they said and keep their numbers (moduleResolver.resolve).           *)
THEOREM CallsInvariant == CatalogSpec => []CallsInv
<1>1. CatalogInit => CallsInv
  BY CallsInvStarts, AuthorsWrite
<1>2. CallsInv /\ [CatalogNext]_catalogVars => CallsInv'
  BY CallsInvKept, AuthorsWrite
<1> QED
  BY <1>1, <1>2, PTL DEF CatalogSpec

(* A published workflow's calls never lead round in a circle, though its     *)
(* modules were looked up one by one (moduleResolver.resolve,                *)
(* ValidateCallGraph).                                                       *)
THEOREM PublishedStaysAcyclic == CatalogSpec => []PublishedIsAcyclic
<1>1. CallsInv => PublishedIsAcyclic
  BY DEF CallsInv, SnapshotSound, PublishedIsAcyclic
<1> QED
  BY <1>1, CallsInvariant, PTL

(* A call of a published workflow keeps finding, in the module_refs of the   *)
(* workflow, the version it was compiled with or a newer one pinned there    *)
(* (moduleResolver.snapshot).                                                *)
THEOREM SnapshotsKeepResolving == CatalogSpec => []SnapshotResolves
<1>1. CallsInv => SnapshotResolves
  BY RefsHaveALargest, PickedIsTheSameOrNewer, AuthorsWrite DEF SnapshotResolves
<1> QED
  BY <1>1, CallsInvariant, PTL

=============================================================================
