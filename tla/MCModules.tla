------------------------------ MODULE MCModules ------------------------------
(* The documents and modules of the runs over ModuleBundle and CallBinding.  *)
EXTENDS ModuleBundle, CallBinding

(* A workflow of two processes, two versions of module a and one of c; the   *)
(* processes may share ids with the modules and with their plans' names.     *)
OneOf(calls) == {<<>>} \cup {<<c>> : c \in calls}
PairsOf(calls) == OneOf(calls) \cup (calls \X calls)

LibraryCall(id, target, binding, tag) ==
  [id |-> id, target |-> target, binding |-> binding, tag |-> tag]
Latest(target) == LibraryCall("latest", target, "latest", 0)
Pinned(target, n) == LibraryCall("pinned", target, "versionTag", n)
Deployed(target) == LibraryCall("deployed", target, "deployment", 0)

Written(id, calls) == [id |-> id, calls |-> calls, refs |-> <<"m">>, library |-> FALSE]
File(name, processes) ==
  [name |-> name, processes |-> processes, declares |-> {[id |-> "m", text |-> name]}]

LibraryFiles ==
  {(<<"a", 1>> :> File("a@v1", <<Written("a", one)>>))
     @@ (<<"a", 2>> :> File("a@v2", <<Written("a", two)>>))
     @@ (<<"c", 1>> :> File("c@v1", <<Written("c", three)>>)) :
     one \in OneOf({Latest("c"), Pinned("c", 1)}),
     two \in OneOf({Latest("a"), Latest("c"), Deployed("a")}) \cup {<<Latest("a"), Pinned("a", 1)>>},
     three \in OneOf({Latest("a"), Pinned("a", 2), Latest("main")})}

Together ==
  {[main |-> File("main", <<Written(id, calls), Written(other, more)>>), library |-> l,
    latest |-> ("a" :> 2) @@ ("c" :> 1)] :
     id \in {"main", "a"}, other \in {"b", "a@v1"}, l \in LibraryFiles,
     calls \in PairsOf({Latest("a"), Pinned("a", 1), Latest("b"), Pinned("b", 1), Deployed("b"), Latest("c")}),
     more \in {<<>>, <<Latest("a")>>, <<Pinned("c", 1)>>}}

AllFiles == <<Together>>

-----------------------------------------------------------------------------
(* A workflow that calls module m, which calls module n: each may have no    *)
(* lanes, open ones, fixed ones or ignored ones.                             *)
FoldCase(name) == IF name = "n1" THEN "N1" ELSE name
OpenLane(name) == [name |-> name, dept |-> "", ignored |-> FALSE]
FixedLane(name, dept) == [name |-> name, dept |-> dept, ignored |-> FALSE]
IgnoredLane(name) == [name |-> name, dept |-> "", ignored |-> TRUE]

Element(kind, id, lane) ==
  [id |-> id, kind |-> kind, lane |-> lane, user |-> "", calls |-> "", depts |-> <<>>, users |-> <<>>]
HumanTask(id, lane, user) == [Element("task", id, lane) EXCEPT !.user = user]
ModuleCall(id, lane, called, depts, users) ==
  [Element("call", id, lane) EXCEPT !.calls = called, !.depts = depts, !.users = users]
TextOf(slot, lanes, work) == [slot |-> slot, lanes |-> lanes, work |-> work]

Inner ==
  {TextOf("n", <<>>, <<HumanTask("x", 0, "")>>),
   TextOf("n", <<OpenLane("N1"), OpenLane("N2")>>,
           <<HumanTask("x", 1, ""), Element("message", "z", 2), HumanTask("y", 1, "u0")>>),
   TextOf("n", <<OpenLane("N1"), OpenLane("N2")>>,
           <<HumanTask("x", 1, "u0"), HumanTask("y", 2, "u0"), HumanTask("z", 1, "u0")>>),
   TextOf("n", <<OpenLane("N1"), FixedLane("N2", "D9")>>,
           <<HumanTask("x", 1, "u0"), HumanTask("y", 2, "")>>),
   TextOf("n", <<OpenLane("N1"), IgnoredLane("N2")>>,
           <<HumanTask("x", 1, ""), HumanTask("y", 2, "u0")>>)}

InnerMaps ==
  UNION {[keys -> {"M1", "M2"}] : keys \in SUBSET {"N1", "N2"}} \cup {("n1" :> "M2") @@ ("N2" :> "M1")}
OuterLanes ==
  {<<>>, <<OpenLane("M1"), OpenLane("M2")>>, <<OpenLane("M1"), FixedLane("M2", "D8")>>,
   <<OpenLane("M1"), IgnoredLane("M2")>>}
LaneNumber(lanes, k) == IF lanes = <<>> THEN 0 ELSE k
Outer ==
  {TextOf("m", lanes,
     <<HumanTask("a", LaneNumber(lanes, 1), "u0"),
       ModuleCall("c", LaneNumber(lanes, k), "n", map, users),
       HumanTask("b", LaneNumber(lanes, 1), "")>>) :
     lanes \in OuterLanes, k \in 1..2, map \in InnerMaps, users \in {<<>>, <<"x">> :> "u1"}}

MainLanes == <<FixedLane("W1", "D1"), FixedLane("W2", "D2"), OpenLane("W3"), IgnoredLane("W4")>>
MainMaps ==
  {<<>>, "M1" :> "W2", "M1" :> "W3", "M1" :> "W4", "m" :> "W2", ("M1" :> "W1") @@ ("M2" :> "W2")}
MainUsers ==
  {<<>>, <<"b">> :> "u2", (<<"b">> :> "u2") @@ (<<"c", "x">> :> "u2"),
   (<<"b">> :> "u2") @@ (<<"c", "x">> :> "u2") @@ (<<"c", "y">> :> "u2")}
Mains ==
  {TextOf("main", MainLanes, <<ModuleCall("k", lane, "m", map, users)>>) :
     lane \in {1, 3}, map \in MainMaps, users \in MainUsers}

Bound == {("main" :> w) @@ ("m" :> m) @@ ("n" :> n) : w \in Mains, m \in Outer, n \in Inner}
AllTexts == <<Bound>>
=============================================================================
