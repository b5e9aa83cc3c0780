----------------------------- MODULE MCCompiler -----------------------------
(* The documents the compiler is checked on: every way to draw the flows of  *)
(* a few element lists, within the targets each list gives its elements.     *)
EXTENDS CompilerProperties

One(ns) == {<<a>> : a \in ns}
Two(ns) == {t \in ns \X ns : t[1] # t[2]}
OneOrTwo(ns) == One(ns) \cup Two(ns)
Enter(t, ns) == \A n \in ns : \E i \in DOMAIN t : \E k \in DOMAIN t[i] : t[i][k] = n

Process(kind, lane, out) ==
  [kind |-> kind, lane |-> lane, out |-> out, start |-> 1, bounds |-> <<>>, host |-> <<>>,
   ignored |-> {}, body |-> <<>>, slot |-> "A"]

(* A choice, two tasks in two lanes and a second choice: joins, loops,       *)
(* reverts and ends in every arrangement.                                    *)
Exclusives ==
  {Process(<<"start", "xor", "task", "task", "xor", "end", "end">>,
           <<"A", "A", "B", "A", "B", "A", "A">>, <<<<2>>>> \o t \o <<<<>>, <<>>>>) :
     t \in {u \in OneOrTwo(2..7) \X One(2..7) \X One(2..7) \X OneOrTwo(2..7) :
              Enter(u, 3..5)}}

(* A choice among three tasks, one of them in a lane marked ignore; the      *)
(* branches may merge in part.                                               *)
Merges(ignored) ==
  {[Process(<<"start", "xor", "task", "xor", "task", "task", "end", "end">>,
            <<"A", "A", "A", "A", "B", "I", "A", "A">>, <<<<2>>>> \o t \o <<<<>>, <<>>>>)
      EXCEPT !.ignored = ignored] :
     t \in {u \in Two(3..6) \X One(4..7) \X OneOrTwo(2..7) \X One(3..7) \X One(5..8) :
              Enter(u, 3..7)}}

(* A parallel split around a choice.                                         *)
Parallels ==
  {Process(<<"start", "and", "xor", "task", "receive", "xor", "and", "end", "end">>,
           <<"A", "A", "A", "A", "B", "A", "A", "A", "A">>,
           <<<<2>>>> \o t \o <<<<>>, <<>>>>) :
     t \in {u \in Two(3..5) \X OneOrTwo(4..7) \X One(5..7) \X One(6..7)
                    \X OneOrTwo({2, 4, 5, 7, 8}) \X One({8, 9}) : Enter(u, 3..7)}}

(* A task two branches reach, each on its own, in a loop a choice closes.    *)
Copies ==
  {Process(<<"start", "xor", "xor", "task", "xor", "task", "end", "end">>,
           <<"A", "A", "A", "B", "A", "A", "A", "A">>, <<<<2>>>> \o t \o <<<<>>, <<>>>>) :
     t \in {u \in Two(3..6) \X Two(4..7) \X One({5}) \X Two({2, 3, 4, 6, 7, 8}) \X One({4, 5, 7, 8}) :
              Enter(u, 3..7)}}

(* A timer or message on the first task, its path through a choice.          *)
Boundaries(kind) ==
  {[Process(<<"start", "task", kind, "xor", "task", "task", "end", "end">>,
            <<"A", "A", "A", "A", "A", "B", "A", "A">>,
            <<<<2>>>> \o t \o <<<<>>, <<>>>>)
      EXCEPT !.bounds = <<3>>, !.host = 3 :> 2] :
     t \in {u \in One({4, 5, 6, 7}) \X One(4..8) \X Two({2, 5, 6, 7, 8}) \X One({4, 6, 7})
                    \X One({4, 5, 7, 8}) : Enter(u, 4..6)}}

(* A sub-process between two tasks, an error on it, and a call; its body     *)
(* loops and branches.                                                       *)
Bodies(lane) ==
  {[Process([n \in 11..15 |-> <<"start", "task", "xor", "task", "end">>[n - 10]],
            [n \in 11..15 |-> lane],
            [n \in 11..15 |-> IF n = 11 THEN <<12>> ELSE IF n = 15 THEN <<>> ELSE t[n - 11]])
      EXCEPT !.start = 11] :
     t \in {u \in One({13, 14, 15}) \X Two({12, 14, 15}) \X One({13, 15}) : Enter(u, 13..15)}}

SubProcesses ==
  {[Process(<<"start", "task", "sub", "error", "call", "xor", "task", "end">>,
            <<"A", "A", "A", "A", "B", "A", "A", "A">>,
            <<<<2>>, <<3>>>> \o t \o <<<<>>>>)
      EXCEPT !.bounds = <<4>>, !.host = 4 :> 3, !.body = 3 :> b] :
     t \in {u \in One({5, 6, 7}) \X One({2, 3, 6, 7, 8}) \X One({6, 7, 8})
                    \X Two({2, 3, 7, 8}) \X One({6, 8}) : Enter(u, 5..7)},
     b \in Bodies("") \cup Bodies("B")}

TimerDocuments == <<Boundaries("timer")>>

AllDocuments ==
  <<Exclusives, Merges({}), Merges({"I"}), Parallels, Copies, Boundaries("timer"), SubProcesses>>
=============================================================================
