----------------------------- MODULE MCMessages -----------------------------
(* The documents of the runs over MessageNames: a workflow that sends,       *)
(* receives and has a boundary event, and a process it may call that waits.  *)
EXTENDS MessageNames

Node(id, kind, ref) ==
  [id |-> id, kind |-> kind, ref |-> ref, skipped |-> FALSE, host |-> "task", cancel |-> ""]
MessageFlow(id, name, ref, source, target) ==
  [id |-> id, name |-> name, ref |-> ref, source |-> source, target |-> target]
Letter(calls, nodes, called, flows, root) ==
  LET workflow == [id |-> "w", calls |-> calls, nodes |-> nodes]
      other == [id |-> "c", calls |-> {}, nodes |-> <<called>>]
  IN [messages |-> <<[id |-> "m1", name |-> "N1"], [id |-> "m2", name |-> "N2"], [id |-> "m3", name |-> ""]>>,
      processes |-> IF root = 1 THEN <<workflow, other>> ELSE <<other, workflow>>,
      flows |-> flows, others |-> {"pool"}, root |-> root]

Refs == {"", "m1", "m3", "m9"}
FlowsTo(id, targets) ==
  {MessageFlow(id, name, ref, source, target) :
     name \in {"", "N3"}, ref \in {"", "m2", "m3"}, source \in {"s", "pool"}, target \in targets}

(* One flow, or none, with every reference. *)
OneFlow ==
  {Letter(calls, <<Node("s", "send", s), [Node("r", "receive", r) EXCEPT !.skipped = k],
                   Node("b", "boundary", b)>>, Node("x", kind, x), fs, root) :
     calls \in {{}, {"c"}}, s \in {"", "m1", "m3"}, r \in Refs, k \in BOOLEAN, b \in {"", "m3"},
     kind \in {"receive", "boundary"}, x \in {"", "m1"}, root \in 1..2,
     fs \in {<<>>, <<MessageFlow("f", "", "m9", "pool", "r")>>, <<MessageFlow("f", "N3", "", "pool", "gateway")>>}
              \cup {<<f>> : f \in FlowsTo("f", {"r", "b", "x"})}}

(* Two flows, into one node or two. *)
TwoFlows ==
  {Letter({"c"}, <<Node("s", "send", s), Node("r", "receive", r), Node("b", "boundary", "")>>,
          Node("x", "receive", ""), <<f, g>>, 1) :
     s \in {"", "m1"}, r \in {"", "m1"}, f \in FlowsTo("f", {"r", "b", "x"}), g \in FlowsTo("g", {"r", "b"})}

(* A boundary on every kind of host, with every way to write its attribute.  *)
Cancels ==
  {Letter({}, <<Node("s", "send", ""), Node("r", "receive", "m1"),
               [Node("b", kind, "m1") EXCEPT !.host = host, !.cancel = cancel]>>,
          Node("x", "receive", ""), <<>>, 1) :
     kind \in {"boundary", "timer"}, host \in {"task", "sub", "call"},
     cancel \in {"", "true", "false", "1", "0", "no"}}

AllLetters == <<OneFlow, TwoFlows, Cancels>>
=============================================================================
