----------------------------- MODULE MCVersions -----------------------------
(* The pairs of versions of the runs over PlanDiff: one diagram drawn in     *)
(* every small way, compared with every other way to draw it.                *)
EXTENDS MCCompiler, PlanDiff

NoSettings == [timer |-> "", message |-> "", connector |-> "", text |-> "t"]
AsVersion(p, stored) ==
  [drawn |-> p, settings |-> [n \in DOMAIN p.kind |-> NoSettings], stored |-> stored, workflow |-> "w"]

(* A task with a boundary, a choice and two more tasks, in two lanes.        *)
Drawing(kind, lane, out) ==
  [Process(<<"start", "task", "xor", "task", kind, "task", "end">>,
           <<"A", "A", "A", "B", "A", lane, "A">>, <<<<2>>, <<3>>>> \o out \o <<<<>>>>)
     EXCEPT !.bounds = <<5>>, !.host = 5 :> 2]
Drawings ==
  {Drawing(kind, lane, t) :
     kind \in {"timer", "message"}, lane \in {"A", "B"},
     t \in {u \in {<<4>>, <<2, 4>>, <<4, 6>>, <<4, 7>>} \X One({6, 7}) \X One({6, 7}) \X One({7}) :
              Enter(u, {4, 6})}}

(* A loop that no gateway closes, which the checks refuse. *)
Endless == Drawing("timer", "A", <<<<4>>, <<6>>, <<6>>, <<2>>>>)

Drafts == {AsVersion(p, "none") : p \in Drawings}
Plain == Drawing("timer", "A", <<<<2, 4>>, <<6>>, <<6>>, <<7>>>>)
Changed == {[AsVersion(Plain, "none") EXCEPT !.settings[n][f] = "x"] :
              n \in {2, 4}, f \in {"timer", "message", "connector", "text"}}

AllPairs ==
  <<[bases |-> {AsVersion(p, "readable") : p \in Drawings}, targets |-> Drafts],
    [bases |-> {NoVersion, [AsVersion(Plain, "readable") EXCEPT !.workflow = "v"],
                AsVersion(Plain, "unreadable"), AsVersion(Endless, "unreadable")},
     targets |-> Drafts],
    [bases |-> {AsVersion(Plain, "readable")}, targets |-> Changed],
    [bases |-> {NoVersion, AsVersion(Endless, "unreadable")}, targets |-> {AsVersion(Endless, "none")}]>>
=============================================================================
