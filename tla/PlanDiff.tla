------------------------------ MODULE PlanDiff ------------------------------
(* Whether the next version of a workflow is taken for a change of metadata  *)
(* or of structure: the comparison of two plans (computeDiff), the read that *)
(* reports it and the check an unforced publish must pass.                   *)
(*                                                                           *)
(* A version is [drawn, settings, stored, workflow]: its process, what each  *)
(* element has that is not drawn as a flow (a timer's duration, a message, a *)
(* connector type, and the rest as text), whether its stored plan is         *)
(* readable, and its workflow.  The conditions of a choice are left out.     *)
EXTENDS CompilerProperties

CONSTANT Pairs     \* sequence of families: bases, each compared with each of targets

VARIABLES pair, resolved, judged
diffVars == <<pair, resolved, judged>>

NoVersion == [workflow |-> ""]

-----------------------------------------------------------------------------
(* resolvePlan: the stored plan when it can be read, and the document        *)
(* compiled again when it cannot; plans are compared expanded.               *)
Refused == [refused |-> TRUE]
PlanOrRefusal(p, settings, stored, pl) ==
  IF stored # "readable" /\ (Issues(p) # {} \/ pl.failed) THEN Refused
  ELSE [refused |-> FALSE, drawn |-> p, settings |-> settings, plan |-> pl]
ResolvePlan(v, p) == PlanOrRefusal(p, v.settings, v.stored, CompilePlan(p))

-----------------------------------------------------------------------------
Departments(r) == DOMAIN r.plan.depts

Longest(s, t) == IF Len(s) > Len(t) THEN Len(s) ELSE Len(t)
Shortest(s, t) == IF Len(s) < Len(t) THEN Len(s) ELSE Len(t)
DiffOperations(base, target) ==
  {i \in 1 .. Longest(base, target) :
     i > Shortest(base, target) \/ base[i].op # target[i].op}
DiffSteps(base, target) ==
  {i \in 1 .. Longest(base, target) :
     i > Shortest(base, target) \/ base[i] # target[i]}

NodeKeys(r) == {<<d, n>> \in Departments(r) \X DOMAIN r.settings : n \in ToSet(r.plan.depts[d])}

(* The part of a stage that is compared: its connector, and a boundary of    *)
(* each kind with its duration or message, where it leads and what it runs.  *)
Led(r, n, kind) ==
  {<<r.plan.target[b], IF b \in DOMAIN r.plan.boundarySteps THEN r.plan.boundarySteps[b] ELSE <<>>>> :
     b \in {c \in ToSet(r.drawn.bounds) : r.drawn.host[c] = n /\ r.drawn.kind[c] = kind}}
Compared(r, n) ==
  [timer |-> <<r.settings[n].timer, Led(r, n, "timer")>>,
   message |-> <<r.settings[n].message, Led(r, n, "message")>>,
   connector |-> r.settings[n].connector]

DiffStages(base, target) ==
  {key \in NodeKeys(base) \cap NodeKeys(target) :
     Compared(base, key[2]) # Compared(target, key[2])}

ComputeDiff(base, target) ==
  [added   |-> Departments(target) \ Departments(base),
   removed |-> Departments(base) \ Departments(target),
   steps   |-> DiffSteps(base.plan.steps, target.plan.steps),
   stages  |-> DiffStages(base, target)]

MetadataOnly(changes) == changes = [added |-> {}, removed |-> {}, steps |-> {}, stages |-> {}]

-----------------------------------------------------------------------------
DiffInit ==
  /\ \E f \in DOMAIN Pairs : pair \in [base : Pairs[f].bases, target : Pairs[f].targets]
  /\ resolved = <<>> /\ judged = "nothing"

SameWorkflow == pair.base.workflow \in {"", pair.target.workflow}

(* Both requests read the two plans, or the one there is.                    *)
ResolveBoth ==
  /\ resolved = <<>> /\ judged = "nothing" /\ SameWorkflow
  /\ resolved' = [v \in {pair.base, pair.target} \ {NoVersion} |-> ResolvePlan(v, Analysed(v.drawn))]
  /\ UNCHANGED <<pair, judged>>

(* Diff, of two versions of one workflow.                                    *)
DiffForeign ==
  /\ judged = "nothing" /\ ~SameWorkflow
  /\ judged' = "NOT_FOUND"
  /\ UNCHANGED <<pair, resolved>>

Diff ==
  /\ judged = "nothing" /\ resolved # <<>> /\ pair.base # NoVersion
  /\ LET base == resolved[pair.base]
         target == resolved[pair.target]
     IN judged' = IF base.refused \/ target.refused THEN "VALIDATION_FAILED"
                  ELSE IF MetadataOnly(ComputeDiff(base, target)) THEN "METADATA_ONLY"
                  ELSE "STRUCTURAL"
  /\ UNCHANGED <<pair, resolved>>

(* checkStructuralDivergence: base is the active version, target the draft,  *)
(* which must compile.  An active version that compiles no more diverges.    *)
Diverges(base, target) == base.refused \/ ~MetadataOnly(ComputeDiff(base, target))

CheckDivergence(force) ==
  /\ judged = "nothing" /\ resolved # <<>>
  /\ judged' = IF resolved[pair.target].refused THEN "VALIDATION_FAILED"
               ELSE IF pair.base = NoVersion THEN "first"
               ELSE IF force THEN "forced"
               ELSE IF Diverges(resolved[pair.base], resolved[pair.target])
               THEN "STRUCTURAL_DIVERGENCE" ELSE "accepted"
  /\ UNCHANGED <<pair, resolved>>

DiffNext == ResolveBoth \/ DiffForeign \/ Diff \/ \E force \in BOOLEAN : CheckDivergence(force)

DiffSpec == DiffInit /\ [][DiffNext]_diffVars

-----------------------------------------------------------------------------
(* The lanes a workflow's runs pass through, in order.                       *)
LaneIn(p, n) ==
  IF n \in Nodes(p) THEN p.lane[n]
  ELSE LET b == CHOOSE m \in DOMAIN p.body : n \in Nodes(p.body[m])
       IN IF p.body[b].lane[n] = "" THEN p.lane[b] ELSE p.body[b].lane[n]
Merged(lanes) ==
  FoldLeft(LAMBDA acc, l : IF acc # <<>> /\ Last(acc) = l THEN acc ELSE Append(acc, l), <<>>, lanes)
RoutesOf(p) ==
  {Merged([i \in DOMAIN r |-> LaneIn(p, r[i])]) : r \in Runs(p, p.start, NoNode)}

(* A draft published without force sends its work through the same lanes in  *)
(* the same orders as the version it replaces, on every path: whatever was   *)
(* drawn anew, the comparison of the two plans has not missed a way the work *)
(* now takes or no longer takes (computeDiff, checkStructuralDivergence).    *)
UnforcedKeepsTheRoutes ==
  judged = "accepted" =>
    RoutesOf(Analysed(pair.base.drawn)) = RoutesOf(Analysed(pair.target.drawn))
=============================================================================
