----------------------------- MODULE Heuristics -----------------------------
(***************************************************************************)
(* The heuristics mini-gpt's planners ask for the value of a state         *)
(* (heuristics.cc) that are computed from relaxations alone:               *)
(* atom-min-1-forward, atom-min-m-forward and ff.  A planner builds its    *)
(* heuristic once, and asks it for the states the simulator leads it to.   *)
(*                                                                         *)
(* The heuristic weight is one.  An m-subset is a set; its number          *)
(* (codification_t) and the order in which the priority queue returns      *)
(* subsets of the same cost are left out.                                  *)
(***************************************************************************)
EXTENDS Relaxation

CONSTANTS
  Problems,      \* the problems to plan for
  DeadEndValue   \* gpt::dead_end_value

-----------------------------------------------------------------------------
(* atom-min-1-forward *)

\* Mutant: the sweep in which the goal is found to hold is counted too.
RECURSIVE SweepsCountLast(_, _, _)
SweepsCountLast(rel, s, steps) ==
  LET t == FoldLeft(LAMBDA u, o : IF Holds(o.prec, u, rel.nprec) THEN Strips(u, o.eff) ELSE u,
                    s, rel.actions)
  IN  IF AnyHolds(rel.goal, s, FALSE) \/ t = s
        THEN IF AnyHolds(rel.goal, s, rel.nprec) THEN steps + 1 ELSE DeadEndValue
        ELSE SweepsCountLast(rel, t, steps + 1)

\* Sweeps over the operators, until the goal holds or nothing changes.
RECURSIVE Sweeps(_, _, _)
Sweeps(rel, s, steps) ==
  LET t == FoldLeft(LAMBDA u, o : IF Holds(o.prec, u, rel.nprec) THEN Strips(u, o.eff) ELSE u,
                    s, rel.actions)
      end(u, n) == IF AnyHolds(rel.goal, u, rel.nprec) THEN n ELSE DeadEndValue
  IN  CASE AnyHolds(rel.goal, s, FALSE) -> end(s, steps)
        [] t = s                        -> end(s, steps + 1)
        [] OTHER                        -> Sweeps(rel, t, steps + 1)

AtomMin1(strong, s) == Sweeps(strong, Complete(strong, s), 0)

-----------------------------------------------------------------------------
(* atom-min-m-forward *)

\* The subsets of m literals, or the whole list when it has fewer.
MSubsets(m, list) == IF Cardinality(list) < m THEN {list} ELSE kSubset(m, list)

\* Mutant: the loop looks at the last precondition too.
AppliesAll(o, list) == \A l \in o.prec : IF Even(l) THEN l \in list ELSE l \notin list

\* The loop over the preconditions of an operator ends before it has looked at the last one.
Applies(o, list) == \A l \in o.prec : (\E k \in o.prec : k > l) => IF Even(l) THEN l \in list ELSE l \notin list

\* The subsets reached with one action more.
Progress(rel, m, lists) ==
  UNION {UNION {MSubsets(m, Strips(list, rel.actions[i].eff)) :
                  i \in {j \in DOMAIN rel.actions : Applies(rel.actions[j], list)}} : list \in lists}

\* The cost at which the last of the goal's subsets is reached.
RECURSIVE Dijkstra(_, _, _, _, _)
Dijkstra(rel, m, closed, open, cost) ==
  IF MSubsets(m, rel.goal[1]) \subseteq closed \cup open THEN cost
  ELSE IF open = {} THEN DeadEndValue
  ELSE Dijkstra(rel, m, closed \cup open, Progress(rel, m, open) \ (closed \cup open), cost + 1)

AtomMinM(p, medium, m, s) ==
  IF AnyHolds(p.goal, s, FALSE) THEN 0 ELSE Dijkstra(medium, m, {}, MSubsets(m, s), 0)

-----------------------------------------------------------------------------
(* ff *)

Operators(rel) == DOMAIN rel.actions

\* ffHeuristic_t::schedule: the operators whose last precondition has just been
\* reached; one without preconditions never is.
Scheduled(rel, facts, ops) ==
  {o \in Operators(rel) \ UNION ToSet(ops) :
     LET prec == rel.actions[o].prec IN prec # {} /\ prec \subseteq UNION ToSet(facts)}

\* The layers of the relaxed graph plan: facts[i + 1] are the literals with index i.
RECURSIVE GraphPlan(_, _, _, _)
GraphPlan(rel, goal, facts, ops) ==
  IF goal \subseteq UNION ToSet(facts) \/ Last(ops) = {} THEN [facts |-> facts, ops |-> ops]
  ELSE LET added == UNION {rel.actions[o].eff.add : o \in Last(ops)} \ UNION ToSet(facts)
           more  == Append(facts, added)
       IN  GraphPlan(rel, goal, more, Append(ops, Scheduled(rel, more, ops)))

Index(graph, l) == CHOOSE i \in DOMAIN graph.facts : l \in graph.facts[i]
Difficulty(rel, graph, o) == MapThenSumSet(LAMBDA l : Index(graph, l) - 1, rel.actions[o].prec)

\* ffHeuristic_t::select: the first of the easiest operators that add a goal of a layer.
Select(rel, graph, goal, layer) ==
  LET adding == {o \in graph.ops[layer - 1] : goal \in rel.actions[o].eff.add}
      best == {o \in adding : \A q \in adding : Difficulty(rel, graph, o) <= Difficulty(rel, graph, q)}
  IN  Min(best)

\* One goal of a layer: unless marked, its operator joins the plan, with
\* preconditions that are goals of their layers and adds marked in two layers.
Achieve(rel, graph, layer, x, goal) ==
  IF goal \in x.true[layer] THEN x
  ELSE LET o    == Select(rel, graph, goal, layer)
           open == {l \in rel.actions[o].prec : Index(graph, l) > 1 /\ l \notin x.true[layer - 1]}
           add  == rel.actions[o].eff.add
       IN  [plan  |-> x.plan \cup {o},
            goals |-> [i \in DOMAIN x.goals |-> x.goals[i] \cup (open \cap graph.facts[i])],
            true  |-> [x.true EXCEPT ![layer] = @ \cup add, ![layer - 1] = @ \cup add]]

RECURSIVE Extract(_, _, _, _)
Extract(rel, graph, layer, x) ==
  IF layer = 1 THEN x.plan
  ELSE Extract(rel, graph, layer - 1,
               FoldLeft(LAMBDA y, goal : Achieve(rel, graph, layer, y, goal), x,
                        SetToSortSeq(x.goals[layer], <)))

\* The goal is the first goal list of the problem, not that of the relaxation.
Ff(p, strong, s) ==
  LET goal  == p.goal[1]
      first == <<{IF l \in s THEN l ELSE l + 1 : l \in IF strong.nprec THEN Evens ELSE s}>>
      graph == GraphPlan(strong, goal, first, <<Scheduled(strong, first, <<>>)>>)
  IN  IF AnyHolds(p.goal, s, strong.nprec) THEN 0
      ELSE IF ~(goal \subseteq UNION ToSet(graph.facts)) THEN DeadEndValue
      ELSE Cardinality(Extract(strong, graph, Len(graph.facts),
                               [plan  |-> {},
                                goals |-> Each(LAMBDA f : f \cap goal, graph.facts),
                                true  |-> Each(LAMBDA f : {}, graph.facts)]))
=============================================================================
