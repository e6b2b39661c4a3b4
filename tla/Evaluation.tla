----------------------------- MODULE Evaluation -----------------------------
(***************************************************************************)
(* A planner of mini-gpt and its heuristics: they are built from the       *)
(* relaxations of the problem when the planner starts, and then asked for  *)
(* the values of the states that the actions lead to, where every outcome  *)
(* of an action may happen.                                                *)
(*                                                                         *)
(* The properties compare the values with the distance to the goal, the    *)
(* number of actions of the shortest plan whose outcomes can be chosen:    *)
(* no policy reaches the goal at a lower expected cost.  Each says for     *)
(* which problems it holds; the rest of the problems is where the code     *)
(* does not do what the heuristic is for.                                  *)
(***************************************************************************)
EXTENDS PatternDatabases

CONSTANT Ms   \* the m of atom-min-m-forward and atom-min-m-backward to choose from

VARIABLES
  problem,  \* the problem, flattened
  m,        \* the size of subsets of atoms, and of orbits
  strong, medium,  \* its relaxations
  patterns, \* orbits, mutexes and databases of atom-min-m-backward
  state     \* the state the planner asks for

vars == <<problem, m, strong, medium, patterns, state>>

Successors(p, s) ==
  UNION {{Affect(s, a.outcomes[i]) : i \in DOMAIN a.outcomes} :
           a \in {b \in ToSet(p.actions) : AnyHolds(b.prec, s, FALSE)}}

Init ==
  /\ problem \in Problems
  /\ m \in Ms
  /\ medium = Medium(Weak(problem))
  /\ strong = Strong(medium)
  /\ patterns = Databases(problem, medium, m)
  /\ state = problem.init

\* problem_t::expand: the actions enabled in the state, and their outcomes
Next ==
  /\ state' \in Successors(problem, state)
  /\ UNCHANGED <<problem, m, strong, medium, patterns>>

Spec == Init /\ [][Next]_vars

-----------------------------------------------------------------------------
(* The reference *)

RECURSIVE Nearest(_, _, _, _)
Nearest(p, closed, open, n) ==
  IF \E s \in open : AnyHolds(p.goal, s, FALSE) THEN n
  ELSE IF open = {} THEN DeadEndValue
  ELSE Nearest(p, closed \cup open, UNION {Successors(p, s) : s \in open} \ (closed \cup open), n + 1)
Distance == Nearest(problem, {}, {state}, 0)

Disjunctive == Len(problem.goal) > 1
Positive(lists) == \A i \in DOMAIN lists : lists[i] \subseteq Evens
Parts(e) == <<[prec |-> {}, add |-> e.add, del |-> e.del]>> \o e.cond
Outcomes == UNION {ToSet(a.outcomes) : a \in ToSet(problem.actions)}

\* No condition is about what an effect before it changes.
ConditionsKept == \A e \in Outcomes : \A i, j \in DOMAIN Parts(e) :
  i < j => \A l \in Parts(e)[j].prec : {l, Negated(l)} \cap (Parts(e)[i].add \cup Parts(e)[i].del) = {}

\* No atom is added and deleted by the same outcome.
AddOrDelete == \A e \in Outcomes : \A i, j \in DOMAIN Parts(e) : Parts(e)[i].add \cap Parts(e)[j].del = {}

-----------------------------------------------------------------------------
(* Properties *)

\* atom-min-1-forward is a lower bound of the distance (one more for a disjunctive goal:
\* problem_.goal_atom() is false, the atom is the relaxation's) if no goal is negative
\* and the conditions of conditional effects are kept.
AtomMin1Admissible ==
  ConditionsKept /\ Positive(problem.goal) =>
    AtomMin1(strong, state) <= Distance + IF Disjunctive THEN 1 ELSE 0

\* atom-min-m-forward is a lower bound of the distance if there are no negative
\* literals, at most two preconditions, and never fewer than m atoms.
AtomMinMAdmissible ==
  /\ ConditionsKept /\ AddOrDelete /\ ~Disjunctive
  /\ Positive(problem.goal) /\ ~medium.nprec
  /\ Cardinality(problem.goal[1]) >= m
  /\ \A o \in ToSet(medium.actions) : Cardinality(o.prec) <= 2
  => AtomMinM(problem, medium, m, state) <= Distance

\* ff calls a state a dead end only if the goal cannot be reached, and takes no other
\* states for goals, if every operator has a precondition and the goal is one list of
\* atoms.
FfTellsGoalsAndDeadEnds ==
  ConditionsKept /\ ~Disjunctive /\ Positive(problem.goal)
  /\ (\A o \in ToSet(strong.actions) : o.prec # {}) =>
    LET h == Ff(problem, strong, state)
    IN  /\ h = DeadEndValue => Distance = DeadEndValue
        /\ h = 0 <=> Distance = 0

\* Of the atoms of an orbit exactly one is true in every state, and no state has
\* both atoms of a pair found to be mutually exclusive.
OrbitsCovered ==
  ConditionsKept /\ AddOrDelete =>
    /\ \A pair \in patterns.mutexes : ~(pair \subseteq state)
    /\ \A i \in DOMAIN patterns.orbits : Cardinality(patterns.orbits[i] \cap state) = 1

\* atom-min-m-backward is a lower bound of the distance if no operator changes atoms of
\* two systems of a database, or an orbit it has no precondition on.
PatternsAdmissible ==
  /\ ConditionsKept /\ AddOrDelete /\ ~Disjunctive /\ Positive(problem.goal)
  /\ \A o \in ToSet(medium.actions) :
       LET changed == {i \in DOMAIN patterns.orbits :
                         patterns.orbits[i] \cap (o.eff.add \cup o.eff.del) # {}}
       IN  /\ Cardinality(changed) <= 1
           /\ \A i \in changed : patterns.orbits[i] \cap o.prec # {}
  => PatternValue(patterns, state) <= Distance
=============================================================================
