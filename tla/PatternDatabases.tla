-------------------------- MODULE PatternDatabases --------------------------
(***************************************************************************)
(* The pattern databases of the atom-min-m-backward heuristic              *)
(* (heuristics.cc, graph.cc).  Pairs of atoms that are never true together *)
(* are found first; orbits are sets of such atoms of which one is true all *)
(* the time; a system is a set of m orbits that meet the goal, with the    *)
(* distances to the goal in what the orbits tell of a state; a database is *)
(* a set of systems without a common atom, whose distances are added up.   *)
(*                                                                         *)
(* Orbits and systems the domain file names, and with them background      *)
(* orbits, are left out.  The medium relaxation is the argument rel.       *)
(***************************************************************************)
EXTENDS Heuristics

CONSTANT MaxDatabases  \* gpt::max_database_size

PositivePrec(o) == o.prec \cap Evens

\* compute_orbits: atoms that the operators reach from the initial state.
RECURSIVE ReachableAtoms(_, _)
ReachableAtoms(rel, atoms) ==
  LET more == atoms \cup UNION {rel.actions[i].eff.add \cap Evens :
                 i \in {j \in DOMAIN rel.actions : PositivePrec(rel.actions[j]) \subseteq atoms}}
  IN  IF more = atoms THEN atoms ELSE ReachableAtoms(rel, more)

\* An operator adds an atom of the pair and may leave the other one true, or make it true.
Breaks(o, pair, pairs) ==
  LET p == IF Min(pair) \in o.eff.add THEN Min(pair) ELSE Max(pair)
      q == CHOOSE r \in pair : r # p
  IN  /\ p \in o.eff.add
      /\ q \notin o.eff.del
      /\ \/ q \in o.eff.add
         \/ \A r \in PositivePrec(o) : {q, r} \notin pairs

\* compute_mutexes: pairs are removed one by one, which ends in the same set.
RECURSIVE Refine(_, _, _)
Refine(rel, atoms, pairs) ==
  LET applicable == {i \in DOMAIN rel.actions : PositivePrec(rel.actions[i]) \subseteq atoms}
      kept == {pair \in pairs : \A i \in applicable : ~Breaks(rel.actions[i], pair, pairs)}
  IN  IF kept = pairs THEN pairs ELSE Refine(rel, atoms, kept)

Mutexes(p, rel) ==
  LET atoms == ReachableAtoms(rel, p.init)
  IN  Refine(rel, atoms, {pair \in kSubset(2, atoms) : ~(pair \subseteq p.init)})

\* maximal_cliques and maximal_disjoint_cliques: what is found depth first, nodes taken
\* in before they are left out.  With disjoint, no node of an earlier clique is taken
\* in; the ones that are already in stay.  found is what has been found so far.
RECURSIVE Cliques(_, _, _, _, _, _, _)
Cliques(nodes, edge, disjoint, covers, max, clique, found) ==
  IF Len(found) = max THEN found
  ELSE IF nodes = <<>>
    THEN IF clique \in covers /\ \A i \in DOMAIN found : ~(clique \subseteq found[i])
           THEN Append(found, clique) ELSE found
    ELSE LET n == Head(nodes)
             fits == /\ \A k \in clique : {n, k} \in edge
                     /\ disjoint => \A i \in DOMAIN found : n \notin found[i]
             with == IF fits THEN Cliques(Tail(nodes), edge, disjoint, covers, max, clique \cup {n}, found)
                     ELSE found
         IN  Cliques(Tail(nodes), edge, disjoint, covers, max, clique, with)

\* Mutant: an atom may be deleted without another one being added.
IsCoverOfNothing(rel, orbit) == \A i \in DOMAIN rel.actions : ~(orbit \subseteq rel.actions[i].eff.del)

\* is_cover: an operator that deletes an atom of the orbit adds one.
IsCover(rel, orbit) ==
  \A i \in DOMAIN rel.actions : orbit \cap rel.actions[i].eff.del # {} =>
                                  orbit \cap rel.actions[i].eff.add # {}

\* compute_orbits: the seeds are the atoms that are true at first.
Orbits(p, rel) ==
  LET seeds == p.init \cap Evens
  IN  Cliques(SetToSortSeq(Evens, <), Mutexes(p, rel), TRUE,
              {orbit \in SUBSET Evens : orbit \cap seeds # {} /\ IsCover(rel, orbit)},
              -1, {}, <<>>)

\* compute_systems: sets of m orbits that meet the goal, or of all of them.
Systems(rel, orbits, m) ==
  LET goal == {i \in DOMAIN orbits : orbits[i] \cap rel.goal[1] # {}}
  IN  IF goal = {} THEN {} ELSE MSubsets(m, goal)
Mask(orbits, system) == UNION {orbits[i] : i \in system}

\* Mutant: the preconditions are not part of the regression.
RegressionsUnconditioned(rel, orbits, mask, list) ==
  {list \ (o.eff.add \cap mask) :
     o \in {q \in ToSet(rel.actions) : list \cap q.eff.add # {} /\ list \cap q.eff.del = {}}}

\* regression and prune
Regressions(rel, orbits, mask, list) ==
  LET steps   == {o \in ToSet(rel.actions) : /\ list \cap o.eff.add \cap mask # {}
                                             /\ list \cap o.eff.del \cap mask = {}}
      results == {(list \cup (o.prec \cap mask)) \ (o.eff.add \cap mask) : o \in steps}
  IN  {r \in results : \A i \in DOMAIN orbits : Cardinality(r \cap orbits[i]) <= 1}

\* The pattern database of a system, layer by layer: every step changes an atom of
\* the focus, so that it costs one.
RECURSIVE Distances(_, _, _, _)
Distances(rel, orbits, mask, layers) ==
  LET next == UNION {Regressions(rel, orbits, mask, list) : list \in Last(layers)} \ UNION ToSet(layers)
  IN  IF next = {} THEN layers ELSE Distances(rel, orbits, mask, Append(layers, next))

\* compute_databases: systems without a common atom, and the distances of those used.
Databases(p, rel, m) ==
  LET orbits  == Orbits(p, rel)
      systems == SetToSeq(Systems(rel, orbits, m))
      mask(i) == Mask(orbits, systems[i])
      apart   == {e \in kSubset(2, DOMAIN systems) : mask(Min(e)) \cap mask(Max(e)) = {}}
      sets    == Cliques(SetToSortSeq(DOMAIN systems, <), apart, FALSE, SUBSET DOMAIN systems,
                         MaxDatabases, {}, <<>>)
      table(i) == [mask |-> mask(i), layers |-> Distances(rel, orbits, mask(i), <<{rel.goal[1] \cap mask(i)}>>)]
  IN  [orbits |-> orbits, mutexes |-> Mutexes(p, rel),
       databases |-> IF systems = <<>> THEN {} ELSE {{table(i) : i \in sets[j]} : j \in DOMAIN sets}]

\* system_t::value
SystemValue(table, s) ==
  LET found == {d \in DOMAIN table.layers : s \cap table.mask \in table.layers[d]}
  IN  IF found = {} THEN DeadEndValue ELSE Min(found) - 1

\* atomMinMBackwardHeuristic_t::value
PatternValue(db, s) ==
  LET sum(tables) == IF \E t \in tables : SystemValue(t, s) = DeadEndValue THEN DeadEndValue
                     ELSE MapThenSumSet(LAMBDA t : SystemValue(t, s), tables)
  IN  Max({0} \cup {sum(tables) : tables \in db.databases})
=============================================================================
