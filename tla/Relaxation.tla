----------------------------- MODULE Relaxation -----------------------------
(***************************************************************************)
(* Flattened problems of mini-gpt and their relaxations (problems.cc):     *)
(* weak drops the probabilities, medium also the conditional effects, and  *)
(* strong also the delete lists.                                           *)
(*                                                                         *)
(* A literal is the number the code gives it: 2k for atom k, 2k+1 for its  *)
(* negation.  An atom list is a set of literals, a state the set of the    *)
(* literals it holds.  A problem is a record [init, goal, actions]; goals  *)
(* and preconditions are sequences of atom lists, of which one must hold;  *)
(* the outcomes of an action are effects [add, del, cond], cond being a    *)
(* sequence of conditional effects [prec, add, del].  An operator of a     *)
(* relaxation has one precondition list and one effect.                    *)
(***************************************************************************)
EXTENDS Integers, Sequences, SequencesExt, FiniteSetsExt

CONSTANT NumberAtoms  \* problem_t::number_atoms(), the literals of every problem

ASSUME RelaxationAssumption == NumberAtoms \in {2 * n : n \in 1..20}

GoalAtom == NumberAtoms - 2  \* atom_get_new(), for a disjunctive goal
Evens    == {2 * n : n \in 0..(NumberAtoms \div 2 - 1)}
Even(l)  == l % 2 = 0
Negated(l) == IF Even(l) THEN l + 1 ELSE l - 1
Each(Op(_), seq) == [i \in DOMAIN seq |-> Op(seq[i])]

\* atomList_t::holds and atomListList_t::holds
Holds(list, s, nprec) ==
  \A l \in list : IF nprec \/ Even(l) THEN l \in s ELSE l - 1 \notin s
AnyHolds(lists, s, nprec) == \E i \in DOMAIN lists : Holds(lists[i], s, nprec)

\* stripsEffect_t::affect, and deterministicEffect_t::affect: the conditions are
\* tested one after the other, on what the effects before have left.
Strips(s, e) == (s \cup e.add) \ e.del
Affect(s, e) == FoldLeft(LAMBDA t, c : IF Holds(c.prec, t, FALSE) THEN Strips(t, c) ELSE t,
                         Strips(s, e), e.cond)

NoStrips(e) == e.add = {} /\ e.del = {}
NoEffect(e) == NoStrips(e) /\ \A i \in DOMAIN e.cond : NoStrips(e.cond[i])

\* Mutant: the first precondition list only.
WeakFirstList(p) ==
  LET outcomes(a) == SelectSeq(a.outcomes, LAMBDA e : ~NoEffect(e))
  IN  [actions |-> FlattenSeq(Each(LAMBDA a : Each(LAMBDA e : [prec |-> a.prec[1], eff |-> e], outcomes(a)),
                                   p.actions)),
       goal |-> p.goal, nprec |-> FALSE]

\* compute_weak_relaxation: every outcome under every precondition list.
Weak(p) ==
  LET reach == [prec |-> p.goal, outcomes |-> <<[add |-> {GoalAtom}, del |-> {}, cond |-> <<>>]>>]
      actions == IF Len(p.goal) > 1 THEN Append(p.actions, reach) ELSE p.actions
      split(a) == FlattenSeq(Each(LAMBDA e : Each(LAMBDA l : [prec |-> l, eff |-> e], a.prec),
                                  SelectSeq(a.outcomes, LAMBDA e : ~NoEffect(e))))
  IN  [actions |-> FlattenSeq(Each(split, actions)),
       goal    |-> IF Len(p.goal) > 1 THEN <<{GoalAtom}>> ELSE p.goal,
       nprec   |-> FALSE]

\* problem_t::subsets: first those with the first member.
RECURSIVE Subsets(_)
Subsets(seq) ==
  IF seq = <<>> THEN <<<<>>>>
  ELSE Each(LAMBDA t : <<Head(seq)>> \o t, Subsets(Tail(seq))) \o Subsets(Tail(seq))

Contradiction(list) == \E l \in list : Even(l) /\ l + 1 \in list

\* An operator that has the conditional effects of a subset.
Merged(o, conds) ==
  FoldLeft(LAMBDA m, c : [prec |-> m.prec \cup c.prec,
                          eff |-> [add |-> m.eff.add \cup c.add, del |-> m.eff.del \cup c.del, cond |-> <<>>]],
           [o EXCEPT !.eff.cond = <<>>], conds)

\* Mutant: the conditional effects are taken all or none.
UnconditionalAllOrNone(o) ==
  IF o.eff.cond = <<>> THEN <<o>>
  ELSE SelectSeq(<<Merged(o, o.eff.cond), Merged(o, <<>>)>>,
                 LAMBDA m : ~Contradiction(m.prec) /\ ~NoEffect(m.eff))

Unconditional(o) ==
  IF o.eff.cond = <<>> THEN <<o>>
  ELSE SelectSeq(Each(LAMBDA conds : Merged(o, conds), Subsets(o.eff.cond)),
                 LAMBDA m : ~Contradiction(m.prec) /\ ~NoEffect(m.eff))

\* With negative preconditions, operators add and delete the negations too.
Completed(o) ==
  LET e == o.eff
  IN  [o EXCEPT !.eff.add = @ \cup {l + 1 : l \in e.del \cap Evens},
                !.eff.del = @ \cup {l + 1 : l \in e.add \cap Evens}]

\* compute_medium_relaxation, from a weak relaxation
Medium(weak) ==
  LET operators == FlattenSeq(Each(Unconditional, weak.actions))
      nprec     == \E i \in DOMAIN operators : \E l \in operators[i].prec : ~Even(l)
  IN  [weak EXCEPT !.actions = IF nprec THEN Each(Completed, operators) ELSE operators,
                   !.nprec   = nprec]

\* compute_strong_relaxation, from a medium one
Strong(medium) ==
  [medium EXCEPT !.actions = SelectSeq(Each(LAMBDA o : [o EXCEPT !.eff.del = {}], @),
                                       LAMBDA o : ~NoEffect(o.eff))]

\* problem_t::complete_state
Complete(rel, s) == IF rel.nprec THEN s \cup {l + 1 : l \in Evens \ s} ELSE s
=============================================================================
