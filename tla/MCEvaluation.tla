---------------------------- MODULE MCEvaluation ----------------------------
(***************************************************************************)
(* Problems of two or three actions out of a catalogue over four atoms     *)
(* (0, 2, 4 and 6; 8 is the goal atom of disjunctive goals).               *)
(***************************************************************************)
EXTENDS Evaluation

Eff(add, del) == [add |-> add, del |-> del, cond |-> <<>>]
When(prec, add, del) == [prec |-> prec, add |-> add, del |-> del]
Act(prec, outcomes) == [prec |-> prec, outcomes |-> outcomes]

Catalogue == <<
  \* moves on {0, 2} and on {4, 6}
  Act(<<{0}>>, <<Eff({2}, {0})>>),
  Act(<<{2}>>, <<Eff({0}, {2}), Eff({}, {})>>),
  Act(<<{4}>>, <<Eff({6}, {4})>>),
  Act(<<{2, 6}>>, <<Eff({4}, {6}), Eff({0}, {2})>>),
  \* both at a time, and without a precondition
  Act(<<{0, 4}>>, <<Eff({2, 6}, {0, 4})>>),
  Act(<<{}>>, <<Eff({6}, {4})>>),
  \* negative and disjunctive preconditions
  Act(<<{1, 4}>>, <<Eff({0}, {2})>>),
  Act(<<{0}, {4}>>, <<Eff({2, 6}, {0, 4}), Eff({4}, {})>>),
  \* conditional effects, the second one's condition kept or not
  Act(<<{0}>>, <<[add |-> {2}, del |-> {}, cond |-> <<When({4}, {6}, {4}), When({0}, {}, {0})>>]>>),
  Act(<<{4}>>, <<[add |-> {2}, del |-> {0}, cond |-> <<When({2}, {6}, {})>>]>>),
  \* three preconditions
  Act(<<{0, 2, 4}>>, <<Eff({6}, {0})>>) >>

Subproblems == {c \in SUBSET DOMAIN Catalogue : Cardinality(c) \in {2, 3}}
MCProblems ==
  {[init |-> i, goal |-> g, actions |-> Each(LAMBDA n : Catalogue[n], SetToSortSeq(c, <))] :
     c \in Subproblems, i \in {{0, 4}, {2, 4}, {0, 2, 4}}, g \in {<<{2, 6}>>, <<{6}>>, <<{2}, {0, 6}>>}}
=============================================================================
