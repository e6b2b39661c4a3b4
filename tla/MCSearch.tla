------------------------------ MODULE MCSearch ------------------------------
(***************************************************************************)
(* A board of two counters that move apart or together, one of them with   *)
(* an uncertain step back and a trap (0, 2, 4 and 6, 8, 10; 12 is the goal *)
(* atom), with operators that regression undoes and some that it does not. *)
(***************************************************************************)
EXTENDS Search

Eff(add, del) == [add |-> add, del |-> del, cond |-> <<>>]
Move(x, y) == [prec |-> <<{x}>>, outcomes |-> <<Eff({y}, {x})>>]
Board ==
  << Move(0, 2),
     [prec |-> <<{2}>>, outcomes |-> <<Eff({4}, {2}), Eff({0}, {2}), Eff({}, {})>>],
     Move(6, 8),
     [prec |-> <<{4, 8}, {0, 8}>>, outcomes |-> <<Eff({6}, {8})>>],
     [prec |-> <<{2, 6}>>, outcomes |-> <<Eff({4, 8}, {2, 6})>>] >>
Trap == <<Move(0, 4), Move(6, 8), Move(2, 0)>>
Loose == <<[prec |-> <<{}>>, outcomes |-> <<Eff({4}, {0})>>], Move(0, 2), Move(2, 4),
           [prec |-> <<{1}>>, outcomes |-> <<Eff({8}, {6})>>]>>

MCProblems ==
  {[init |-> i, goal |-> g, actions |-> a] :
     i \in {{0, 6}}, g \in {<<{4, 6}>>, <<{2, 8}>>, <<{4, 8}, {2}>>}, a \in {Board, Trap, Loose}}
=============================================================================
