---------------------------- MODULE MCAlgorithms ----------------------------
(***************************************************************************)
(* A problem with a loop through two states (a, b) that is left by the     *)
(* unlikely outcomes only, a way into it from all the others (c, i), so    *)
(* that four entries are visited one below the other and the last has no   *)
(* index left, a gamble (i), a dead end without actions (d), a trap that   *)
(* only leads to itself (t) and a goal with an enabled action.             *)
(***************************************************************************)
EXTENDS AlgorithmsOptimality

MCStates == {"i", "a", "b", "c", "d", "t", "g"}
O(s, w)  == [state |-> s, weight |-> w]
MCOutcomes == [p \in MCStates \X (1..3) |->
  CASE p = <<"i", 1>> -> <<O("a", 4)>>
    [] p = <<"i", 2>> -> <<O("g", 1), O("d", 3)>>
    [] p = <<"i", 3>> -> <<O("t", 4)>>
    [] p = <<"a", 1>> -> <<O("b", 2), O("g", 1), O("c", 1)>>
    [] p = <<"b", 1>> -> <<O("a", 2), O("b", 2)>>
    [] p = <<"b", 2>> -> <<O("c", 2), O("t", 1), O("b", 1)>>
    [] p = <<"c", 3>> -> <<O("g", 2), O("i", 2)>>
    [] p = <<"t", 3>> -> <<O("t", 4)>>
    [] p = <<"g", 3>> -> <<O("g", 4)>>
    [] OTHER          -> <<>>]

\* The least fixed point of the lookahead, from zero.
MCVStar == [s \in MCStates |-> CASE s = "i" -> 4 [] s = "a" -> 3 [] s = "b" -> 4 [] s = "c" -> 3
                                 [] s = "g" -> 0 [] OTHER -> DeadEndValue]

\* The admissible heuristics, as far as they are told apart.
MCAdmissible ==
  {[s \in MCStates |-> CASE s \in {"a", "c"} -> (h[1] * MCVStar[s]) \div 2
                         [] s \in {"i", "b", "t"} -> h[2] * MCVStar[s]
                         [] s = "d" -> h[3] * MCVStar[s] [] OTHER -> 0] : h \in (0..2) \X (0..1) \X (0..1)}
MCInitOrder == <<"i", "b">>
=============================================================================
