------------------------------ MODULE MCLrtdp -------------------------------
(***************************************************************************)
(* A problem with a probabilistic loop (a, b), a gamble (i), a dead end    *)
(* with no action (d), a trap that only leads to itself (t) and a goal in  *)
(* which an action is still enabled.                                       *)
(***************************************************************************)
EXTENDS LrtdpOptimality

MCStates == {"i", "a", "b", "d", "t", "g"}
O(s, w)  == [state |-> s, weight |-> w]
MCOutcomes == [p \in MCStates \X (1..3) |->
  CASE p = <<"i", 1>> -> <<O("a", 3)>>
    [] p = <<"i", 2>> -> <<O("g", 1), O("d", 2)>>
    [] p = <<"i", 3>> -> <<O("t", 3)>>
    [] p = <<"a", 1>> -> <<O("b", 2), O("a", 1)>>
    [] p = <<"b", 2>> -> <<O("g", 2), O("a", 1)>>
    [] p = <<"t", 3>> -> <<O("t", 3)>>
    [] p = <<"g", 3>> -> <<O("g", 3)>>
    [] OTHER          -> <<>>]

\* The least fixed point of the lookahead, as value iteration from zero finds it.
MCVStar == [s \in MCStates |-> CASE s = "i" -> 7 [] s = "a" -> 5 [] s = "b" -> 3
                                 [] s = "g" -> 0 [] OTHER -> DeadEndValue]
\* The admissible heuristics, as far as they are told apart: those that know the dead
\* end, and those that may miss it.
Below(d) == {[s \in MCStates |-> CASE s = "i" -> h[1] [] s = "a" -> h[2] [] s = "b" -> h[3]
                                   [] s = "t" -> h[4] [] s = "d" -> d
                                   [] OTHER -> 0] :
               h \in {0, 3, 7} \X {0, 2, 5} \X {0, 3} \X {0, 4, DeadEndValue}}
MCAdmissible == Below(0) \cup Below(2) \cup Below(DeadEndValue)
=============================================================================
