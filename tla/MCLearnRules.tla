---------------------------- MODULE MCLearnRules ----------------------------
(***************************************************************************)
(* All decision trees of depth two, and trees that test four features on a *)
(* path, whose leaves round to more than a whole and to halves.            *)
(***************************************************************************)
EXTENDS LearnRules

MCEffects == <<"inserted", "stacked", "roll1", "tumble1", "roll2", "tumble2">>

Leaves == {[counts |-> <<1, 1, 1, 1, 1, 1>>], [counts |-> <<0, 15, 0, 0, 1, 0>>],
           [counts |-> <<2, 2, 1, 0, 1, 0>>]}

\* The trees that test feature f and go on with trees of sub.
Splits(f, sub) == {[feature |-> f, left |-> l, right |-> r] : l \in sub, r \in sub}

Below(f) == Leaves \cup UNION {Splits(g, Leaves) : g \in (1..5) \ {f}}
Deep     == UNION {Splits(p[1], {[feature |-> p[2], left |-> l, right |-> r] :
                                   l \in Splits(p[3], Splits(p[4], {[counts |-> <<2, 2, 1, 0, 1, 0>>]})),
                                   r \in Leaves}) : p \in {<<1, 3, 2, 4>>, <<5, 4, 1, 3>>, <<2, 5, 3, 1>>}}

MCTrees == UNION {Splits(f, Below(f)) : f \in 1..5} \cup Deep
=============================================================================
