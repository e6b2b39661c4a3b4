----------------------------- MODULE MCStacking -----------------------------
(***************************************************************************)
(* Three objects and two rounds; trees of every depth up to three, of      *)
(* three effects, with counts that round to more, less and just a whole.   *)
(***************************************************************************)
EXTENDS Stacking

MCEffects == <<"inserted", "stacked", "tumble">>
MCObjects == {"O1", "O2", "O3"}
MCSize == [o \in MCObjects |-> CASE o = "O1" -> 1 [] o = "O2" -> 2 [] o = "O3" -> 4]

Leaf(i, s, t)        == [counts |-> <<i, s, t>>]
Split(f, left, right) == [feature |-> f, left |-> left, right |-> right]

MCTrees == {Leaf(1, 1, 1), Split(1, Split(3, Leaf(0, 1, 0), Leaf(5, 1, 0)), Leaf(1, 0, 2))}

MCScenes ==
  {[type |-> [o \in MCObjects |-> CASE o = "O1" -> 1 [] o = "O2" -> 2 [] o = "O3" -> 0],
    relation |-> [p \in {q \in MCObjects \X MCObjects : q[1] # q[2]} |->
                    IF p \in {<<"O1", "O2">>, <<"O3", "O2">>, <<"O2", "O3">>} THEN 1 ELSE -1]]}

MCGoals == {<<1, 2>>, <<2, 3>>}
=============================================================================
