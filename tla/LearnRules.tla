----------------------------- MODULE LearnRules -----------------------------
(***************************************************************************)
(* From a decision tree to the rules of a PPDDL domain: tree_to_code and   *)
(* rule_to_code of utils.py, called by learn_rules.py.                     *)
(*                                                                         *)
(* The tree decides by the category of the lower object (features 1, 2),   *)
(* of the upper one (3, 4) and by their relation (5), all of them -1 or 1. *)
(* A tree is [feature, left, right] or, at a leaf, [counts], the number of *)
(* samples of each effect.  A node still to be visited is kept with the    *)
(* decisions that lead to it: -f went left at feature f, and f right.      *)
(***************************************************************************)
EXTENDS Integers, Sequences, SequencesExt, FiniteSetsExt

CONSTANTS
  Trees,     \* the decision trees that may have been learnt
  Effects    \* effect_names, a sequence of names

Whole == 1000   \* a probability of 1
Types == 0..3   \* objtype0, ..., objtype3

ASSUME RulesAssumption == {"stacked", "inserted"} \subseteq ToSet(Effects)

IsLeaf(node) == "counts" \in DOMAIN node

\* What the tree is asked about: the five features of two objects and their relation.
Features == [1..5 -> {-1, 1}]

\* The nodes such features lead to from a node, and where they end.
Child(node, x) == IF x[node.feature] = 1 THEN node.right ELSE node.left
Way(node, x) ==
  LET n[i \in 0..5] ==
        IF i = 0 THEN node ELSE IF IsLeaf(n[i - 1]) THEN n[i - 1] ELSE Child(n[i - 1], x)
  IN  n
Walk(node, x) == Way(node, x)[5]

\* A split separates samples: no feature, which has but two values, is tested twice on the
\* way to a leaf.
Grown(n) ==
  LET inner == {i \in 0..5 : ~IsLeaf(n[i])}
  IN  /\ 5 \notin inner
      /\ \A i \in inner : n[i].feature \in 1..5
      /\ \A i, j \in inner : n[i].feature = n[j].feature => i = j
ASSUME TreesAssumption == \A t \in Trees, x \in Features : Grown(Way(t, x))

AddUp(s) ==
  LET sum[i \in 0..Len(s)] == IF i = 0 THEN 0 ELSE sum[i - 1] + s[i]
  IN  sum[Len(s)]

\* A leaf has samples, counted by effect.  cluster.py makes six effects; with 45 or more
\* what the rounding adds could exceed the largest of the probabilities.
ASSUME CountsAssumption ==
  /\ Len(Effects) * Len(Effects) <= 2 * Whole
  /\ \A t \in Trees, x \in Features :
       LET counts == Walk(t, x).counts
       IN  counts \in Seq(Nat) /\ Len(counts) = Len(Effects) /\ AddUp(counts) > 0

VARIABLES
  tree,   \* the fitted DecisionTreeClassifier
  todo,   \* calls of recurse that have not returned
  code    \* pddl_code: the rules so far, in the order of their actions

ruleVars == <<tree, todo, code>>

\* decimal_to_binary: the two digits of a type, as -1 and 1.
Digits(type) == <<2 * (type \div 2) - 1, 2 * (type % 2) - 1>>

\* The decision on a feature, if there is one.
Decided(f, path) == \E i \in 1..Len(path) : path[i] \in {f, -f}
Sign(f, path)    == IF f \in ToSet(path) THEN 1 ELSE -1

\* Mutant: the upper object is told by the features of the lower one.
TypesOnBothSides(path, offset) ==
  {t \in Types : \A i \in 1..2 : Decided(i, path) => Digits(t)[i] = Sign(i, path)}

\* possible_obj_1 and possible_obj_2 of rule_to_code
TypesWith(path, offset) ==
  {t \in Types : \A i \in 1..2 : Decided(offset + i, path) => Digits(t)[i] = Sign(offset + i, path)}
Relations(path) == IF Decided(5, path) THEN {Sign(5, path)} ELSE {-1, 1}

\* round(), which takes a half to the even neighbour
Rounded(n, d) ==
  LET q == n \div d
  IN  CASE 2 * (n % d) < d -> q
        [] 2 * (n % d) > d -> q + 1
        [] OTHER           -> q + (q % 2)

\* Mutant: the probabilities are printed as they are rounded.
ThousandthsUncut(counts) ==
  [i \in 1..Len(counts) |-> Rounded(Whole * counts[i], AddUp(counts))]

\* The probabilities of a leaf in thousandths; what exceeds a whole is taken from the
\* first of the largest.
Thousandths(counts) ==
  LET probs    == [i \in 1..Len(counts) |-> Rounded(Whole * counts[i], AddUp(counts))]
      largest  == CHOOSE i \in DOMAIN probs : \A j \in DOMAIN probs :
                    probs[j] < probs[i] \/ (probs[j] = probs[i] /\ i <= j)
      residual == AddUp(probs) - Whole
  IN  IF residual > 0 THEN [probs EXCEPT ![largest] = @ - residual] ELSE probs

RulesInit ==
  /\ tree \in Trees
  /\ todo = <<[node |-> tree, path |-> <<>>]>>
  /\ code = <<>>

\* recurse at an inner node: first the left child, then the right one.
Recurse ==
  /\ todo # <<>>
  /\ LET top == Head(todo)
     IN  /\ ~IsLeaf(top.node)
         /\ todo' = <<[node |-> top.node.left, path |-> Append(top.path, -top.node.feature)],
                      [node |-> top.node.right, path |-> Append(top.path, top.node.feature)]>>
                    \o Tail(todo)
  /\ UNCHANGED <<tree, code>>

\* recurse at a leaf: its rule.
EmitRule ==
  /\ todo # <<>>
  /\ LET top == Head(todo)
     IN  /\ IsLeaf(top.node)
         /\ code' = Append(code, [below    |-> TypesWith(top.path, 0),
                                  above    |-> TypesWith(top.path, 2),
                                  relation |-> Relations(top.path),
                                  odds     |-> Thousandths(top.node.counts)])
  /\ todo' = Tail(todo)
  /\ UNCHANGED tree

RulesNext == Recurse \/ EmitRule

RulesSpec == RulesInit /\ [][RulesNext]_ruleVars

-----------------------------------------------------------------------------

\* The features of a pair of objects of two types in a relation.
Pair(below, above, r) ==
  [f \in 1..5 |-> CASE f <= 2 -> Digits(below)[f]  [] f \in 3..4 -> Digits(above)[f - 2]  [] f = 5 -> r]

Matching(below, above, r) ==
  {i \in 1..Len(code) : /\ below \in code[i].below
                        /\ above \in code[i].above
                        /\ r \in code[i].relation}

\* The finished domain says of every pair of objects and every relation what the tree
\* says, once: exactly one stack action applies, with the odds of the pair's leaf
\* (tree_to_code, rule_to_code).
RulesFollowTree ==
  todo = <<>> =>
    \A below, above \in Types, r \in {-1, 1} :
      \E i \in 1..Len(code) :
        /\ Matching(below, above, r) = {i}
        /\ code[i].odds = Thousandths(Walk(tree, Pair(below, above, r)).counts)

\* The probabilities printed for an action are none of them negative, and together no
\* more than 1, which both parsers insist on; rounding each by itself does not ensure it.
OddsAddUp ==
  \A i \in 1..Len(code) : /\ \A k \in DOMAIN code[i].odds : code[i].odds[k] >= 0
                          /\ AddUp(code[i].odds) <= Whole
=============================================================================
