-------------------------- MODULE Stacking_proof ---------------------------
(***************************************************************************)
(* What the counters of the stacking domain say is true of the stack, for  *)
(* every set of objects, every learnt tree, scene and goal, and every      *)
(* number of rounds and levels.                                            *)
(***************************************************************************)
EXTENDS Stacking, FiniteSetTheorems, Recursion_proof

-----------------------------------------------------------------------------
(* The rules written for a decision tree decide as the tree does, for      *)
(* every tree, every pair of objects and every list of effects.            *)

Decisions == -5..5

\* The features that go the way of a path.
Fits(x, path) ==
  \A i \in 1..Len(path), f \in 1..5 : /\ path[i] = f  => x[f] = 1
                                      /\ path[i] = -f => x[f] = -1

\* No feature is decided twice.
OnceEach(path) ==
  \A i, j \in 1..Len(path), f \in 1..5 : path[i] \in {f, -f} /\ path[j] \in {f, -f} => i = j

\* A call is for the node its path leads to.
Leads(c) ==
  /\ Len(c.path) \in 0..5
  /\ OnceEach(c.path)
  /\ \A x \in Features : Fits(x, c.path) =>
       /\ Way(tree, x)[Len(c.path)] = c.node
       /\ \A i \in 1..Len(c.path) :
            /\ ~IsLeaf(Way(tree, x)[i - 1])
            /\ c.path[i] \in {Way(tree, x)[i - 1].feature, -Way(tree, x)[i - 1].feature}

Nodes == {Way(t, x)[i] : t \in Trees, x \in Features, i \in 0..5}
Calls == [node : Nodes, path : Seq(Decisions)]
Rules == [below : SUBSET Types, above : SUBSET Types, relation : SUBSET {-1, 1},
          odds : {Thousandths(n.counts) : n \in Nodes}]

Pending(x) == {i \in 1..Len(todo) : Fits(x, todo[i].path)}

Matches(c, below, above, r) == below \in c.below /\ above \in c.above /\ r \in c.relation

\* Every pair is in one place: it follows the path of one call, or matches one rule, and
\* such a rule has the odds of the pair's leaf.
PairPlaced(below, above, r) ==
  \/ (\E i \in 1..Len(todo) : Pending(Pair(below, above, r)) = {i})
       /\ Matching(below, above, r) = {}
  \/ Pending(Pair(below, above, r)) = {} /\ \E i \in 1..Len(code) : Matching(below, above, r) = {i}
Right(c, below, above, r) ==
  Matches(c, below, above, r) => c.odds = Thousandths(Walk(tree, Pair(below, above, r)).counts)

RulesInv ==
  /\ tree \in Trees
  /\ todo \in Seq(Calls) /\ \A i \in 1..Len(todo) : Leads(todo[i])
  /\ code \in Seq(Rules)
  /\ \A below, above \in Types, r \in {-1, 1} :
       /\ PairPlaced(below, above, r)
       /\ \A i \in 1..Len(code) : Right(code[i], below, above, r)

-----------------------------------------------------------------------------
(* Ways, and the features that follow a path *)

LEMMA WayIs ==
  ASSUME NEW node, NEW x
  PROVE  /\ Way(node, x)[0] = node
         /\ \A i \in 1..5 : Way(node, x)[i] = IF IsLeaf(Way(node, x)[i - 1]) THEN Way(node, x)[i - 1]
                                              ELSE Child(Way(node, x)[i - 1], x)
<1> DEFINE next(n) == IF IsLeaf(n) THEN n ELSE Child(n, x)
           IsWay(f) == f = [i \in 0..5 |-> IF i = 0 THEN node ELSE next(f[i - 1])]
<1>1. \E f : IsWay(f)
  <2> DEFINE n1 == next(node)
             n2 == next(n1)
             n3 == next(n2)
             n4 == next(n3)
             n5 == next(n4)
             f  == [i \in 0..5 |-> IF i = 0 THEN node ELSE IF i = 1 THEN n1 ELSE IF i = 2 THEN n2
                                   ELSE IF i = 3 THEN n3 ELSE IF i = 4 THEN n4 ELSE n5]
  <2>1. f[0] = node /\ f[1] = n1 /\ f[2] = n2 /\ f[3] = n3 /\ f[4] = n4 /\ f[5] = n5
    <3> HIDE DEF n1, n2, n3, n4, n5, next
    <3> QED OBVIOUS
  <2>2. ASSUME NEW i \in 0..5 PROVE f[i] = IF i = 0 THEN node ELSE next(f[i - 1])
    <3> HIDE DEF next, f
    <3>1. i = 0 \/ i = 1 \/ i = 2 \/ i = 3 \/ i = 4 \/ i = 5
      OBVIOUS
    <3> QED BY <2>1, <3>1
  <2>3. f = [i \in 0..5 |-> f[i]]
    OBVIOUS
  <2> HIDE DEF f, next
  <2>4. IsWay(f)
    BY <2>2, <2>3
  <2> QED BY <2>4
<1>2. Way(node, x) = CHOOSE f : IsWay(f)
  BY DEF Way
<1>3. IsWay(Way(node, x))
  <2> HIDE DEF IsWay
  <2> QED BY <1>1, <1>2
<1> HIDE DEF next
<1>4. ASSUME NEW i \in 0..5 PROVE Way(node, x)[i] = IF i = 0 THEN node ELSE next(Way(node, x)[i - 1])
  BY <1>3
<1> QED BY <1>4 DEF next

LEMMA LeafLast ==
  ASSUME NEW node, NEW x, NEW i \in 0..5, IsLeaf(Way(node, x)[i])
  PROVE  Walk(node, x) = Way(node, x)[i]
<1> DEFINE w == Way(node, x)
<1>1. \A k \in 1..5 : IsLeaf(w[k - 1]) => w[k] = w[k - 1]
  BY WayIs
<1>2. i = 0 \/ i = 1 \/ i = 2 \/ i = 3 \/ i = 4 \/ i = 5
  OBVIOUS
<1>3. w[5] = w[i]
  <2> HIDE DEF w
  <2>1. (IsLeaf(w[0]) => w[1] = w[0]) /\ (IsLeaf(w[1]) => w[2] = w[1]) /\ (IsLeaf(w[2]) => w[3] = w[2])
          /\ (IsLeaf(w[3]) => w[4] = w[3]) /\ (IsLeaf(w[4]) => w[5] = w[4])
    BY <1>1
  <2>2. IsLeaf(w[i])
    BY DEF w
  <2> QED BY <1>2, <2>1, <2>2
<1> QED BY <1>3 DEF Walk

LEMMA FollowsIs ==
  ASSUME NEW path \in Seq(Decisions), OnceEach(path), NEW x
  PROVE  Fits(x, path) <=> \A f \in 1..5 : Decided(f, path) => x[f] = Sign(f, path)
<1>1. ASSUME NEW f \in 1..5, NEW i \in 1..Len(path)
      PROVE  /\ path[i] = f  => Decided(f, path) /\ Sign(f, path) = 1
             /\ path[i] = -f => Decided(f, path) /\ Sign(f, path) = -1
  <2>1. ASSUME path[i] = f PROVE f \in ToSet(path)
    BY <2>1 DEF ToSet
  <2>2. ASSUME path[i] = -f PROVE f \notin ToSet(path)
    <3>1. SUFFICES ASSUME NEW j \in 1..Len(path), path[j] = f PROVE FALSE
      BY DEF ToSet
    <3>2. i = j
      BY <2>2, <3>1 DEF OnceEach
    <3> QED BY <2>2, <3>1, <3>2
  <2> QED BY <2>1, <2>2 DEF Decided, Sign
<1>2. \A f \in 1..5 : Decided(f, path) => \E i \in 1..Len(path) : path[i] = f \/ path[i] = -f
  BY DEF Decided
<1> QED BY <1>1, <1>2 DEF Fits

LEMMA SomeFollow ==
  ASSUME NEW path \in Seq(Decisions), OnceEach(path)
  PROVE  \E x \in Features : Fits(x, path)
<1>1. [f \in 1..5 |-> Sign(f, path)] \in Features
  BY DEF Features, Sign
<1> QED BY <1>1, FollowsIs

LEMMA PairIs ==
  ASSUME NEW below \in Types, NEW above \in Types, NEW r \in {-1, 1}
  PROVE  LET x == Pair(below, above, r)
         IN  /\ x \in Features
             /\ x[1] = Digits(below)[1] /\ x[2] = Digits(below)[2]
             /\ x[3] = Digits(above)[1] /\ x[4] = Digits(above)[2]
             /\ x[5] = r
<1>1. ASSUME NEW t \in Types PROVE \E d, e \in {-1, 1} : Digits(t) = <<d, e>>
  <2>1. t \div 2 \in {0, 1} /\ t % 2 \in {0, 1}
    BY DEF Types
  <2>2. 2 * (t \div 2) - 1 \in {-1, 1} /\ 2 * (t % 2) - 1 \in {-1, 1}
    BY <2>1
  <2> QED BY <2>2 DEF Digits
<1>2. PICK d, e \in {-1, 1} : Digits(below) = <<d, e>>
  BY <1>1
<1>3. PICK u, v \in {-1, 1} : Digits(above) = <<u, v>>
  BY <1>1
<1> DEFINE x == Pair(below, above, r)
<1>4. x[1] = d /\ x[2] = e /\ x[3] = u /\ x[4] = v /\ x[5] = r
  BY <1>2, <1>3 DEF Pair
<1>5. x \in Features
  <2>1. ASSUME NEW f \in 1..5 PROVE x[f] \in {-1, 1}
    <3>1. f = 1 \/ f = 2 \/ f = 3 \/ f = 4 \/ f = 5
      OBVIOUS
    <3> HIDE DEF x
    <3> QED BY <1>4, <3>1
  <2>2. x = [f \in 1..5 |-> x[f]]
    BY DEF Pair
  <2> HIDE DEF x
  <2> QED BY <2>1, <2>2 DEF Features
<1> QED BY <1>2, <1>3, <1>4, <1>5

\* A rule is for the pairs that follow the path of its leaf.
LEMMA RuleMatches ==
  ASSUME NEW path \in Seq(Decisions), OnceEach(path), NEW c,
         c.below = TypesWith(path, 0), c.above = TypesWith(path, 2), c.relation = Relations(path),
         NEW below \in Types, NEW above \in Types, NEW r \in {-1, 1}
  PROVE  Matches(c, below, above, r) <=> Fits(Pair(below, above, r), path)
<1> DEFINE x == Pair(below, above, r)
           Agrees(f) == Decided(f, path) => x[f] = Sign(f, path)
<1>1. below \in TypesWith(path, 0) <=> Agrees(1) /\ Agrees(2)
  <2>1. (\A i \in 1..2 : Decided(0 + i, path) => Digits(below)[i] = Sign(0 + i, path))
          <=> Agrees(1) /\ Agrees(2)
    <3>1. \A i \in 1..2 : i = 1 \/ i = 2
      OBVIOUS
    <3>2. x[1] = Digits(below)[1] /\ x[2] = Digits(below)[2] /\ 0 + 1 = 1 /\ 0 + 2 = 2
      BY PairIs
    <3> QED BY <3>1, <3>2
  <2> QED BY <2>1 DEF TypesWith
<1>2. above \in TypesWith(path, 2) <=> Agrees(3) /\ Agrees(4)
  <2>1. (\A i \in 1..2 : Decided(2 + i, path) => Digits(above)[i] = Sign(2 + i, path))
          <=> Agrees(3) /\ Agrees(4)
    <3>1. \A i \in 1..2 : i = 1 \/ i = 2
      OBVIOUS
    <3>2. x[3] = Digits(above)[1] /\ x[4] = Digits(above)[2] /\ 2 + 1 = 3 /\ 2 + 2 = 4
      BY PairIs
    <3> QED BY <3>1, <3>2
  <2> QED BY <2>1 DEF TypesWith
<1>3. r \in Relations(path) <=> Agrees(5)
  BY PairIs DEF Relations
<1>4. (\A f \in 1..5 : Agrees(f)) <=> Agrees(1) /\ Agrees(2) /\ Agrees(3) /\ Agrees(4) /\ Agrees(5)
  <2>1. \A f \in 1..5 : f = 1 \/ f = 2 \/ f = 3 \/ f = 4 \/ f = 5
    OBVIOUS
  <2> QED BY <2>1
<1>5. Fits(x, path) <=> \A f \in 1..5 : Agrees(f)
  BY FollowsIs
<1> QED BY <1>1, <1>2, <1>3, <1>4, <1>5 DEF Matches

-----------------------------------------------------------------------------
(* One branch of an inner node *)

Branch(c, v) == [node |-> IF v = 1 THEN c.node.right ELSE c.node.left,
                 path |-> Append(c.path, v * c.node.feature)]

LEMMA BranchLeads ==
  ASSUME tree \in Trees, NEW c \in Calls, Leads(c), ~IsLeaf(c.node), NEW v \in {-1, 1}
  PROVE  /\ c.node.feature \in 1..5
         /\ Branch(c, v) \in Calls /\ Leads(Branch(c, v))
         /\ \A x \in Features :
              Fits(x, Branch(c, v).path) <=> Fits(x, c.path) /\ x[c.node.feature] = v
<1> DEFINE L == Len(c.path)
           g == c.node.feature
           q == Append(c.path, v * g)
<1>1. c.path \in Seq(Decisions) /\ L \in 0..5 /\ OnceEach(c.path)
  BY DEF Calls, Leads
<1>2. PICK y \in Features : Fits(y, c.path)
  BY <1>1, SomeFollow
<1>3. Way(tree, y)[L] = c.node
  BY <1>2 DEF Leads
<1>4. /\ IsLeaf(Way(tree, y)[5])
      /\ \A i \in 0..5 : ~IsLeaf(Way(tree, y)[i]) => Way(tree, y)[i].feature \in 1..5
      /\ \A i, j \in 0..5 : /\ ~IsLeaf(Way(tree, y)[i]) /\ ~IsLeaf(Way(tree, y)[j])
                           /\ Way(tree, y)[i].feature = Way(tree, y)[j].feature
                           => i = j
  <2>1. Grown(Way(tree, y))
    BY TreesAssumption
  <2>2. 5 \in 0..5
    OBVIOUS
  <2> QED BY <2>1, <2>2 DEF Grown
<1>5. g \in 1..5 /\ L \in 0..4
  <2>1. g \in 1..5
    BY <1>1, <1>3, <1>4
  <2>2. L # 5
    BY <1>3, <1>4
  <2> QED BY <1>1, <2>1, <2>2
<1>6. ASSUME NEW i \in 1..L PROVE c.path[i] \notin {g, -g}
  <2> DEFINE h == Way(tree, y)[i - 1].feature
  <2>1. ~IsLeaf(Way(tree, y)[i - 1]) /\ c.path[i] \in {h, -h}
    BY <1>2 DEF Leads
  <2>2. PICK k \in 0..5 : k = i - 1 /\ k # L
    <3> HIDE DEF L
    <3>1. i - 1 \in 0..5 /\ i - 1 # L
      BY <1>5
    <3> QED BY <3>1
  <2>3. h \in 1..5 /\ h # g
    <3>1. h = Way(tree, y)[k].feature /\ ~IsLeaf(Way(tree, y)[k])
      BY <2>1, <2>2
    <3>2. L \in 0..5
      BY <1>1
    <3> QED BY <1>3, <1>4, <2>2, <3>1, <3>2
  <2>4. c.path[i] \in {h, -h}
    BY <2>1
  <2> HIDE DEF h, g
  <2> QED BY <1>5, <2>3, <2>4
<1>7. /\ q \in Seq(Decisions) /\ Len(q) = L + 1 /\ q[L + 1] = v * g
      /\ \A i \in 1..L : q[i] = c.path[i]
  <2>1. v * g \in Decisions
    BY <1>5 DEF Decisions
  <2> QED BY <1>1, <2>1
<1>8. v * g \in {g, -g} /\ (v = 1 => v * g = g) /\ (v = -1 => v * g = -g)
  BY <1>5
<1>9. OnceEach(q)
  <2>1. SUFFICES ASSUME NEW i \in 1..Len(q), NEW j \in 1..Len(q), NEW f \in 1..5,
                        q[i] \in {f, -f}, q[j] \in {f, -f}
                 PROVE  i = j
    BY DEF OnceEach
  <2>2. CASE i \in 1..L /\ j \in 1..L
    BY <1>1, <1>7, <2>1, <2>2 DEF OnceEach
  <2>3. CASE i \in 1..L /\ j = L + 1
    <3>1. v * g \in {f, -f}
      BY <1>7, <2>1, <2>3
    <3>2. f = g
      BY <1>5, <1>8, <3>1
    <3> QED BY <1>6, <1>7, <2>1, <2>3, <3>2
  <2>4. CASE j \in 1..L /\ i = L + 1
    <3>1. v * g \in {f, -f}
      BY <1>7, <2>1, <2>4
    <3>2. f = g
      BY <1>5, <1>8, <3>1
    <3> QED BY <1>6, <1>7, <2>1, <2>4, <3>2
  <2> QED BY <1>1, <1>7, <2>2, <2>3, <2>4
<1>10. ASSUME NEW x \in Features PROVE Fits(x, q) <=> Fits(x, c.path) /\ x[g] = v
  <2>1. x[g] \in {-1, 1}
    BY <1>5 DEF Features
  <2>2. (\A f \in 1..5 : (v * g = f => x[f] = 1) /\ (v * g = -f => x[f] = -1)) <=> x[g] = v
    <3>1. CASE v = 1
      BY <1>5, <1>8, <2>1, <3>1
    <3>2. CASE v = -1
      BY <1>5, <1>8, <2>1, <3>2
    <3> QED BY <3>1, <3>2
  <2>3. 1..Len(q) = (1..L) \cup {L + 1}
    BY <1>1, <1>7
  <2>4. Fits(x, q) <=> Fits(x, c.path)
                            /\ \A f \in 1..5 : (v * g = f => x[f] = 1) /\ (v * g = -f => x[f] = -1)
    <3> HIDE DEF q, g
    <3> QED BY <1>7, <2>3 DEF Fits
  <2> QED BY <2>2, <2>4
<1>11. ASSUME NEW x \in Features, Fits(x, q)
       PROVE  /\ Way(tree, x)[L + 1] = Branch(c, v).node
              /\ \A i \in 1..(L + 1) : /\ ~IsLeaf(Way(tree, x)[i - 1])
                                       /\ q[i] \in {Way(tree, x)[i - 1].feature, -Way(tree, x)[i - 1].feature}
  <2>1. Fits(x, c.path) /\ x[g] = v
    BY <1>10, <1>11
  <2>2. Way(tree, x)[L] = c.node
    BY <2>1 DEF Leads
  <2>3. L + 1 \in 1..5 /\ (L + 1) - 1 = L
    <3> HIDE DEF L
    <3> QED BY <1>5
  <2>4. Way(tree, x)[L + 1] = Child(c.node, x)
    BY <2>2, <2>3, WayIs
  <2>5. Child(c.node, x) = Branch(c, v).node
    BY <2>1 DEF Child, Branch
  <2>6. ASSUME NEW i \in 1..(L + 1)
        PROVE  /\ ~IsLeaf(Way(tree, x)[i - 1])
               /\ q[i] \in {Way(tree, x)[i - 1].feature, -Way(tree, x)[i - 1].feature}
    <3>1. CASE i = L + 1
      BY <1>7, <1>8, <2>2, <2>3, <3>1
    <3>2. CASE i \in 1..L
      BY <1>7, <2>1, <3>2 DEF Leads
    <3> QED BY <1>1, <3>1, <3>2
  <2> QED BY <2>4, <2>5, <2>6
<1>12. Branch(c, v).path = q
  BY DEF Branch
<1>13. Branch(c, v).node \in Nodes
  <2>1. PICK x \in Features : Fits(x, q)
    BY <1>7, <1>9, SomeFollow
  <2>2. Way(tree, x)[L + 1] = Branch(c, v).node /\ L + 1 \in 0..5
    BY <1>5, <1>11, <2>1
  <2> QED BY <2>2 DEF Nodes
<1>14. Branch(c, v) \in Calls
  BY <1>7, <1>12, <1>13 DEF Branch, Calls
<1>15. Leads(Branch(c, v))
  <2>1. PICK d : d = Branch(c, v)
    OBVIOUS
  <2>2. Len(d.path) = L + 1 /\ Len(d.path) \in 0..5
    <3>1. Len(d.path) = L + 1
      BY <1>7, <1>12, <2>1
    <3> HIDE DEF L, q
    <3> QED BY <1>5, <3>1
  <2>3. OnceEach(d.path)
    BY <1>9, <1>12, <2>1
  <2>4. ASSUME NEW x \in Features, Fits(x, d.path)
        PROVE  /\ Way(tree, x)[Len(d.path)] = d.node
               /\ \A i \in 1..Len(d.path) :
                    /\ ~IsLeaf(Way(tree, x)[i - 1])
                    /\ d.path[i] \in {Way(tree, x)[i - 1].feature, -Way(tree, x)[i - 1].feature}
    <3>1. d.path = q
      BY <1>12, <2>1
    <3> HIDE DEF q
    <3>2. Fits(x, q)
      BY <2>4, <3>1
    <3> QED BY <1>11, <2>1, <2>2, <3>1, <3>2
  <2>5. Leads(d)
    BY <2>2, <2>3, <2>4 DEF Leads
  <2> QED BY <2>1, <2>5
<1> HIDE DEF q
<1> QED BY <1>5, <1>10, <1>12, <1>14, <1>15

-----------------------------------------------------------------------------

LEMMA InitRules == ASSUME RulesInit PROVE RulesInv
<1> DEFINE c == [node |-> tree, path |-> <<>>]
<1>1. tree \in Trees /\ todo = <<c>> /\ code = <<>>
  BY DEF RulesInit
<1>2. c.path = <<>> /\ c.node = tree /\ <<>> \in Seq(Decisions) /\ Len(<<>>) = 0 /\ 1..0 = {}
  OBVIOUS
<1>3. PICK x : x \in Features
  <2>1. [f \in 1..5 |-> 1] \in Features
    BY DEF Features
  <2> QED BY <2>1
<1>4. tree \in Nodes
  <2>1. Way(tree, x)[0] = tree /\ 0 \in 0..5
    BY WayIs
  <2>2. tree = Way(tree, x)[0]
    BY <2>1
  <2> QED BY <1>1, <1>3, <2>1, <2>2 DEF Nodes
<1>5. c \in Calls /\ Leads(c)
  <2>1. c \in Calls
    BY <1>2, <1>4 DEF Calls
  <2>2. \A y : Way(tree, y)[0] = tree
    BY WayIs
  <2> HIDE DEF c
  <2> QED BY <1>2, <2>1, <2>2 DEF Leads, OnceEach
<1>6. \A y : Fits(y, c.path)
  <2> HIDE DEF c
  <2> QED BY <1>2 DEF Fits
<1> HIDE DEF c
<1>7. todo \in Seq(Calls) /\ Len(todo) = 1 /\ todo[1] = c /\ 1..1 = {1}
  BY <1>1, <1>5
<1>8. code \in Seq(Rules) /\ Len(code) = 0
  BY <1>1
<1>9. ASSUME NEW below \in Types, NEW above \in Types, NEW r \in {-1, 1}
      PROVE  PairPlaced(below, above, r)
  <2>1. Pending(Pair(below, above, r)) = {1}
    BY <1>6, <1>7 DEF Pending
  <2>2. Matching(below, above, r) = {}
    BY <1>2, <1>8 DEF Matching
  <2> QED BY <1>7, <2>1, <2>2 DEF PairPlaced
<1> QED BY <1>1, <1>2, <1>5, <1>7, <1>8, <1>9 DEF RulesInv

LEMMA TwoAhead ==
  ASSUME NEW S, NEW s \in Seq(S), s # <<>>, NEW a \in S, NEW b \in S,
         NEW q, q = <<a, b>> \o Tail(s)
  PROVE  /\ q \in Seq(S) /\ Len(q) = Len(s) + 1 /\ q[1] = a /\ q[2] = b
         /\ \A i \in 3..Len(q) : q[i] = s[i - 1]
<1>1. Tail(s) \in Seq(S) /\ Len(Tail(s)) = Len(s) - 1 /\ Len(s) \in Nat \ {0}
  OBVIOUS
<1>2. \A i \in 1..Len(Tail(s)) : Tail(s)[i] = s[i + 1]
  OBVIOUS
<1>3. <<a, b>> \in Seq(S) /\ Len(<<a, b>>) = 2
  OBVIOUS
<1>4. PICK p, t : p = <<a, b>> /\ t = Tail(s)
  OBVIOUS
<1>5. q = p \o t /\ p \in Seq(S) /\ t \in Seq(S) /\ Len(p) = 2 /\ Len(t) = Len(s) - 1
  BY <1>1, <1>3, <1>4
<1>6. p[1] = a /\ p[2] = b
  BY <1>4
<1>7. q \in Seq(S) /\ Len(q) = Len(p) + Len(t)
  BY <1>5
<1>8. /\ \A i \in 1..Len(p) : q[i] = p[i]
      /\ \A i \in (Len(p) + 1)..(Len(p) + Len(t)) : q[i] = t[i - Len(p)]
  <2>1. Len(p) \in Nat /\ Len(t) \in Nat
    BY <1>5
  <2>2. \A i \in 1..(Len(p) + Len(t)) : (p \o t)[i] = IF i <= Len(p) THEN p[i] ELSE t[i - Len(p)]
    BY <1>5, <2>1
  <2>3. ASSUME NEW i \in 1..Len(p) PROVE q[i] = p[i]
    BY <1>5, <2>1, <2>2
  <2>4. ASSUME NEW i \in (Len(p) + 1)..(Len(p) + Len(t)) PROVE q[i] = t[i - Len(p)]
    BY <1>5, <2>1, <2>2
  <2> QED BY <2>3, <2>4
<1>9. ASSUME NEW i \in 3..Len(q) PROVE q[i] = s[i - 1]
  <2>1. i - 2 \in 1..Len(Tail(s)) /\ (i - 2) + 1 = i - 1
    BY <1>1, <1>5, <1>7
  <2>2. i \in (Len(p) + 1)..(Len(p) + Len(t)) /\ i - Len(p) = i - 2
    BY <1>1, <1>5, <1>7
  <2>3. q[i] = t[i - 2]
    BY <1>8, <2>2
  <2> QED BY <1>2, <1>4, <2>1, <2>3
<1> QED BY <1>1, <1>5, <1>6, <1>7, <1>8, <1>9

\* An inner node hands every pair that is pending to one of its children.
LEMMA RecurseKept == ASSUME RulesInv, Recurse PROVE RulesInv'
<1>1. PICK c : c = Head(todo)
  OBVIOUS
<1>2. /\ todo # <<>> /\ ~IsLeaf(c.node) /\ tree' = tree /\ code' = code
      /\ todo' = <<[node |-> c.node.left, path |-> Append(c.path, -c.node.feature)],
                   [node |-> c.node.right, path |-> Append(c.path, c.node.feature)]>> \o Tail(todo)
  BY <1>1 DEF Recurse
<1>3. /\ tree \in Trees /\ todo \in Seq(Calls) /\ code \in Seq(Rules)
      /\ \A i \in 1..Len(todo) : Leads(todo[i])
  BY DEF RulesInv
<1>4. c \in Calls /\ c = todo[1] /\ 1 \in 1..Len(todo) /\ Leads(c) /\ Len(todo) \in Nat
  BY <1>1, <1>2, <1>3
<1>5. PICK l, u : l = Branch(c, -1) /\ u = Branch(c, 1)
  OBVIOUS
<1>6. /\ l \in Calls /\ Leads(l) /\ u \in Calls /\ Leads(u) /\ c.node.feature \in 1..5
      /\ \A x \in Features : /\ Fits(x, l.path) <=> Fits(x, c.path) /\ x[c.node.feature] = -1
                             /\ Fits(x, u.path) <=> Fits(x, c.path) /\ x[c.node.feature] = 1
  <2>1. -1 \in {-1, 1} /\ 1 \in {-1, 1}
    OBVIOUS
  <2> QED BY <1>2, <1>3, <1>4, <1>5, <2>1, BranchLeads
<1>7. todo' = <<l, u>> \o Tail(todo)
  <2>1. (-1) * c.node.feature = -c.node.feature /\ 1 * c.node.feature = c.node.feature
    BY <1>6
  <2>2. l = [node |-> c.node.left, path |-> Append(c.path, -c.node.feature)]
    <3>1. l = Branch(c, -1) /\ -1 # 1
      BY <1>5
    <3> QED BY <2>1, <3>1 DEF Branch
  <2>3. u = [node |-> c.node.right, path |-> Append(c.path, c.node.feature)]
    BY <1>5, <2>1 DEF Branch
  <2> QED BY <1>2, <2>2, <2>3
<1>8. /\ todo' \in Seq(Calls) /\ Len(todo') = Len(todo) + 1
      /\ todo'[1] = l /\ todo'[2] = u
      /\ \A i \in 3..Len(todo') : todo'[i] = todo[i - 1]
  <2>1. todo \in Seq(Calls) /\ todo # <<>> /\ l \in Calls /\ u \in Calls
    BY <1>2, <1>3, <1>6
  <2>2. PICK q : q = todo'
    OBVIOUS
  <2>3. q = <<l, u>> \o Tail(todo)
    BY <1>7, <2>2
  <2> QED BY <2>1, <2>2, <2>3, TwoAhead
<1>9. ASSUME NEW i \in 1..Len(todo') PROVE i = 1 \/ i = 2 \/ (i \in 3..Len(todo') /\ i - 1 \in 2..Len(todo))
  BY <1>4, <1>8
<1>10. ASSUME NEW i \in 1..Len(todo') PROVE Leads(todo[i])'
  <2>1. \A d : Leads(d) => Leads(d)'
    BY <1>2 DEF Leads
  <2>2. Leads(todo'[i])
    <3>1. CASE i = 1 \/ i = 2
      BY <1>6, <1>8, <3>1
    <3>2. CASE i \in 3..Len(todo') /\ i - 1 \in 2..Len(todo)
      <4>1. todo'[i] = todo[i - 1] /\ i - 1 \in 1..Len(todo)
        BY <1>4, <1>8, <3>2
      <4> QED BY <1>3, <4>1
    <3> QED BY <1>9, <3>1, <3>2
  <2>3. PICK d : d = todo'[i]
    OBVIOUS
  <2>4. Leads(d)'
    BY <2>1, <2>2, <2>3
  <2> QED BY <2>3, <2>4 DEF Leads
<1>11. ASSUME NEW x \in Features
       PROVE  /\ Fits(x, todo[1].path) <=> Fits(x, todo'[1].path) \/ Fits(x, todo'[2].path)
              /\ ~(Fits(x, todo'[1].path) /\ Fits(x, todo'[2].path))
  <2>1. x[c.node.feature] \in {-1, 1}
    BY <1>6 DEF Features
  <2> QED BY <1>4, <1>6, <1>8, <2>1
<1>12. ASSUME NEW below \in Types, NEW above \in Types, NEW r \in {-1, 1}
       PROVE  PairPlaced(below, above, r)'
  <2>1. PICK x \in Features : x = Pair(below, above, r)
    BY PairIs
  <2>2. ASSUME NEW i \in 2..Len(todo)
        PROVE  i + 1 \in 3..Len(todo') /\ (Fits(x, todo'[i + 1].path) <=> Fits(x, todo[i].path))
    <3>1. i + 1 \in 3..Len(todo') /\ (i + 1) - 1 = i
      BY <1>4, <1>8
    <3>2. todo'[i + 1] = todo[i]
      BY <1>8, <3>1
    <3> QED BY <3>1, <3>2
  <2>3. ASSUME NEW j \in 3..Len(todo')
        PROVE  j - 1 \in 2..Len(todo) /\ (Fits(x, todo'[j].path) <=> Fits(x, todo[j - 1].path))
    BY <1>4, <1>8
  <2>4. Matching(below, above, r)' = Matching(below, above, r) /\ code' = code
    BY <1>2 DEF Matching
  <2>5. PairPlaced(below, above, r)
    BY DEF RulesInv
  <2>6. 1 \in 1..Len(todo') /\ 2 \in 1..Len(todo')
    BY <1>4, <1>8
  <2>7. ASSUME Pending(x) = {} PROVE Pending(x)' = {}
    <3>1. SUFFICES ASSUME NEW j \in 1..Len(todo'), Fits(x, todo'[j].path) PROVE FALSE
      BY DEF Pending
    <3>2. \A i \in 1..Len(todo) : ~Fits(x, todo[i].path)
      BY <2>7 DEF Pending
    <3>3. j \in {1, 2} => Fits(x, todo[1].path)
      BY <1>11, <3>1
    <3>4. j \in 3..Len(todo')
      BY <1>4, <1>9, <3>2, <3>3
    <3>5. j - 1 \in 1..Len(todo) /\ Fits(x, todo[j - 1].path)
      BY <2>3, <3>1, <3>4
    <3> QED BY <3>2, <3>5
  <2>8. ASSUME NEW i \in 1..Len(todo), Pending(x) = {i}
        PROVE  \E k \in 1..Len(todo') : Pending(x)' = {k}
    <3>1. Fits(x, todo[i].path) /\ \A j \in 1..Len(todo) : j # i => ~Fits(x, todo[j].path)
      BY <2>8 DEF Pending
    <3>2. CASE i = 1
      <4>1. ASSUME NEW j \in 3..Len(todo') PROVE ~Fits(x, todo'[j].path)
        <5>1. j - 1 \in 1..Len(todo) /\ j - 1 # i
          BY <2>3, <3>2
        <5> QED BY <2>3, <3>1, <5>1
      <4>2. PICK k \in {1, 2} : Fits(x, todo'[k].path)
        BY <1>11, <3>1, <3>2
      <4>3. ASSUME NEW j \in 1..Len(todo'), Fits(x, todo'[j].path) PROVE j = k
        <5>1. j \in {1, 2}
          BY <1>9, <4>1, <4>3
        <5> QED BY <1>11, <4>2, <4>3, <5>1
      <4>4. Pending(x)' = {k}
        BY <2>6, <4>2, <4>3 DEF Pending
      <4> QED BY <2>6, <4>4
    <3>3. CASE i # 1
      <4>1. i \in 2..Len(todo)
        BY <1>4, <3>3
      <4>2. i + 1 \in 1..Len(todo') /\ Fits(x, todo'[i + 1].path)
        BY <2>2, <3>1, <4>1
      <4>3. ASSUME NEW j \in 1..Len(todo'), Fits(x, todo'[j].path) PROVE j = i + 1
        <5>1. j \notin {1, 2}
          <6>1. ~Fits(x, todo[1].path)
            BY <1>4, <3>1, <3>3
          <6> QED BY <1>11, <4>3, <6>1
        <5>2. j \in 3..Len(todo')
          BY <1>9, <5>1
        <5>3. j - 1 \in 1..Len(todo) /\ Fits(x, todo[j - 1].path)
          BY <2>3, <4>3, <5>2
        <5>4. j - 1 = i
          BY <3>1, <5>3
        <5> QED BY <5>4
      <4>4. Pending(x)' = {i + 1}
        BY <4>2, <4>3 DEF Pending
      <4> QED BY <4>2, <4>4
    <3> QED BY <3>2, <3>3
  <2>9. Pending(Pair(below, above, r)) = Pending(x) /\ Pending(Pair(below, above, r))' = Pending(x)'
    BY <2>1
  <2>10. CASE \E i \in 1..Len(todo) : Pending(x) = {i} /\ Matching(below, above, r) = {}
    BY <2>4, <2>8, <2>9, <2>10 DEF PairPlaced
  <2>11. CASE Pending(x) = {} /\ \E i \in 1..Len(code) : Matching(below, above, r) = {i}
    BY <2>4, <2>7, <2>9, <2>11 DEF PairPlaced
  <2> QED BY <2>5, <2>9, <2>10, <2>11 DEF PairPlaced
<1>13. ASSUME NEW below \in Types, NEW above \in Types, NEW r \in {-1, 1}, NEW i \in 1..Len(code')
       PROVE  Right(code[i], below, above, r)'
  <2>1. Right(code[i], below, above, r)
    BY <1>2 DEF RulesInv
  <2> QED BY <1>2, <2>1 DEF Right, Matches
<1>14. tree' \in Trees /\ code' \in Seq(Rules) /\ todo' \in Seq(Calls)
  BY <1>2, <1>3, <1>8
<1> QED BY <1>10, <1>12, <1>13, <1>14 DEF RulesInv

\* The rule of a leaf is for the pairs its path is for, with the odds of the leaf.
LEMMA EmitKept == ASSUME RulesInv, EmitRule PROVE RulesInv'
<1>1. PICK c : c = Head(todo)
  OBVIOUS
<1>2. PICK new : new = [below    |-> TypesWith(c.path, 0), above |-> TypesWith(c.path, 2),
                        relation |-> Relations(c.path), odds |-> Thousandths(c.node.counts)]
  OBVIOUS
<1>3. /\ todo # <<>> /\ IsLeaf(c.node) /\ tree' = tree /\ todo' = Tail(todo)
      /\ code' = Append(code, new)
  BY <1>1, <1>2 DEF EmitRule
<1>4. /\ tree \in Trees /\ todo \in Seq(Calls) /\ code \in Seq(Rules)
      /\ \A i \in 1..Len(todo) : Leads(todo[i])
  BY DEF RulesInv
<1>5. c \in Calls /\ c = todo[1] /\ 1 \in 1..Len(todo) /\ Leads(c) /\ Len(todo) \in Nat
  BY <1>1, <1>3, <1>4
<1>6. /\ todo' \in Seq(Calls) /\ Len(todo') = Len(todo) - 1
      /\ \A i \in 1..Len(todo') : todo'[i] = todo[i + 1]
  BY <1>3, <1>4
<1>7. c.path \in Seq(Decisions) /\ c.node \in Nodes /\ OnceEach(c.path) /\ Len(c.path) \in 0..5
  BY <1>5 DEF Calls, Leads
<1>8. new \in Rules
  <2>1. TypesWith(c.path, 0) \in SUBSET Types /\ TypesWith(c.path, 2) \in SUBSET Types
    BY DEF TypesWith
  <2>2. Relations(c.path) \in SUBSET {-1, 1}
    BY DEF Relations, Sign
  <2>3. Thousandths(c.node.counts) \in {Thousandths(n.counts) : n \in Nodes}
    BY <1>7
  <2> QED BY <1>2, <2>1, <2>2, <2>3 DEF Rules
<1>9. /\ code' \in Seq(Rules) /\ Len(code') = Len(code) + 1 /\ code'[Len(code) + 1] = new
      /\ \A i \in 1..Len(code) : code'[i] = code[i]
      /\ Len(code) \in Nat
  BY <1>3, <1>4, <1>8
<1>10. ASSUME NEW i \in 1..Len(todo') PROVE Leads(todo[i])'
  <2>1. i + 1 \in 1..Len(todo) /\ todo'[i] = todo[i + 1]
    BY <1>5, <1>6
  <2>2. Leads(todo[i + 1])
    BY <1>4, <2>1
  <2> QED BY <1>3, <2>1, <2>2 DEF Leads
<1>11. ASSUME NEW below \in Types, NEW above \in Types, NEW r \in {-1, 1}
       PROVE  Matches(new, below, above, r) <=> Fits(Pair(below, above, r), c.path)
  <2>1. /\ new.below = TypesWith(c.path, 0) /\ new.above = TypesWith(c.path, 2)
        /\ new.relation = Relations(c.path)
    BY <1>2
  <2> QED BY <1>7, <2>1, RuleMatches
<1>12. ASSUME NEW below \in Types, NEW above \in Types, NEW r \in {-1, 1}
       PROVE  PairPlaced(below, above, r)'
  <2>1. PICK x \in Features : x = Pair(below, above, r)
    BY PairIs
  <2>2. PICK m : m = Matching(below, above, r)
    OBVIOUS
  <2>3. m = {i \in 1..Len(code) : Matches(code[i], below, above, r)}
    BY <2>2 DEF Matching, Matches
  <2>4. Matching(below, above, r)' = {i \in 1..(Len(code) + 1) : Matches(code'[i], below, above, r)}
    BY <1>9 DEF Matching, Matches
  <2>5. Matching(below, above, r)' = IF Fits(x, c.path) THEN m \cup {Len(code) + 1} ELSE m
    <3>1. \A i \in 1..(Len(code) + 1) : i \in 1..Len(code) \/ i = Len(code) + 1
      BY <1>9
    <3>2. Len(code) + 1 \in 1..(Len(code) + 1) /\ \A i \in 1..Len(code) : i \in 1..(Len(code) + 1)
      BY <1>9
    <3>3. Matches(code'[Len(code) + 1], below, above, r) <=> Fits(x, c.path)
      BY <1>9, <1>11, <2>1
    <3>4. \A i \in 1..Len(code) : code'[i] = code[i]
      BY <1>9
    <3> QED BY <2>3, <2>4, <3>1, <3>2, <3>3, <3>4
  <2>6. ASSUME NEW j \in 1..Len(todo')
        PROVE  j + 1 \in 2..Len(todo) /\ (Fits(x, todo'[j].path) <=> Fits(x, todo[j + 1].path))
    BY <1>5, <1>6
  <2>7. PairPlaced(below, above, r)
    BY DEF RulesInv
  <2>8. Pending(Pair(below, above, r)) = Pending(x) /\ Pending(Pair(below, above, r))' = Pending(x)'
    BY <2>1
  <2>9. ASSUME NEW i \in 1..Len(todo), Pending(x) = {i}, m = {} PROVE PairPlaced(below, above, r)'
    <3>1. Fits(x, todo[i].path) /\ \A j \in 1..Len(todo) : j # i => ~Fits(x, todo[j].path)
      BY <2>9 DEF Pending
    <3>2. CASE i = 1
      <4>1. Matching(below, above, r)' = {Len(code) + 1}
        BY <1>5, <2>5, <2>9, <3>1, <3>2
      <4>2. Pending(x)' = {}
        <5>1. SUFFICES ASSUME NEW j \in 1..Len(todo'), Fits(x, todo'[j].path) PROVE FALSE
          BY DEF Pending
        <5>2. j + 1 \in 1..Len(todo) /\ j + 1 # i
          BY <2>6, <3>2
        <5> QED BY <2>6, <3>1, <5>1, <5>2
      <4>3. Len(code) + 1 \in 1..Len(code')
        BY <1>9
      <4> QED BY <2>8, <4>1, <4>2, <4>3 DEF PairPlaced
    <3>3. CASE i # 1
      <4>1. Matching(below, above, r)' = {}
        <5>1. ~Fits(x, c.path)
          BY <1>5, <3>1, <3>3
        <5> QED BY <2>5, <2>9, <5>1
      <4>2. i - 1 \in 1..Len(todo') /\ (i - 1) + 1 = i
        BY <1>5, <1>6, <3>3
      <4>3. Fits(x, todo'[i - 1].path)
        BY <2>6, <3>1, <4>2
      <4>4. ASSUME NEW j \in 1..Len(todo'), Fits(x, todo'[j].path) PROVE j = i - 1
        <5>1. j + 1 \in 1..Len(todo) /\ Fits(x, todo[j + 1].path)
          BY <2>6, <4>4
        <5>2. j + 1 = i
          BY <3>1, <5>1
        <5> QED BY <5>2
      <4>5. Pending(x)' = {i - 1}
        BY <4>2, <4>3, <4>4 DEF Pending
      <4> QED BY <2>8, <4>1, <4>2, <4>5 DEF PairPlaced
    <3> QED BY <3>2, <3>3
  <2>10. ASSUME Pending(x) = {}, NEW i \in 1..Len(code), m = {i} PROVE PairPlaced(below, above, r)'
    <3>1. \A j \in 1..Len(todo) : ~Fits(x, todo[j].path)
      BY <2>10 DEF Pending
    <3>2. Matching(below, above, r)' = {i}
      <4>1. ~Fits(x, c.path)
        BY <1>5, <3>1
      <4> QED BY <2>5, <2>10, <4>1
    <3>3. Pending(x)' = {}
      <4>1. SUFFICES ASSUME NEW j \in 1..Len(todo'), Fits(x, todo'[j].path) PROVE FALSE
        BY DEF Pending
      <4>2. j + 1 \in 1..Len(todo)
        BY <2>6
      <4> QED BY <2>6, <3>1, <4>1, <4>2
    <3>4. i \in 1..Len(code')
      BY <1>9
    <3> QED BY <2>8, <3>2, <3>3, <3>4 DEF PairPlaced
  <2> QED BY <2>2, <2>7, <2>8, <2>9, <2>10 DEF PairPlaced
<1>13. ASSUME NEW below \in Types, NEW above \in Types, NEW r \in {-1, 1}, NEW i \in 1..Len(code')
       PROVE  Right(code[i], below, above, r)'
  <2>1. CASE i \in 1..Len(code)
    <3>1. Right(code[i], below, above, r) /\ code'[i] = code[i]
      BY <1>9, <2>1 DEF RulesInv
    <3> QED BY <1>3, <3>1 DEF Right, Matches
  <2>2. CASE i = Len(code) + 1
    <3>1. code'[i] = new
      BY <1>9, <2>2
    <3>2. ASSUME Matches(new, below, above, r)
          PROVE  new.odds = Thousandths(Walk(tree, Pair(below, above, r)).counts)
      <4>1. PICK x \in Features : x = Pair(below, above, r)
        BY PairIs
      <4>2. Fits(x, c.path)
        BY <1>11, <3>2, <4>1
      <4>3. Way(tree, x)[Len(c.path)] = c.node
        BY <1>5, <4>2 DEF Leads
      <4>4. Walk(tree, x) = c.node
        BY <1>3, <1>7, <4>3, LeafLast
      <4> QED BY <1>2, <4>1, <4>4
    <3> QED BY <1>3, <3>1, <3>2 DEF Right, Matches
  <2> QED BY <1>9, <2>1, <2>2
<1>14. tree' \in Trees
  BY <1>3, <1>4
<1> QED BY <1>6, <1>9, <1>10, <1>12, <1>13, <1>14 DEF RulesInv

LEMMA RulesStutter == ASSUME RulesInv, UNCHANGED ruleVars PROVE RulesInv'
<1>1. tree' = tree /\ todo' = todo /\ code' = code
  BY DEF ruleVars
<1>2. \A below, above, r : PairPlaced(below, above, r) => PairPlaced(below, above, r)'
  BY <1>1 DEF PairPlaced, Pending, Matching
<1>3. ASSUME NEW i \in 1..Len(todo') PROVE Leads(todo[i])'
  BY <1>1 DEF RulesInv, Leads
<1>4. ASSUME NEW below \in Types, NEW above \in Types, NEW r \in {-1, 1}
      PROVE  PairPlaced(below, above, r)' /\ \A i \in 1..Len(code') : Right(code[i], below, above, r)'
  <2>1. PairPlaced(below, above, r) /\ \A i \in 1..Len(code) : Right(code[i], below, above, r)
    BY DEF RulesInv
  <2> QED BY <1>1, <1>2, <2>1 DEF Right, Matches
<1> QED BY <1>1, <1>3, <1>4 DEF RulesInv

LEMMA InvFollows == ASSUME RulesInv PROVE RulesFollowTree
<1>1. SUFFICES ASSUME todo = <<>>, NEW below \in Types, NEW above \in Types, NEW r \in {-1, 1}
               PROVE  \E i \in 1..Len(code) :
                        /\ Matching(below, above, r) = {i}
                        /\ code[i].odds = Thousandths(Walk(tree, Pair(below, above, r)).counts)
  BY DEF RulesFollowTree
<1>2. PairPlaced(below, above, r)
  BY DEF RulesInv
<1>3. 1..Len(todo) = {}
  BY <1>1
<1>4. PICK i \in 1..Len(code) : Matching(below, above, r) = {i}
  BY <1>2, <1>3 DEF PairPlaced
<1>5. Matches(code[i], below, above, r)
  BY <1>4 DEF Matching, Matches
<1>6. Right(code[i], below, above, r)
  BY <1>4 DEF RulesInv
<1> QED BY <1>4, <1>5, <1>6 DEF Right

\* The domain written by tree_to_code decides as the tree it was written for: whatever
\* tree was learnt, of any shape and with any samples, every pair of objects in every
\* relation matches the precondition of exactly one stack action, and that action has the
\* odds of the leaf the tree leads the pair to.
THEOREM RulesDecideAsTheTree == RulesSpec => []RulesFollowTree
<1>1. RulesInit => RulesInv
  BY InitRules
<1>2. RulesInv /\ [RulesNext]_ruleVars => RulesInv'
  BY RecurseKept, EmitKept, RulesStutter DEF RulesNext
<1>3. RulesInv => RulesFollowTree
  BY InvFollows
<1> QED BY <1>1, <1>2, <1>3, PTL DEF RulesSpec

-----------------------------------------------------------------------------
(* What is rounded adds up to a whole                                      *)

\* What n/d is rounded to exceeds it by a half at most.
LEMMA RoundedIs ==
  ASSUME NEW n \in Nat, NEW d \in Nat \ {0}
  PROVE  Rounded(n, d) \in Nat /\ 2 * (d * Rounded(n, d)) <= 2 * n + d
<1>1. PICK q \in Nat, r \in 0..(d - 1) : q = n \div d /\ r = n % d /\ n = d * q + r
  OBVIOUS
<1>2. PICK p \in Nat : p = d * q
  OBVIOUS
<1>3. d * (q + 1) = p + d
  BY <1>2
<1>4. Rounded(n, d) = CASE 2 * r < d -> q [] 2 * r > d -> q + 1 [] OTHER -> q + (q % 2)
  BY <1>1 DEF Rounded
<1>5. CASE 2 * r < d
  <2>1. Rounded(n, d) = q
    BY <1>1, <1>4, <1>5
  <2> QED BY <1>1, <1>2, <2>1
<1>6. CASE 2 * r > d
  <2>1. Rounded(n, d) = q + 1
    BY <1>1, <1>4, <1>6
  <2> QED BY <1>1, <1>2, <1>3, <1>6, <2>1
<1>7. CASE 2 * r = d
  <2>1. Rounded(n, d) = q + (q % 2)
    BY <1>1, <1>4, <1>7
  <2>2. Rounded(n, d) = q \/ Rounded(n, d) = q + 1
    BY <2>1
  <2> QED BY <1>1, <1>2, <1>3, <1>7, <2>2
<1> QED BY <1>1, <1>5, <1>6, <1>7

LEMMA AddUpIs ==
  ASSUME NEW s \in Seq(Nat)
  PROVE  AddUp(s) = Totals(s)[Len(s)] /\ AddUp(s) \in Nat
<1>1. AddUp(s) = Totals(s)[Len(s)]
  BY DEF AddUp, Totals
<1>2. Totals(s) \in [0..Len(s) -> Nat] /\ Len(s) \in Nat
  BY TotalsAre
<1> QED BY <1>1, <1>2

\* If no element is larger than m, the sum is no more than m times their number.
LEMMA NoMoreThanLargest ==
  ASSUME NEW s \in Seq(Nat), NEW m \in Nat, \A i \in 1..Len(s) : s[i] <= m
  PROVE  AddUp(s) <= Len(s) * m
<1> DEFINE n == Len(s)
           t == Totals(s)
           T == {i \in 0..n : t[i] <= i * m}
<1>1. n \in Nat /\ t \in [0..n -> Nat] /\ t[0] = 0 /\ \A i \in 1..n : t[i] = t[i - 1] + s[i]
  BY TotalsAre
<1> HIDE DEF t
<1>2. 0 \in T
  BY <1>1
<1>3. ASSUME NEW i \in 1..n, i - 1 \in T PROVE i \in T
  <2>1. i \in 0..n /\ i - 1 \in 0..n /\ t[i - 1] <= (i - 1) * m /\ t[i] = t[i - 1] + s[i]
    BY <1>1, <1>3
  <2>2. s[i] <= m /\ s[i] \in Nat /\ t[i - 1] \in Nat
    BY <1>1, <2>1
  <2>3. (i - 1) * m + m = i * m /\ (i - 1) * m \in Int /\ i * m \in Int
    OBVIOUS
  <2>4. \A a, b, c, e \in Int : a <= b /\ c <= e => a + c <= b + e
    OBVIOUS
  <2>5. t[i] <= i * m
    BY <2>1, <2>2, <2>3, <2>4
  <2> QED BY <2>1, <2>5
<1>4. n \in T
  <2> HIDE DEF T, n
  <2>1. 0..n \subseteq T
    BY <1>1, <1>2, <1>3, UpTo
  <2> QED BY <1>1, <2>1
<1> QED BY <1>4, AddUpIs DEF t

\* What is taken from one element is taken from the sum.
LEMMA TakenFromOne ==
  ASSUME NEW s \in Seq(Nat), NEW k \in 1..Len(s), NEW r \in Nat, r <= s[k]
  PROVE  /\ [s EXCEPT ![k] = @ - r] \in Seq(Nat)
         /\ AddUp([s EXCEPT ![k] = @ - r]) = AddUp(s) - r
<1> DEFINE n == Len(s)
           e == [s EXCEPT ![k] = @ - r]
           t == Totals(s)
           u == Totals(e)
           T == {i \in 0..n : u[i] = t[i] - (IF i >= k THEN r ELSE 0)}
<1>1. n \in Nat /\ s \in [1..n -> Nat]
  OBVIOUS
<1>2. e \in [1..n -> Nat] /\ e[k] = s[k] - r /\ \A i \in 1..n : i # k => e[i] = s[i]
  BY <1>1
<1> HIDE DEF e
<1>3. e \in Seq(Nat) /\ Len(e) = n
  BY <1>1, <1>2
<1>4. t \in [0..n -> Nat] /\ t[0] = 0 /\ \A i \in 1..n : t[i] = t[i - 1] + s[i]
  BY TotalsAre
<1>5. u \in [0..n -> Nat] /\ u[0] = 0 /\ \A i \in 1..n : u[i] = u[i - 1] + e[i]
  BY <1>3, TotalsAre
<1> HIDE DEF t, u
<1>6. 0 \in T
  BY <1>1, <1>4, <1>5
<1>7. ASSUME NEW i \in 1..n, i - 1 \in T PROVE i \in T
  <2>1. /\ i \in 0..n /\ i - 1 \in 0..n /\ u[i - 1] = t[i - 1] - (IF i - 1 >= k THEN r ELSE 0)
        /\ t[i] = t[i - 1] + s[i] /\ u[i] = u[i - 1] + e[i]
    BY <1>1, <1>4, <1>5, <1>7
  <2>2. t[i - 1] \in Nat /\ s[i] \in Nat /\ s[k] \in Nat
    BY <1>1, <1>4, <2>1
  <2>3. CASE i = k
    BY <1>2, <2>1, <2>2, <2>3
  <2>4. CASE i # k
    <3>1. e[i] = s[i] /\ (i - 1 >= k <=> i >= k)
      BY <1>1, <1>2, <2>4
    <3> QED BY <2>1, <2>2, <3>1
  <2> QED BY <2>3, <2>4
<1>8. n \in T
  <2> HIDE DEF T, n
  <2>1. 0..n \subseteq T
    BY <1>1, <1>6, <1>7, UpTo
  <2> QED BY <1>1, <2>1
<1>9. u[n] = t[n] - r
  BY <1>1, <1>8
<1>10. AddUp(s) = t[n] /\ AddUp(e) = u[n]
  BY <1>3, AddUpIs DEF t, u
<1> QED BY <1>3, <1>9, <1>10 DEF e

\* The first of the largest elements.
FirstLargest(s, l, m) == \A j \in 1..m : s[j] < s[l] \/ (s[j] = s[l] /\ l <= j)

LEMMA LargestExists ==
  ASSUME NEW s \in Seq(Nat), Len(s) # 0
  PROVE  \E l \in 1..Len(s) : FirstLargest(s, l, Len(s))
<1> DEFINE n == Len(s)
           T == {m \in 0..n : m = 0 \/ \E l \in 1..m : FirstLargest(s, l, m)}
<1>1. n \in Nat /\ \A i \in 1..n : s[i] \in Nat
  OBVIOUS
<1>2. 0 \in T
  BY <1>1
<1>3. ASSUME NEW m \in 1..n, m - 1 \in T PROVE m \in T
  <2>1. CASE m = 1
    <3>1. FirstLargest(s, 1, 1)
      BY DEF FirstLargest
    <3> QED BY <2>1, <3>1
  <2>2. CASE m # 1
    <3>1. PICK l \in 1..(m - 1) : FirstLargest(s, l, m - 1)
      BY <1>1, <1>3, <2>2
    <3>2. l \in 1..m /\ m \in 1..m /\ \A j \in 1..m : j = m \/ j \in 1..(m - 1)
      OBVIOUS
    <3>3. s[l] \in Nat /\ s[m] \in Nat /\ \A j \in 1..m : s[j] \in Nat
      BY <1>1, <3>1
    <3>4. CASE s[m] > s[l]
      <4>1. ASSUME NEW j \in 1..m PROVE s[j] < s[m] \/ (s[j] = s[m] /\ m <= j)
        <5>1. CASE j = m
          BY <5>1
        <5>2. CASE j \in 1..(m - 1)
          <6>1. s[j] <= s[l]
            BY <3>1, <3>3, <5>2 DEF FirstLargest
          <6> QED BY <3>3, <3>4, <6>1
        <5> QED BY <3>2, <5>1, <5>2
      <4>2. FirstLargest(s, m, m)
        BY <4>1 DEF FirstLargest
      <4> QED BY <3>2, <4>2
    <3>5. CASE ~(s[m] > s[l])
      <4>1. FirstLargest(s, l, m)
        <5>1. s[m] < s[l] \/ (s[m] = s[l] /\ l <= m)
          BY <3>1, <3>3, <3>5
        <5> QED BY <3>1, <3>2, <5>1 DEF FirstLargest
      <4> QED BY <3>2, <4>1
    <3> QED BY <3>4, <3>5
  <2> QED BY <2>1, <2>2
<1>4. n \in T
  <2> HIDE DEF T, n
  <2>1. 0..n \subseteq T
    BY <1>1, <1>2, <1>3, UpTo
  <2> QED BY <1>1, <2>1
<1> QED BY <1>4

\* With n outcomes, what is rounded exceeds a whole by n halves at most, and its largest
\* is an n-th of a whole at least.
LEMMA ResidualFits ==
  ASSUME NEW n \in Nat, NEW total \in Nat, NEW largest \in Nat,
         n * n <= 2000, 2 * total <= 2000 + n, total > 1000, total <= n * largest
  PROVE  total - 1000 <= largest
<1>1. PICK r \in Nat : total = 1000 + r
  OBVIOUS
<1>2. SUFFICES ASSUME r > largest PROVE FALSE
  BY <1>1
<1>3. 2 * r <= n
  BY <1>1
<1>4. n * (2 * largest + 2) <= n * n
  <2>1. PICK d \in Nat : n = (2 * largest + 2) + d
    <3>1. n >= 2 * largest + 2
      BY <1>2, <1>3
    <3>2. n - (2 * largest + 2) \in Nat /\ n = (2 * largest + 2) + (n - (2 * largest + 2))
      BY <3>1
    <3> QED BY <3>2
  <2>2. n * n = n * (2 * largest + 2) + n * d
    BY <2>1
  <2>3. n * d \in Nat /\ n * n \in Nat /\ n * (2 * largest + 2) \in Nat
    OBVIOUS
  <2> QED BY <2>2, <2>3
<1>5. n * (2 * largest + 2) = 2 * (n * largest) + 2 * n
  OBVIOUS
<1>6. PICK y \in Nat, z \in Nat : y = n * largest /\ z = n * n
  OBVIOUS
<1>7. 2 * y + 2 * n <= z /\ z <= 2000 /\ total <= y
  BY <1>4, <1>5, <1>6
<1> QED BY <1>6, <1>7

\* What the counts of a leaf may be.
Samples == {s \in Seq(Nat) : Len(s) = Len(Effects) /\ AddUp(s) > 0}

\* The probabilities of a leaf are natural numbers of thousandths, at most a whole together.
LEMMA ThousandthsAddUp ==
  ASSUME NEW s \in Samples
  PROVE  Thousandths(s) \in Seq(Nat) /\ AddUp(Thousandths(s)) <= Whole
<1> DEFINE n == Len(s)
           d == AddUp(s)
           p == [i \in 1..n |-> Rounded(Whole * s[i], d)]
           residual == AddUp(p) - Whole
           largest == CHOOSE i \in DOMAIN p : \A j \in DOMAIN p : p[j] < p[i] \/ (p[j] = p[i] /\ i <= j)
<1>1. s \in Seq(Nat) /\ n \in Nat /\ d \in Nat \ {0} /\ n * n <= 2000 /\ \A i \in 1..n : s[i] \in Nat
  <2>1. s \in Seq(Nat) /\ n = Len(Effects) /\ d > 0
    BY DEF Samples
  <2>2. d \in Nat
    BY <2>1, AddUpIs
  <2>3. Len(Effects) * Len(Effects) <= 2000
    BY CountsAssumption DEF Whole
  <2> QED BY <2>1, <2>2, <2>3
<1>2. Thousandths(s) = IF residual > 0 THEN [p EXCEPT ![largest] = @ - residual] ELSE p
  BY DEF Thousandths
<1>3. ASSUME NEW i \in 1..n PROVE p[i] \in Nat /\ 2 * (d * p[i]) <= 2 * (1000 * s[i]) + d
  <2>1. 1000 * s[i] \in Nat
    BY <1>1
  <2>2. p[i] = Rounded(1000 * s[i], d)
    BY DEF Whole
  <2>3. d \in Nat \ {0}
    BY <1>1
  <2>4. /\ Rounded(1000 * s[i], d) \in Nat
        /\ 2 * (d * Rounded(1000 * s[i], d)) <= 2 * (1000 * s[i]) + d
    <3> HIDE DEF d
    <3>1. PICK x \in Nat : x = 1000 * s[i]
      BY <2>1
    <3>2. Rounded(x, d) \in Nat /\ 2 * (d * Rounded(x, d)) <= 2 * x + d
      BY <2>3, RoundedIs
    <3> QED BY <3>1, <3>2
  <2> HIDE DEF p, n, d
  <2> QED BY <2>2, <2>4
<1>4. p \in Seq(Nat) /\ Len(p) = n /\ DOMAIN p = 1..n
  <2>1. p \in [1..n -> Nat]
    BY <1>3
  <2> HIDE DEF p, n
  <2> QED BY <1>1, <2>1
<1> HIDE DEF p
<1>5. 2 * AddUp(p) <= 2000 + n
  <2> DEFINE t == Totals(s)
             u == Totals(p)
             T == {i \in 0..n : 2 * (d * u[i]) <= 2 * (1000 * t[i]) + i * d}
  <2>1. t \in [0..n -> Nat] /\ t[0] = 0 /\ \A i \in 1..n : t[i] = t[i - 1] + s[i]
    BY <1>1, TotalsAre
  <2>2. u \in [0..n -> Nat] /\ u[0] = 0 /\ \A i \in 1..n : u[i] = u[i - 1] + p[i]
    BY <1>4, TotalsAre
  <2>3. d = t[n] /\ AddUp(p) = u[n]
    BY <1>1, <1>4, AddUpIs
  <2> HIDE DEF t, u, n, d
  <2>4. 0 \in T
    BY <1>1, <2>1, <2>2
  <2>5. ASSUME NEW i \in 1..n, i - 1 \in T PROVE i \in T
    <3>1. /\ i \in 0..n /\ i - 1 \in 0..n /\ 2 * (d * u[i - 1]) <= 2 * (1000 * t[i - 1]) + (i - 1) * d
          /\ t[i] = t[i - 1] + s[i] /\ u[i] = u[i - 1] + p[i]
      BY <1>1, <2>1, <2>2, <2>5
    <3>2. PICK a \in Nat, b \in Nat, c \in Nat, e \in Nat :
                 a = u[i - 1] /\ b = p[i] /\ c = t[i - 1] /\ e = s[i]
      <4>1. p[i] \in Nat /\ s[i] \in Nat
        BY <1>1, <1>3
      <4>2. u[i - 1] \in Nat /\ t[i - 1] \in Nat
        BY <2>1, <2>2, <3>1
      <4> QED BY <4>1, <4>2
    <3>3. 2 * (d * a) <= 2 * (1000 * c) + (i - 1) * d /\ 2 * (d * b) <= 2 * (1000 * e) + d
      BY <1>3, <3>1, <3>2
    <3>4. d * (a + b) = d * a + d * b /\ (i - 1) * d + d = i * d
      BY <1>1
    <3>5. d * a \in Nat /\ d * b \in Nat /\ (i - 1) * d \in Int /\ i * d \in Int
      BY <1>1
    <3>6. 2 * (d * (a + b)) <= 2 * (1000 * (c + e)) + i * d
      <4>1. \A da, db, id, dd, j \in Int : 2 * da <= 2 * (1000 * c) + id /\ 2 * db <= 2 * (1000 * e) + dd /\ j = id + dd
              => 2 * (da + db) <= 2 * (1000 * (c + e)) + j
        OBVIOUS
      <4>2. d \in Int
        BY <1>1
      <4> QED BY <3>3, <3>4, <3>5, <4>1, <4>2
    <3>7. u[i] = a + b /\ t[i] = c + e
      BY <3>1, <3>2
    <3> QED BY <3>1, <3>6, <3>7
  <2>6. n \in T
    <3> HIDE DEF T
    <3>1. n \in Nat
      BY <1>1
    <3>2. 0..n \subseteq T
      BY <2>4, <2>5, <3>1, UpTo
    <3> QED BY <3>1, <3>2
  <2>7. 2 * (d * u[n]) <= 2 * (1000 * d) + n * d /\ u[n] \in Nat
    BY <1>1, <2>2, <2>3, <2>6
  <2>8. SUFFICES ASSUME 2 * u[n] > 2000 + n PROVE FALSE
    BY <1>1, <2>3, <2>7
  <2>9. PICK x \in Nat : x = u[n]
    BY <2>7
  <2>10. PICK k \in Nat : 2 * x = 2000 + n + 1 + k
    <3>1. 2 * x - (2000 + n + 1) \in Nat /\ 2 * x = 2000 + n + 1 + (2 * x - (2000 + n + 1))
      BY <1>1, <2>8, <2>9
    <3> QED BY <3>1
  <2>11. 2 * (d * x) = 2 * (1000 * d) + n * d + d + k * d
    <3>1. 2 * (d * x) = d * (2 * x)
      BY <1>1
    <3>2. d * (2000 + n + 1 + k) = 2 * (1000 * d) + n * d + d + k * d
      BY <1>1
    <3> QED BY <2>10, <3>1, <3>2
  <2>12. k * d \in Nat /\ n * d \in Nat /\ d \in Nat \ {0}
    BY <1>1
  <2>13. 2 * (d * x) <= 2 * (1000 * d) + n * d
    BY <2>7, <2>9
  <2> QED BY <2>11, <2>12, <2>13
<1>6. AddUp(p) \in Nat
  BY <1>4, AddUpIs
<1>7. CASE residual > 0
  <2>1. n # 0
    <3>1. SUFFICES ASSUME n = 0 PROVE FALSE
      OBVIOUS
    <3>2. Totals(p)[0] = 0
      BY <1>4, TotalsAre
    <3>3. AddUp(p) = 0
      BY <1>4, <3>1, <3>2, AddUpIs
    <3> QED BY <1>7, <3>3 DEF Whole
  <2>2. \E i \in DOMAIN p : \A j \in DOMAIN p : p[j] < p[i] \/ (p[j] = p[i] /\ i <= j)
    BY <1>4, <2>1, LargestExists DEF FirstLargest
  <2>3. largest \in 1..n /\ \A j \in 1..n : p[j] < p[largest] \/ p[j] = p[largest]
    BY <1>4, <2>2
  <2> HIDE DEF largest
  <2>4. p[largest] \in Nat /\ \A j \in 1..n : p[j] <= p[largest]
    BY <1>3, <2>3
  <2>5. AddUp(p) <= n * p[largest]
    BY <1>4, <2>4, NoMoreThanLargest
  <2>6. residual <= p[largest]
    <3>1. AddUp(p) > 1000 /\ residual = AddUp(p) - 1000
      BY <1>6, <1>7 DEF Whole
    <3>2. PICK total \in Nat, m \in Nat : total = AddUp(p) /\ m = p[largest]
      BY <1>6, <2>4
    <3>3. n * n <= 2000 /\ 2 * total <= 2000 + n /\ total > 1000 /\ total <= n * m
      BY <1>1, <1>5, <2>5, <3>1, <3>2
    <3>4. n \in Nat
      BY <1>1
    <3>5. total - 1000 <= m
      <4> HIDE DEF n
      <4> QED BY <3>3, <3>4, ResidualFits
    <3> QED BY <3>1, <3>2, <3>5
  <2>7. residual \in Nat /\ AddUp(p) - residual = Whole
    BY <1>6, <1>7 DEF Whole
  <2> HIDE DEF residual
  <2>8. [p EXCEPT ![largest] = @ - residual] \in Seq(Nat)
        /\ AddUp([p EXCEPT ![largest] = @ - residual]) = AddUp(p) - residual
    BY <1>4, <2>3, <2>6, <2>7, TakenFromOne
  <2> QED BY <1>2, <1>7, <2>7, <2>8 DEF Whole
<1>8. CASE ~(residual > 0)
  <2>1. AddUp(p) <= Whole
    BY <1>6, <1>8 DEF Whole
  <2>2. Thousandths(s) = p
    BY <1>2, <1>8
  <2> QED BY <1>4, <2>1, <2>2
<1> QED BY <1>7, <1>8

\* A call with a leaf is for a leaf of the tree: some features lead there.
LEMMA LeavesHaveSamples ==
  ASSUME RulesInv, NEW i \in 1..Len(todo), IsLeaf(todo[i].node)
  PROVE  todo[i].node.counts \in Samples
<1>1. PICK c : c = todo[i]
  OBVIOUS
<1>2. tree \in Trees /\ c \in Calls /\ Leads(c) /\ IsLeaf(c.node)
  BY <1>1 DEF RulesInv
<1>3. c.path \in Seq(Decisions) /\ OnceEach(c.path) /\ Len(c.path) \in 0..5
  BY <1>2 DEF Calls, Leads
<1>4. PICK x \in Features : Fits(x, c.path)
  BY <1>3, SomeFollow
<1>5. Way(tree, x)[Len(c.path)] = c.node
  BY <1>2, <1>4 DEF Leads
<1>6. Walk(tree, x) = c.node
  BY <1>2, <1>3, <1>5, LeafLast
<1>7. Walk(tree, x).counts \in Samples
  <2>1. \A t \in Trees, y \in Features : Walk(t, y).counts \in Samples
    BY CountsAssumption DEF Samples
  <2> QED BY <1>2, <2>1
<1> QED BY <1>1, <1>6, <1>7

LEMMA OddsKept == ASSUME RulesInv, OddsAddUp, EmitRule PROVE OddsAddUp'
<1>1. PICK c : c = Head(todo)
  OBVIOUS
<1>2. PICK new : new = [below    |-> TypesWith(c.path, 0), above |-> TypesWith(c.path, 2),
                        relation |-> Relations(c.path), odds |-> Thousandths(c.node.counts)]
  OBVIOUS
<1>3. todo # <<>> /\ IsLeaf(c.node) /\ code' = Append(code, new)
  BY <1>1, <1>2 DEF EmitRule
<1>4. todo \in Seq(Calls) /\ code \in Seq(Rules)
  BY DEF RulesInv
<1>5. c = todo[1] /\ 1 \in 1..Len(todo)
  BY <1>1, <1>3, <1>4
<1>6. c.node.counts \in Samples
  BY <1>3, <1>5, LeavesHaveSamples
<1>7. PICK odds \in Seq(Nat) : odds = new.odds /\ AddUp(odds) <= Whole
  <2>1. new.odds = Thousandths(c.node.counts)
    BY <1>2
  <2> QED BY <1>6, <2>1, ThousandthsAddUp
<1>8. /\ Len(code) \in Nat /\ Len(code') = Len(code) + 1 /\ code'[Len(code) + 1] = new
      /\ \A i \in 1..Len(code) : code'[i] = code[i]
  BY <1>3, <1>4
<1>9. ASSUME NEW i \in 1..Len(code')
      PROVE  (\A k \in DOMAIN code'[i].odds : code'[i].odds[k] >= 0) /\ AddUp(code'[i].odds) <= Whole
  <2>1. CASE i \in 1..Len(code)
    BY <1>8, <2>1 DEF OddsAddUp
  <2>2. CASE i = Len(code) + 1
    <3>1. code'[i].odds = odds
      BY <1>7, <1>8, <2>2
    <3>2. \A k \in DOMAIN odds : odds[k] >= 0
      OBVIOUS
    <3> QED BY <1>7, <3>1, <3>2
  <2> QED BY <1>8, <2>1, <2>2
<1> QED BY <1>9 DEF OddsAddUp, AddUp, Whole

LEMMA OddsStay == ASSUME OddsAddUp, code' = code PROVE OddsAddUp'
BY DEF OddsAddUp

\* What the parsers ask of a probabilistic effect is so in every domain tree_to_code writes:
\* the probabilities of an action are not negative and together no more than 1, whatever
\* the samples, because what the rounding adds is less than the largest probability that it
\* is taken from.
THEOREM OddsNeverExceedOne == RulesSpec => []OddsAddUp
<1> DEFINE Inv == RulesInv /\ OddsAddUp
<1>1. RulesInit => Inv
  <2>1. RulesInit => OddsAddUp
    BY DEF RulesInit, OddsAddUp
  <2> QED BY <2>1, InitRules
<1>2. Inv /\ [RulesNext]_ruleVars => Inv'
  <2>1. ASSUME RulesInv, OddsAddUp, Recurse PROVE Inv'
    <3>1. OddsAddUp'
      BY <2>1, OddsStay DEF Recurse
    <3> QED BY <2>1, <3>1, RecurseKept
  <2>2. ASSUME RulesInv, OddsAddUp, EmitRule PROVE Inv'
    BY <2>2, EmitKept, OddsKept
  <2>3. ASSUME RulesInv, OddsAddUp, UNCHANGED ruleVars PROVE Inv'
    <3>1. OddsAddUp'
      BY <2>3, OddsStay DEF ruleVars
    <3> QED BY <2>3, <3>1, RulesStutter
  <2> HIDE DEF Inv
  <2> QED BY <2>1, <2>2, <2>3 DEF RulesNext, Inv
<1>3. Inv => OddsAddUp
  OBVIOUS
<1> QED BY <1>1, <1>2, <1>3, PTL DEF RulesSpec

-----------------------------------------------------------------------------
(* What the counters say is true of the stack                              *)

Worlds == [base : BOOLEAN, stacked : BOOLEAN, inserted : BOOLEAN,
           pickloc : SUBSET Objects, instack : SUBSET Objects, stackloc : SUBSET Objects,
           H : SUBSET Nat, S : SUBSET Nat]

\* TowerCounted of a world, for its two counters.
Counts(w, h, s) ==
  /\ w.H = {h} /\ w.S = {s}
  /\ s + Num(w.inserted) = Cardinality(w.instack) + Num(w.base)
  /\ h + Num(w.stacked) <= s + Num(w.inserted)

\* TowerCounted is kept because nothing is put on the stack twice, and nothing before
\* there is a base.
Sound(w) ==
  /\ w \in Worlds
  /\ IsFiniteSet(w.instack) /\ w.instack \cap w.pickloc = {}
  /\ ~w.base => w.stackloc = {} /\ ~w.stacked /\ ~w.inserted
  /\ \E h, s \in 0..Levels : Counts(w, h, s)

-----------------------------------------------------------------------------

LEMMA InitSound == Sound(InitWorld)
<1>1. Counts(InitWorld, 0, 0)
  BY FS_EmptySet DEF Counts, InitWorld, Num
<1>2. 0 \in 0..Levels
  BY StackingAssumption
<1>3. InitWorld \in Worlds /\ IsFiniteSet(InitWorld.instack)
  BY FS_EmptySet DEF InitWorld, Worlds
<1> QED BY <1>1, <1>2, <1>3 DEF Sound, InitWorld

\* Placing an object on the stack: it was not there.
LEMMA PlacedSound ==
  ASSUME Sound(world), NEW a \in world.pickloc, NEW b \in world.stackloc,
         ~world.stacked, ~world.inserted, NEW isStacked \in BOOLEAN
  PROVE  Sound(Placed(b, a, isStacked))
<1> DEFINE w == Placed(b, a, isStacked)
<1>1. world \in Worlds /\ world.base
  BY DEF Sound
<1>2. /\ w.base = world.base
      /\ w.stacked = isStacked
      /\ w.inserted
      /\ w.pickloc = world.pickloc \ {a}
      /\ w.instack = world.instack \cup {a}
      /\ w.stackloc = (world.stackloc \ {b}) \cup {a}
      /\ w.H = world.H
      /\ w.S = world.S
  BY <1>1 DEF Placed, Worlds
<1>3. /\ IsFiniteSet(world.instack \cup {a})
      /\ Cardinality(world.instack \cup {a}) = Cardinality(world.instack) + 1
      /\ Cardinality(world.instack) \in Nat
  BY FS_AddElement, FS_CardinalityType DEF Sound
<1>4. PICK h, s \in 0..Levels : Counts(world, h, s)
  BY DEF Sound
<1>5. Counts(w, h, s)
  <2> HIDE DEF w
  <2> QED BY <1>1, <1>2, <1>3, <1>4, StackingAssumption DEF Counts, Num
<1>6. w \in Worlds
  BY <1>1, <1>2 DEF Worlds, Placed
<1> HIDE DEF w
<1>7. Sound(w)
  BY <1>1, <1>2, <1>3, <1>5, <1>6 DEF Sound
<1> QED BY <1>7 DEF w

LEMMA MissedSound ==
  ASSUME Sound(world), NEW a
  PROVE  Sound(Missed(a))
<1> DEFINE w == Missed(a)
<1>1. world \in Worlds
  BY DEF Sound
<1>2. /\ w.base = world.base
      /\ w.stacked = world.stacked
      /\ w.inserted = world.inserted
      /\ w.pickloc = world.pickloc \ {a}
      /\ w.instack = world.instack
      /\ w.stackloc = world.stackloc
      /\ w.H = world.H
      /\ w.S = world.S
  BY <1>1 DEF Missed, Worlds
<1>3. w \in Worlds
  BY <1>1, <1>2 DEF Worlds, Missed
<1> HIDE DEF w
<1>4. Sound(w)
  BY <1>1, <1>2, <1>3 DEF Sound, Counts
<1> QED BY <1>4 DEF w

LEMMA BaseSound ==
  ASSUME Sound(world), NEW o \in Objects, ~world.base
  PROVE  Sound(BaseMade(o))
<1> DEFINE w == BaseMade(o)
<1>1. world \in Worlds /\ ~world.stacked /\ ~world.inserted
  BY DEF Sound
<1>2. /\ w.base
      /\ w.stacked
      /\ w.inserted
      /\ w.pickloc = world.pickloc \ {o}
      /\ w.instack = world.instack
      /\ w.stackloc = world.stackloc \cup {o}
      /\ w.H = world.H
      /\ w.S = world.S
  BY <1>1 DEF BaseMade, Worlds
<1>3. PICK h, s \in 0..Levels : Counts(world, h, s)
  BY DEF Sound
<1>4. Cardinality(world.instack) \in Nat
  BY FS_CardinalityType DEF Sound
<1>5. w \in Worlds
  BY <1>1, <1>2 DEF Worlds, BaseMade
<1> HIDE DEF w
<1>6. Counts(w, h, s)
  BY <1>1, <1>2, <1>3, <1>4, StackingAssumption DEF Counts, Num
<1>7. Sound(w)
  BY <1>2, <1>5, <1>6 DEF Sound
<1> QED BY <1>7 DEF w

\* Counting an object's height: the only number of H moves up by one.
LEMMA HeightSound ==
  ASSUME Sound(world), NEW i \in 0..Levels - 1, i \in world.H, world.stacked
  PROVE  Sound(HeightIncreased(i))
<1> DEFINE w == HeightIncreased(i)
<1>1. world \in Worlds
  BY DEF Sound
<1>2. PICK h, s \in 0..Levels : Counts(world, h, s)
  BY DEF Sound
<1>3. i = h /\ i + 1 \in 0..Levels
  BY <1>2, StackingAssumption DEF Counts
<1>4. /\ w.base = world.base
      /\ ~w.stacked
      /\ w.inserted = world.inserted
      /\ w.pickloc = world.pickloc
      /\ w.instack = world.instack
      /\ w.stackloc = world.stackloc
      /\ w.H = {i + 1}
      /\ w.S = world.S
  BY <1>1, <1>2, <1>3 DEF HeightIncreased, Worlds, Counts
<1>5. w \in Worlds
  <2>1. (world.H \ {i}) \cup {i + 1} \in SUBSET Nat
    BY <1>1, <1>3, StackingAssumption DEF Worlds
  <2> QED BY <1>1, <2>1 DEF Worlds, HeightIncreased
<1> HIDE DEF w
<1>6. Counts(w, i + 1, s)
  BY <1>2, <1>3, <1>4, StackingAssumption DEF Counts, Num
<1>7. Sound(w)
  BY <1>3, <1>4, <1>5, <1>6 DEF Sound
<1> QED BY <1>7 DEF w

LEMMA StackSound ==
  ASSUME Sound(world), NEW i \in 0..Levels - 1, i \in world.S, world.inserted
  PROVE  Sound(StackIncreased(i))
<1> DEFINE w == StackIncreased(i)
<1>1. world \in Worlds
  BY DEF Sound
<1>2. PICK h, s \in 0..Levels : Counts(world, h, s)
  BY DEF Sound
<1>3. i = s /\ i + 1 \in 0..Levels
  BY <1>2, StackingAssumption DEF Counts
<1>4. /\ w.base = world.base
      /\ w.stacked = world.stacked
      /\ ~w.inserted
      /\ w.pickloc = world.pickloc
      /\ w.instack = world.instack
      /\ w.stackloc = world.stackloc
      /\ w.H = world.H
      /\ w.S = {i + 1}
  BY <1>1, <1>2, <1>3 DEF StackIncreased, Worlds, Counts
<1>5. w \in Worlds
  <2>1. (world.S \ {i}) \cup {i + 1} \in SUBSET Nat
    BY <1>1, <1>3, StackingAssumption DEF Worlds
  <2> QED BY <1>1, <2>1 DEF Worlds, StackIncreased
<1> HIDE DEF w
<1>6. Counts(w, h, i + 1)
  BY <1>2, <1>3, <1>4, StackingAssumption DEF Counts, Num
<1>7. Sound(w)
  BY <1>3, <1>4, <1>5, <1>6 DEF Sound
<1> QED BY <1>7 DEF w

-----------------------------------------------------------------------------

\* A turn leads to one of the action's outcomes or changes no atom; a round ends in the
\* same world or begins in the first.
LEMMA TurnSound ==
  ASSUME Sound(world), NEW line, NEW outcomes, \A w \in outcomes : Sound(w),
         Turn(line, outcomes)
  PROVE  Sound(world')
BY DEF Turn

LEMMA EndRoundSound ==
  ASSUME Sound(world), NEW lines, NEW end, EndRound(lines, end)
  PROVE  Sound(world')
BY InitSound DEF EndRound

LEMMA StepSound ==
  ASSUME Sound(world), [Next]_vars
  PROVE  Sound(world')
<1>1. ASSUME NEW b \in Objects, NEW a \in Objects, NEW i \in 1..Len(code), StackOn(i, b, a)
      PROVE  Sound(world')
  <2>1. ASSUME NEW w \in StackOutcomes(code[i], b, a)
        PROVE  Sound(w)
    <3>1. w \in {Placed(b, a, TRUE), Placed(b, a, FALSE), Missed(a)}
      BY DEF StackOutcomes
    <3> QED BY <1>1, <3>1, PlacedSound, MissedSound DEF StackOn, StackEnabled
  <2> QED BY <1>1, <2>1, TurnSound DEF StackOn
<1>2. ASSUME NEW i \in 0..Levels - 1, IncreaseHeight(i)
      PROVE  Sound(world')
  <2>1. \A w \in {HeightIncreased(i)} : Sound(w)
    BY <1>2, HeightSound DEF IncreaseHeight
  <2> QED BY <1>2, <2>1, TurnSound DEF IncreaseHeight
<1>3. ASSUME NEW i \in 0..Levels - 1, IncreaseStack(i)
      PROVE  Sound(world')
  <2>1. \A w \in {StackIncreased(i)} : Sound(w)
    BY <1>3, StackSound DEF IncreaseStack
  <2> QED BY <1>3, <2>1, TurnSound DEF IncreaseStack
<1>4. ASSUME NEW o \in Objects, MakeBase(o)
      PROVE  Sound(world')
  <2>1. \A w \in {BaseMade(o)} : Sound(w)
    BY <1>4, BaseSound DEF MakeBase
  <2> QED BY <1>4, <2>1, TurnSound DEF MakeBase
<1>5. CASE GoalReached \/ DeadEnd
  BY <1>5, EndRoundSound DEF GoalReached, DeadEnd
<1>6. ASSUME Learn \/ ParsePlan \/ Execute \/ UNCHANGED vars
      PROVE  world' = world
  BY <1>6 DEF Learn, ParsePlan, Execute, ExecuteStep, ExecuteNotFound, ExecuteEnds, vars, simVars
<1> QED BY <1>1, <1>2, <1>3, <1>4, <1>5, <1>6 DEF Next, Play

\* The height and the number of objects counted are those of the stack, whatever is
\* played in whatever order and whichever effects come about.
THEOREM TowerIsCounted == Spec => []TowerCounted
<1>1. Init => Sound(world)
  BY InitSound DEF Init
<1>2. Sound(world) /\ [Next]_vars => Sound(world)'
  BY StepSound DEF Sound, Counts
<1>3. Sound(world) => TowerCounted
  BY DEF Sound, Counts, TowerCounted
<1> QED BY <1>1, <1>2, <1>3, PTL DEF Spec

-----------------------------------------------------------------------------
(* The top of the stack. *)

\* OneTop of a world and of the tower built in its round.
Tops(w, t) ==
  /\ t \in Seq(Objects)
  /\ w.stackloc = IF t = <<>> THEN {} ELSE {Last(t)}
  /\ IsInjective(t) /\ ToSet(t) \cap w.pickloc = {}

\* There is a round as long as it is played, and before.
TopInv ==
  /\ \E S : rounds \in Seq(S)
  /\ rounds # <<>>
  /\ stage \in {"learning", "planning"} => "tower" \in DOMAIN Round /\ Tops(world, Round.tower)

LEMMA NoneToSeq == SetToSeq({}) = <<>>
<1>1. Cardinality({}) = 0
  BY FS_EmptySet
<1>2. \A f \in [1..0 -> {}] : f = <<>>
  OBVIOUS
<1>3. <<>> \in [1..0 -> {}] /\ IsInjective(<<>>)
  BY DEF IsInjective
<1>4. SetToSeq({}) = CHOOSE f \in [1..0 -> {}] : IsInjective(f)
  BY <1>1 DEF SetToSeq
<1>5. SetToSeq({}) \in [1..0 -> {}]
  BY <1>3, <1>4
<1> QED BY <1>2, <1>5

LEMMA OneToSeq == ASSUME NEW a PROVE SetToSeq({a}) = <<a>>
<1>1. Cardinality({a}) = 1
  BY FS_Singleton
<1>2. \A f \in [1..1 -> {a}] : f = <<a>>
  OBVIOUS
<1>3. <<a>> \in [1..1 -> {a}] /\ IsInjective(<<a>>)
  BY DEF IsInjective
<1>4. SetToSeq({a}) = CHOOSE f \in [1..1 -> {a}] : IsInjective(f)
  BY <1>1 DEF SetToSeq
<1>5. SetToSeq({a}) \in [1..1 -> {a}]
  BY <1>3, <1>4
<1> QED BY <1>2, <1>5

\* An object that is not in the tower is put on top of it.
LEMMA TowerGrows ==
  ASSUME NEW t \in Seq(Objects), IsInjective(t), NEW a \in Objects, a \notin ToSet(t)
  PROVE  /\ t \o <<a>> \in Seq(Objects) /\ t \o <<a>> # <<>> /\ Last(t \o <<a>>) = a
         /\ IsInjective(t \o <<a>>) /\ ToSet(t \o <<a>>) = ToSet(t) \cup {a}
<1> DEFINE q == t \o <<a>>
<1>1. /\ q \in Seq(Objects) /\ Len(t) \in Nat /\ Len(q) = Len(t) + 1
      /\ \A i \in 1..Len(t) : q[i] = t[i]
      /\ q[Len(t) + 1] = a
      /\ DOMAIN t = 1..Len(t) /\ DOMAIN q = 1..(Len(t) + 1)
  OBVIOUS
<1> HIDE DEF q
<1>2. q # <<>> /\ Last(q) = a
  BY <1>1 DEF Last
<1>3. \A i \in 1..Len(t) : t[i] # a
  BY <1>1 DEF ToSet
<1>4. ASSUME NEW i \in DOMAIN q, NEW j \in DOMAIN q, q[i] = q[j] PROVE i = j
  BY <1>1, <1>3, <1>4 DEF IsInjective
<1>5. ToSet(q) = ToSet(t) \cup {a}
  BY <1>1 DEF ToSet
<1> QED BY <1>1, <1>2, <1>4, <1>5 DEF q, IsInjective

LEMMA TowerStays == ASSUME NEW t \in Seq(Objects) PROVE t \o SetToSeq({}) = t
  BY NoneToSeq

\* The last round is the one noted.
LEMMA Noted ==
  ASSUME NEW S, NEW q \in Seq(S), q # <<>>, NEW r
  PROVE  /\ Append(Front(q), r) \in Seq(S \cup {r})
         /\ Append(Front(q), r) # <<>>
         /\ Last(Append(Front(q), r)) = r
<1> DEFINE f == Front(q)
           T == S \cup {r}
<1>1. Len(q) \in Nat \ {0} /\ \A i \in 1..Len(q) : q[i] \in T
  OBVIOUS
<1>2. f = [i \in 1..(Len(q) - 1) |-> q[i]]
  BY <1>1 DEF Front
<1>3. f \in Seq(T)
  <2>1. Len(q) - 1 \in Nat
    BY <1>1
  <2>2. \A i \in 1..(Len(q) - 1) : q[i] \in T
    BY <1>1
  <2> HIDE DEF f, T
  <2> QED BY <1>2, <2>1, <2>2
<1>4. r \in T
  OBVIOUS
<1> HIDE DEF f, T
<1>5. Append(f, r) \in Seq(T) /\ Append(f, r) # <<>> /\ Last(Append(f, r)) = r
  BY <1>3, <1>4 DEF Last
<1> QED BY <1>5 DEF f, T

LEMMA InitTops == Tops(InitWorld, <<>>)
  BY DEF Tops, InitWorld, IsInjective, ToSet

\* A turn is noted in the round, and what is new on top of the stack in its tower.
LEMMA TurnTops ==
  ASSUME TopInv, NEW line, NEW outcomes, Turn(line, outcomes),
         \A w \in outcomes : Tops(w, Round.tower \o SetToSeq(w.stackloc \ world.stackloc))
  PROVE  TopInv'
<1> DEFINE round == [Round EXCEPT !.steps = IF line.step = <<>> THEN @ ELSE Append(@, line.step)]
<1>1. PICK S : rounds \in Seq(S)
  BY DEF TopInv
<1>2. stage = "planning" /\ rounds # <<>> /\ "tower" \in DOMAIN Round
  BY DEF Turn, TopInv
<1>3. DOMAIN round = DOMAIN Round /\ round.tower = Round.tower
  BY <1>2
<1>4. ASSUME NEW w \in outcomes, world' = w, stage' = stage,
             NEW m, rounds' = Append(Front(rounds), [round EXCEPT
               !.tower = @ \o SetToSeq(w.stackloc \ world.stackloc), !.missed = m])
      PROVE  TopInv'
  <2> DEFINE r == [round EXCEPT !.tower = @ \o SetToSeq(w.stackloc \ world.stackloc), !.missed = m]
  <2> HIDE DEF round
  <2>1. "tower" \in DOMAIN r /\ r.tower = Round.tower \o SetToSeq(w.stackloc \ world.stackloc)
    BY <1>2, <1>3
  <2>2. rounds' = Append(Front(rounds), r)
    BY <1>4
  <2> HIDE DEF r
  <2>3. rounds' \in Seq(S \cup {r}) /\ rounds' # <<>> /\ Last(rounds') = r
    BY <1>1, <1>2, <2>2, Noted
  <2>4. "tower" \in DOMAIN Last(rounds') /\ Tops(world', Last(rounds').tower)
    BY <1>4, <2>1, <2>3
  <2> QED BY <2>3, <2>4 DEF TopInv, Round
<1>5. ASSUME stage' = "parsing", NEW r, rounds' = Append(Front(rounds), r)
      PROVE  TopInv'
  <2>1. rounds' \in Seq(S \cup {r}) /\ rounds' # <<>>
    BY <1>1, <1>2, <1>5, Noted
  <2> QED BY <1>5, <2>1 DEF TopInv
<1> QED BY <1>4, <1>5 DEF Turn, Note

LEMMA EndRoundTops ==
  ASSUME TopInv, NEW lines, NEW end, EndRound(lines, end)
  PROVE  TopInv'
<1> DEFINE r == [Round EXCEPT !.end = end]
<1>1. PICK S : rounds \in Seq(S)
  BY DEF TopInv
<1>2. rounds # <<>>
  BY DEF TopInv
<1> HIDE DEF r
<1>3. /\ Append(Front(rounds), r) \in Seq(S \cup {r}) /\ Append(Front(rounds), r) # <<>>
  BY <1>1, <1>2, Noted
<1>4. CASE rounds' = Append(Append(Front(rounds), r), NoRound) /\ world' = InitWorld
  <2> DEFINE q == Append(Front(rounds), r)
             T == (S \cup {r}) \cup {NoRound}
  <2>1. q \in Seq(T)
    BY <1>3
  <2> HIDE DEF q, T
  <2>2. NoRound \in T
    BY DEF T
  <2>3. rounds' \in Seq(T) /\ rounds' # <<>> /\ Last(rounds') = NoRound
    BY <1>4, <2>1, <2>2 DEF q, Last
  <2>4. "tower" \in DOMAIN NoRound /\ NoRound.tower = <<>>
    BY DEF NoRound
  <2>5. "tower" \in DOMAIN Last(rounds') /\ Tops(world', Last(rounds').tower)
    BY <1>4, <2>3, <2>4, InitTops
  <2> QED BY <2>3, <2>5 DEF TopInv, Round
<1>5. CASE rounds' = Append(Front(rounds), r) /\ stage' = "parsing"
  BY <1>3, <1>5 DEF TopInv
<1> QED BY <1>4, <1>5 DEF EndRound, Note, r

\* What a stack action brings about is on top of what was on top.
LEMMA StackTops ==
  ASSUME NEW t, Tops(world, t), world \in Worlds, NEW b \in world.stackloc,
         NEW a \in world.pickloc, a # b, NEW isStacked
  PROVE  /\ Tops(Placed(b, a, isStacked), t \o SetToSeq(Placed(b, a, isStacked).stackloc \ world.stackloc))
         /\ Tops(Missed(a), t \o SetToSeq(Missed(a).stackloc \ world.stackloc))
<1>1. t \in Seq(Objects) /\ IsInjective(t) /\ ToSet(t) \cap world.pickloc = {} /\ a \in Objects
  BY DEF Tops, Worlds
<1>2. world.stackloc = {b}
  BY DEF Tops
<1>3. Tops(Placed(b, a, isStacked), t \o SetToSeq(Placed(b, a, isStacked).stackloc \ world.stackloc))
  <2> DEFINE w == Placed(b, a, isStacked)
  <2>1. w.stackloc = (world.stackloc \ {b}) \cup {a} /\ w.pickloc = world.pickloc \ {a}
    BY DEF Placed, Worlds
  <2> HIDE DEF w
  <2>2. w.stackloc = {a} /\ w.stackloc \ world.stackloc = {a}
    BY <1>2, <2>1
  <2>3. Tops(w, t \o <<a>>)
    <3>1. a \notin ToSet(t)
      BY <1>1
    <3>2. /\ t \o <<a>> \in Seq(Objects) /\ t \o <<a>> # <<>> /\ Last(t \o <<a>>) = a
          /\ IsInjective(t \o <<a>>) /\ ToSet(t \o <<a>>) = ToSet(t) \cup {a}
      BY <1>1, <3>1, TowerGrows
    <3> QED BY <1>1, <2>1, <2>2, <3>2 DEF Tops
  <2>4. Tops(w, t \o SetToSeq(w.stackloc \ world.stackloc))
    BY <2>2, <2>3, OneToSeq
  <2> QED BY <2>4 DEF w
<1>4. Tops(Missed(a), t \o SetToSeq(Missed(a).stackloc \ world.stackloc))
  <2> DEFINE w == Missed(a)
  <2>1. w.stackloc = world.stackloc /\ w.pickloc = world.pickloc \ {a}
    BY DEF Missed, Worlds
  <2> HIDE DEF w
  <2>2. w.stackloc \ world.stackloc = {}
    BY <2>1
  <2>3. Tops(w, t)
    BY <2>1 DEF Tops
  <2>4. Tops(w, t \o SetToSeq(w.stackloc \ world.stackloc))
    BY <1>1, <2>2, <2>3, TowerStays
  <2> QED BY <2>4 DEF w
<1> QED BY <1>3, <1>4

\* Without a base nothing is stacked, and the base is the first of the tower.
LEMMA BaseTops ==
  ASSUME NEW t, Tops(world, t), world \in Worlds, world.stackloc = {}, NEW o \in Objects
  PROVE  Tops(BaseMade(o), t \o SetToSeq(BaseMade(o).stackloc \ world.stackloc))
<1> DEFINE w == BaseMade(o)
<1>1. w.stackloc = world.stackloc \cup {o} /\ w.pickloc = world.pickloc \ {o}
  BY DEF BaseMade, Worlds
<1>2. t = <<>>
  BY DEF Tops
<1>3. t \o <<o>> = <<o>>
  BY <1>2
<1> HIDE DEF w
<1>4. w.stackloc = {o} /\ w.stackloc \ world.stackloc = {o}
  BY <1>1
<1>5. /\ <<o>> \in Seq(Objects) /\ <<o>> # <<>> /\ Last(<<o>>) = o
      /\ IsInjective(<<o>>) /\ ToSet(<<o>>) = {o}
  BY DEF Last, IsInjective, ToSet
<1>6. Tops(w, <<o>>)
  BY <1>1, <1>4, <1>5 DEF Tops
<1>7. Tops(w, t \o SetToSeq(w.stackloc \ world.stackloc))
  BY <1>3, <1>4, <1>6, OneToSeq
<1> QED BY <1>7 DEF w

\* The counters leave the stack alone.
LEMMA CountTops ==
  ASSUME NEW t, Tops(world, t), world \in Worlds, NEW i,
         NEW w \in {HeightIncreased(i), StackIncreased(i)}
  PROVE  Tops(w, t \o SetToSeq(w.stackloc \ world.stackloc))
<1>1. w.stackloc = world.stackloc /\ w.pickloc = world.pickloc
  BY DEF HeightIncreased, StackIncreased, Worlds
<1>2. w.stackloc \ world.stackloc = {} /\ t \in Seq(Objects) /\ Tops(w, t)
  BY <1>1 DEF Tops
<1> QED BY <1>2, TowerStays

LEMMA StepTops ==
  ASSUME Sound(world), TopInv, [Next]_vars
  PROVE  TopInv'
<1>1. world \in Worlds
  BY DEF Sound
<1>2. stage = "planning" => Tops(world, Round.tower)
  BY DEF TopInv
<1>3. ASSUME NEW b \in Objects, NEW a \in Objects, NEW i \in 1..Len(code), StackOn(i, b, a)
      PROVE  TopInv'
  <2>1. /\ stage = "planning" /\ b \in world.stackloc /\ a \in world.pickloc /\ a # b
        /\ Turn(StackLine(b, a), StackOutcomes(code[i], b, a))
    BY <1>3 DEF StackOn, StackEnabled, Turn
  <2>2. ASSUME NEW w \in StackOutcomes(code[i], b, a)
        PROVE  Tops(w, Round.tower \o SetToSeq(w.stackloc \ world.stackloc))
    <3>1. w \in {Placed(b, a, TRUE), Placed(b, a, FALSE), Missed(a)}
      BY DEF StackOutcomes
    <3>2. Tops(world, Round.tower)
      BY <1>2, <2>1
    <3>3. \E isStacked \in BOOLEAN : w \in {Placed(b, a, isStacked), Missed(a)}
      BY <3>1
    <3>4. PICK isStacked \in BOOLEAN : w \in {Placed(b, a, isStacked), Missed(a)}
      BY <3>3
    <3>5. b \in world.stackloc /\ a \in world.pickloc /\ a # b
      BY <2>1
    <3>6. CASE w = Placed(b, a, isStacked)
      <4>1. Tops(Placed(b, a, isStacked),
                 Round.tower \o SetToSeq(Placed(b, a, isStacked).stackloc \ world.stackloc))
        BY <1>1, <3>2, <3>5, StackTops
      <4> QED BY <3>6, <4>1
    <3>7. CASE w = Missed(a)
      <4>1. Tops(Missed(a), Round.tower \o SetToSeq(Missed(a).stackloc \ world.stackloc))
        BY <1>1, <3>2, <3>5, StackTops
      <4> QED BY <3>7, <4>1
    <3> QED BY <3>4, <3>6, <3>7
  <2> QED BY <2>1, <2>2, TurnTops
<1>4. ASSUME NEW i \in 0..Levels - 1, IncreaseHeight(i) \/ IncreaseStack(i)
      PROVE  TopInv'
  <2>1. stage = "planning"
    BY <1>4 DEF IncreaseHeight, IncreaseStack, Turn
  <2>2. \A w \in {HeightIncreased(i), StackIncreased(i)} :
           Tops(w, Round.tower \o SetToSeq(w.stackloc \ world.stackloc))
    BY <1>1, <1>2, <2>1, CountTops
  <2> QED BY <1>4, <2>2, TurnTops DEF IncreaseHeight, IncreaseStack
<1>5. ASSUME NEW o \in Objects, MakeBase(o)
      PROVE  TopInv'
  <2>1. stage = "planning" /\ world.stackloc = {}
    BY <1>5 DEF MakeBase, Turn, Sound
  <2>2. \A w \in {BaseMade(o)} : Tops(w, Round.tower \o SetToSeq(w.stackloc \ world.stackloc))
    BY <1>1, <1>2, <2>1, BaseTops
  <2> QED BY <1>5, <2>2, TurnTops DEF MakeBase
<1>6. CASE GoalReached \/ DeadEnd
  BY <1>6, EndRoundTops DEF GoalReached, DeadEnd
<1>7. CASE Learn \/ ParsePlan \/ Execute \/ UNCHANGED vars
  <2>1. UNCHANGED <<world, rounds>> /\ (stage' \in {"learning", "planning"} => stage \in {"learning", "planning"})
    BY <1>7 DEF Learn, ParsePlan, Execute, ExecuteStep, ExecuteNotFound, ExecuteEnds, vars, simVars
  <2> QED BY <2>1 DEF TopInv, Round
<1> QED BY <1>3, <1>4, <1>5, <1>6, <1>7 DEF Next, Play

LEMMA InitTopInv == Init => TopInv
<1> SUFFICES ASSUME Init PROVE TopInv
  OBVIOUS
<1>1. world = InitWorld /\ rounds = <<NoRound>>
  BY DEF Init
<1>2. rounds \in Seq({NoRound}) /\ rounds # <<>> /\ Round = NoRound
  BY <1>1 DEF Round, Last
<1>3. "tower" \in DOMAIN NoRound /\ NoRound.tower = <<>>
  BY DEF NoRound
<1> QED BY <1>1, <1>2, <1>3, InitTops DEF TopInv

\* Whatever is played in whatever order, there is one place to stack on, the object
\* placed last, and no object is ever placed twice.
THEOREM OneTopOnly == Spec => []OneTop
<1>1. Init => Sound(world) /\ TopInv
  BY InitSound, InitTopInv DEF Init
<1>2. Sound(world) /\ TopInv /\ [Next]_vars => (Sound(world) /\ TopInv)'
  BY StepSound, StepTops DEF Sound, Counts
<1>3. TopInv => OneTop
  BY DEF TopInv, OneTop, Tops
<1> QED BY <1>1, <1>2, <1>3, PTL DEF Spec

-----------------------------------------------------------------------------
(* The lines of planresult.txt.  What parse_plan.py has made of them is     *)
(* known line by line: reading one more line is one more step of its loop.  *)

Pairs  == Objects \X Objects
Lines  == {StackLine(b, a) : b, a \in Objects} \cup {OtherLine, DoneLine, ClientLine, RoundLine}
Parses == [plans : Seq(Seq(Pairs)), current : Seq(Pairs), isPlan : BOOLEAN]

LEMMA LineIs == ASSUME NEW x \in Lines, x.letter = "s" PROVE x.step \in Pairs
<1>1. ASSUME NEW b \in Objects, NEW a \in Objects, x = StackLine(b, a) PROVE x.step \in Pairs
  BY <1>1 DEF StackLine, Pairs
<1>2. /\ OtherLine.letter = "i" /\ DoneLine.letter = "<"
      /\ ClientLine.letter = "c" /\ RoundLine.letter = "r"
  BY DEF OtherLine, DoneLine, ClientLine, RoundLine
<1>3. x \notin {OtherLine, DoneLine, ClientLine, RoundLine}
  BY <1>2
<1> QED BY <1>1, <1>3 DEF Lines

LEMMA ReadLineType ==
  ASSUME NEW p \in Parses, NEW x \in Lines PROVE ReadLine(p, x) \in Parses
<1>1. p.plans \in Seq(Seq(Pairs)) /\ p.current \in Seq(Pairs)
  BY DEF Parses
<1>2. Append(p.plans, p.current) \in Seq(Seq(Pairs)) /\ <<>> \in Seq(Pairs)
  <2> DEFINE T == Seq(Pairs)
  <2>1. <<>> \in T
    OBVIOUS
  <2> HIDE DEF T
  <2> QED BY <1>1, <2>1 DEF T
<1>3. x.letter = "s" => Append(p.current, x.step) \in Seq(Pairs)
  BY <1>1, LineIs
<1> QED BY <1>1, <1>2, <1>3 DEF ReadLine, Parses

Read(f, q) == f = [n \in 0..Len(q) |-> IF n = 0 THEN Parsed ELSE ReadLine(f[n - 1], q[n])]

LEMMA ReadExists ==
  ASSUME NEW q \in Seq(Lines)
  PROVE  \E f \in [0..Len(q) -> Parses] : Read(f, q)
<1> DEFINE n == Len(q)
           F == [p \in (1..n) \X Parses |-> ReadLine(p[2], q[p[1]])]
<1>1. n \in Nat /\ \A i \in 1..n : q[i] \in Lines
  OBVIOUS
<1>2. Parsed \in Parses
  <2>1. <<>> \in Seq(Seq(Pairs)) /\ <<>> \in Seq(Pairs)
    OBVIOUS
  <2> QED BY <2>1 DEF Parsed, Parses
<1> HIDE DEF n
<1>3. F \in Steps(n, Parses)
  BY <1>1, ReadLineType DEF Steps
<1>4. PICK f : f \in Traces(n, Parses, Parsed, F)
  <2> HIDE DEF F
  <2> QED BY <1>1, <1>2, <1>3, RecursionExists
<1>5. f \in [0..n -> Parses] /\ f[0] = Parsed /\ \A i \in 1..n : f[i] = F[<<i, f[i - 1]>>]
  BY <1>4 DEF Traces
<1>6. ASSUME NEW i \in 0..n PROVE f[i] = IF i = 0 THEN Parsed ELSE ReadLine(f[i - 1], q[i])
  <2>1. CASE i = 0
    BY <1>5, <2>1
  <2>2. CASE i # 0
    <3>1. i \in 1..n /\ f[i - 1] \in Parses
      BY <1>1, <1>5, <2>2
    <3>2. f[i] = F[<<i, f[i - 1]>>]
      BY <1>5, <3>1
    <3>3. F[<<i, f[i - 1]>>] = ReadLine(f[i - 1], q[i])
      BY <3>1
    <3> QED BY <2>2, <3>2, <3>3
  <2> QED BY <2>1, <2>2
<1>7. f = [i \in 0..n |-> f[i]]
  BY <1>5
<1>8. Read(f, q)
  BY <1>6, <1>7 DEF Read, n
<1> QED BY <1>5, <1>8 DEF n

LEMMA ReadIs ==
  ASSUME NEW q \in Seq(Lines), NEW f, Read(f, q) PROVE AllRead(q) = f[Len(q)]
<1> DEFINE g == CHOOSE h : Read(h, q)
           T == {i \in 0..Len(q) : g[i] = f[i]}
<1>1. AllRead(q) = g[Len(q)]
  BY DEF AllRead, Read
<1>2. Read(g, q)
  OBVIOUS
<1> HIDE DEF g
<1>3. Len(q) \in Nat
  OBVIOUS
<1>4. ASSUME NEW i \in 0..Len(q)
      PROVE  /\ g[i] = IF i = 0 THEN Parsed ELSE ReadLine(g[i - 1], q[i])
             /\ f[i] = IF i = 0 THEN Parsed ELSE ReadLine(f[i - 1], q[i])
  BY <1>2 DEF Read
<1>5. 0 \in T
  BY <1>3, <1>4
<1>6. ASSUME NEW i \in 1..Len(q), i - 1 \in T PROVE i \in T
  BY <1>3, <1>4, <1>6
<1>7. 0..Len(q) \subseteq T
  <2> HIDE DEF T
  <2> QED BY <1>3, <1>5, <1>6, UpTo
<1> QED BY <1>1, <1>3, <1>7

LEMMA ReadOneMore ==
  ASSUME NEW q \in Seq(Lines), NEW x \in Lines
  PROVE  /\ AllRead(q) \in Parses
         /\ AllRead(Append(q, x)) = ReadLine(AllRead(q), x)
<1> DEFINE r == Append(q, x)
<1>1. /\ r \in Seq(Lines) /\ Len(q) \in Nat /\ Len(r) = Len(q) + 1
      /\ r[Len(q) + 1] = x /\ \A i \in 1..Len(q) : r[i] = q[i]
  OBVIOUS
<1> HIDE DEF r
<1>2. PICK f \in [0..Len(r) -> Parses] : Read(f, r)
  BY <1>1, ReadExists
<1> DEFINE h == [i \in 0..Len(q) |-> f[i]]
<1>3. ASSUME NEW i \in 0..Len(r) PROVE f[i] = IF i = 0 THEN Parsed ELSE ReadLine(f[i - 1], r[i])
  BY <1>2 DEF Read
<1>4. ASSUME NEW i \in 0..Len(q) PROVE h[i] = IF i = 0 THEN Parsed ELSE ReadLine(h[i - 1], q[i])
  <2>1. i \in 0..Len(r) /\ (i # 0 => i - 1 \in 0..Len(q) /\ i \in 1..Len(q))
    BY <1>1
  <2> QED BY <1>1, <1>3, <2>1
<1>5. Read(h, q)
  <2>1. h = [i \in 0..Len(q) |-> h[i]]
    OBVIOUS
  <2> HIDE DEF h
  <2> QED BY <1>4, <2>1 DEF Read
<1>6. AllRead(q) = f[Len(q)] /\ AllRead(r) = f[Len(q) + 1]
  BY <1>1, <1>2, <1>5, ReadIs
<1>7. f[Len(q) + 1] = ReadLine(f[Len(q)], x) /\ f[Len(q)] \in Parses
  BY <1>1, <1>2, <1>3
<1> QED BY <1>6, <1>7 DEF r

\* The rounds that are kept, round by round.
IsKept(r) == r.end \in {"goal", "cut"}
Keeps(f, q) == f = [n \in 0..Len(q) |-> IF n = 0 THEN <<>>
                                       ELSE IF q[n].end \in {"goal", "cut"}
                                       THEN Append(f[n - 1], q[n]) ELSE f[n - 1]]

LEMMA KeepsExists ==
  ASSUME NEW S, NEW q \in Seq(S)
  PROVE  \E f \in [0..Len(q) -> Seq(S)] : Keeps(f, q)
<1> DEFINE n == Len(q)
           D == Seq(S)
           F == [p \in (1..n) \X D |-> IF IsKept(q[p[1]]) THEN Append(p[2], q[p[1]]) ELSE p[2]]
<1>1. n \in Nat /\ \A i \in 1..n : q[i] \in S
  OBVIOUS
<1>2. <<>> \in D /\ \A s \in D : \A r \in S : Append(s, r) \in D
  OBVIOUS
<1> HIDE DEF n, D
<1>3. F \in Steps(n, D)
  BY <1>1, <1>2 DEF Steps
<1>4. PICK f : f \in Traces(n, D, <<>>, F)
  <2> HIDE DEF F
  <2> QED BY <1>1, <1>2, <1>3, RecursionExists
<1>5. f \in [0..n -> D] /\ f[0] = <<>> /\ \A i \in 1..n : f[i] = F[<<i, f[i - 1]>>]
  BY <1>4 DEF Traces
<1>6. ASSUME NEW i \in 0..n
      PROVE  f[i] = IF i = 0 THEN <<>> ELSE IF q[i].end \in {"goal", "cut"}
                                       THEN Append(f[i - 1], q[i]) ELSE f[i - 1]
  <2>1. CASE i = 0
    BY <1>5, <2>1
  <2>2. CASE i # 0
    <3>1. i \in 1..n /\ f[i - 1] \in D
      BY <1>1, <1>5, <2>2
    <3>2. f[i] = F[<<i, f[i - 1]>>]
      BY <1>5, <3>1
    <3>3. F[<<i, f[i - 1]>>] = IF IsKept(q[i]) THEN Append(f[i - 1], q[i]) ELSE f[i - 1]
      BY <3>1
    <3> QED BY <2>2, <3>2, <3>3 DEF IsKept
  <2> QED BY <2>1, <2>2
<1>7. f = [i \in 0..n |-> f[i]]
  BY <1>5
<1>8. Keeps(f, q)
  BY <1>6, <1>7 DEF Keeps, n
<1> QED BY <1>5, <1>8 DEF n, D

LEMMA KeptIs ==
  ASSUME NEW S, NEW q \in Seq(S), NEW f, Keeps(f, q) PROVE Kept(q) = f[Len(q)]
<1> DEFINE g == CHOOSE h : Keeps(h, q)
           T == {i \in 0..Len(q) : g[i] = f[i]}
<1>1. Kept(q) = g[Len(q)]
  BY DEF Kept, Keeps
<1>2. Keeps(g, q)
  OBVIOUS
<1> HIDE DEF g
<1>3. Len(q) \in Nat
  OBVIOUS
<1>4. ASSUME NEW i \in 0..Len(q)
      PROVE  /\ g[i] = IF i = 0 THEN <<>> ELSE IF IsKept(q[i]) THEN Append(g[i - 1], q[i]) ELSE g[i - 1]
             /\ f[i] = IF i = 0 THEN <<>> ELSE IF IsKept(q[i]) THEN Append(f[i - 1], q[i]) ELSE f[i - 1]
  BY <1>2 DEF Keeps, IsKept
<1>5. 0 \in T
  BY <1>3, <1>4
<1>6. ASSUME NEW i \in 1..Len(q), i - 1 \in T PROVE i \in T
  BY <1>3, <1>4, <1>6
<1>7. 0..Len(q) \subseteq T
  <2> HIDE DEF T
  <2> QED BY <1>3, <1>5, <1>6, UpTo
<1> QED BY <1>1, <1>3, <1>7

LEMMA KeptOneMore ==
  ASSUME NEW S, NEW q \in Seq(S), NEW x \in S
  PROVE  /\ Kept(q) \in Seq(S)
         /\ Kept(Append(q, x)) = IF IsKept(x) THEN Append(Kept(q), x) ELSE Kept(q)
<1> DEFINE r == Append(q, x)
<1>1. /\ r \in Seq(S) /\ Len(q) \in Nat /\ Len(r) = Len(q) + 1
      /\ r[Len(q) + 1] = x /\ \A i \in 1..Len(q) : r[i] = q[i]
  OBVIOUS
<1> HIDE DEF r
<1>2. PICK f \in [0..Len(r) -> Seq(S)] : Keeps(f, r)
  BY <1>1, KeepsExists
<1> DEFINE h == [i \in 0..Len(q) |-> f[i]]
<1>3. ASSUME NEW i \in 0..Len(r)
      PROVE  f[i] = IF i = 0 THEN <<>> ELSE IF IsKept(r[i]) THEN Append(f[i - 1], r[i]) ELSE f[i - 1]
  BY <1>2 DEF Keeps, IsKept
<1>4. ASSUME NEW i \in 0..Len(q)
      PROVE  h[i] = IF i = 0 THEN <<>> ELSE IF IsKept(q[i]) THEN Append(h[i - 1], q[i]) ELSE h[i - 1]
  <2>1. i \in 0..Len(r) /\ (i # 0 => i - 1 \in 0..Len(q) /\ i \in 1..Len(q))
    BY <1>1
  <2> QED BY <1>1, <1>3, <2>1
<1>5. Keeps(h, q)
  <2>1. h = [i \in 0..Len(q) |-> h[i]]
    OBVIOUS
  <2> HIDE DEF h
  <2> QED BY <1>4, <2>1 DEF Keeps, IsKept
<1>6. Kept(q) = f[Len(q)] /\ Kept(r) = f[Len(q) + 1]
  <2>1. Kept(q) = h[Len(q)]
    <3> HIDE DEF h
    <3> QED BY <1>1, <1>5, KeptIs
  <2>2. Kept(r) = f[Len(r)]
    BY <1>1, <1>2, KeptIs
  <2> QED BY <1>1, <2>1, <2>2
<1>7. /\ Len(q) \in 0..Len(r) /\ Len(q) + 1 \in 0..Len(r)
      /\ Len(q) + 1 # 0 /\ (Len(q) + 1) - 1 = Len(q)
  BY <1>1
<1>8. /\ f[Len(q)] \in Seq(S)
      /\ f[Len(q) + 1] = IF IsKept(x) THEN Append(f[Len(q)], x) ELSE f[Len(q)]
  <2>1. f[Len(q)] \in Seq(S)
    BY <1>2, <1>7
  <2>2. f[Len(q) + 1] = IF IsKept(r[Len(q) + 1]) THEN Append(f[Len(q)], r[Len(q) + 1]) ELSE f[Len(q)]
    BY <1>3, <1>7
  <2> QED BY <1>1, <2>1, <2>2
<1> QED BY <1>6, <1>8 DEF r

LEMMA StepsOfOneMore ==
  ASSUME NEW S, NEW q \in Seq(S), NEW x \in S
  PROVE  StepsOf(Append(q, x)) = Append(StepsOf(q), x.steps)
<1> DEFINE r == Append(q, x)
<1>1. /\ Len(q) \in Nat /\ Len(r) = Len(q) + 1
      /\ r[Len(q) + 1] = x /\ \A i \in 1..Len(q) : r[i] = q[i]
  OBVIOUS
<1> HIDE DEF r
<1> DEFINE s == StepsOf(q)
<1>2. s \in Seq({q[i].steps : i \in 1..Len(q)}) /\ Len(s) = Len(q) /\ \A i \in 1..Len(q) : s[i] = q[i].steps
  BY <1>1 DEF StepsOf
<1> HIDE DEF s
<1>3. /\ Append(s, x.steps) = [i \in 1..(Len(q) + 1) |-> IF i = Len(q) + 1 THEN x.steps ELSE s[i]]
  BY <1>1, <1>2
<1>4. StepsOf(r) = [i \in 1..(Len(q) + 1) |-> r[i].steps]
  BY <1>1 DEF StepsOf
<1>5. \A i \in 1..(Len(q) + 1) : r[i].steps = IF i = Len(q) + 1 THEN x.steps ELSE s[i]
  BY <1>1, <1>2
<1> QED BY <1>3, <1>4, <1>5 DEF s, r

-----------------------------------------------------------------------------
(* Rounds.  What has been read of the lines so far is the rounds played so  *)
(* far, and the steps of a round in which nothing missed follow its tower.  *)

Rnd(r) == /\ {"steps", "tower", "missed", "end"} \subseteq DOMAIN r
          /\ r.steps \in Seq(Pairs) /\ r.tower \in Seq(Objects) /\ r.missed \in BOOLEAN

\* Each step puts on an object of the tower the next one, but for a last step that was
\* cut off.
Follow(s, t) ==
  \A k \in 1..Len(s) : /\ k <= Len(t) /\ s[k][1] = t[k]
                       /\ k < Len(t) => s[k][2] = t[k + 1]
Follows(r) == ~r.missed => Follow(r.steps, r.tower)

\* A round that goes on has had all its steps: a base, and an object for each.
Builds(s, t) == Follow(s, t) /\ (Len(t) = Len(s) + 1 \/ (s = <<>> /\ t = <<>>))
Live(r) == ~r.missed => Builds(r.steps, r.tower)

Playing == stage \in {"learning", "planning"}

PlayInv ==
  /\ goal \in Goals
  /\ output \in Seq(Lines)
  /\ rounds # <<>> /\ \E S : rounds \in Seq(S) /\ \A r \in S : Rnd(r) /\ Follows(r)
  /\ Playing => /\ AllRead(output).plans = StepsOf(Kept(Front(rounds)))
                /\ AllRead(output).current = Round.steps
                /\ ~AllRead(output).isPlan => world = InitWorld
                /\ Live(Round)
  /\ stage = "parsing" => AllRead(output).plans = StepsOf(Kept(rounds))
  /\ stage \in {"executing", "done", "failed"} => plans = StepsOf(Kept(rounds))

LEMMA Fronts ==
  ASSUME NEW S, NEW q \in Seq(S), q # <<>>
  PROVE  /\ Front(q) \in Seq(S) /\ Last(q) \in S
         /\ \A r : Front(Append(Front(q), r)) = Front(q) /\ Last(Append(Front(q), r)) = r
<1>1. Len(q) \in Nat \ {0} /\ \A i \in 1..Len(q) : q[i] \in S
  OBVIOUS
<1>2. Front(q) = [i \in 1..(Len(q) - 1) |-> q[i]] /\ Last(q) = q[Len(q)]
  BY <1>1 DEF Front, Last
<1> DEFINE f == Front(q)
           n == Len(q) - 1
<1>3. n \in Nat /\ \A i \in 1..n : q[i] \in S
  BY <1>1
<1> HIDE DEF n
<1>4. f \in Seq(S) /\ Len(f) = n
  BY <1>2, <1>3 DEF n
<1> HIDE DEF f
<1>5. ASSUME NEW r PROVE Front(Append(f, r)) = f /\ Last(Append(f, r)) = r
  <2>1. /\ Append(f, r) \in Seq(S \cup {r}) /\ Len(Append(f, r)) = n + 1
        /\ Append(f, r)[n + 1] = r /\ \A i \in 1..n : Append(f, r)[i] = f[i]
    BY <1>3, <1>4
  <2>2. Front(Append(f, r)) = [i \in 1..n |-> f[i]]
    BY <1>3, <2>1 DEF Front
  <2>3. f = [i \in 1..n |-> f[i]]
    BY <1>4
  <2> QED BY <2>1, <2>2, <2>3 DEF Last
<1> QED BY <1>1, <1>2, <1>4, <1>5 DEF f

\* What a round leaves in planresult.txt when it goes on, is cut off, reaches the goal or
\* comes to a dead end.
LEMMA ReadTwo ==
  ASSUME NEW q \in Seq(Lines), NEW x \in Lines, NEW y \in Lines
  PROVE  /\ q \o <<x, y>> \in Seq(Lines)
         /\ AllRead(q \o <<x, y>>) = ReadLine(ReadLine(AllRead(q), x), y)
<1>1. q \o <<x, y>> = Append(Append(q, x), y) /\ Append(q, x) \in Seq(Lines)
  OBVIOUS
<1>2. Append(Append(q, x), y) \in Seq(Lines)
  BY <1>1
<1> QED BY <1>1, <1>2, ReadOneMore

LEMMA ReadTurn ==
  ASSUME NEW p \in Parses, NEW x \in Lines, x.plus
  PROVE  /\ ReadLine(p, x).plans = p.plans /\ ReadLine(p, x).isPlan
         /\ ReadLine(p, x).current = IF x.letter = "s" THEN Append(p.current, x.step) ELSE p.current
BY DEF ReadLine, Parses

LEMMA ReadRound ==
  ASSUME NEW p \in Parses
  PROVE  /\ ~p.isPlan => ReadLine(p, RoundLine) = p
         /\ p.isPlan => /\ ReadLine(p, RoundLine).plans = Append(p.plans, p.current)
                        /\ ReadLine(p, RoundLine).current = <<>>
                        /\ ~ReadLine(p, RoundLine).isPlan
BY DEF ReadLine, RoundLine, Parses

LEMMA ReadClient ==
  ASSUME NEW p \in Parses, p.isPlan
  PROVE  /\ ReadLine(p, ClientLine).plans = p.plans
         /\ ReadLine(p, ClientLine).current = <<>>
         /\ ~ReadLine(p, ClientLine).isPlan
<1>1. ~ClientLine.plus /\ ClientLine.letter = "c" /\ "c" # "r"
  BY DEF ClientLine
<1> QED BY <1>1 DEF ReadLine, Parses

LEMMA LinesAre == {OtherLine, DoneLine, ClientLine, RoundLine} \subseteq Lines
  BY DEF Lines

LEMMA KeptEnds ==
  ASSUME NEW S, NEW q \in Seq(S), NEW r, {"steps", "end"} \subseteq DOMAIN r
  PROVE  /\ IsKept(r) => StepsOf(Kept(Append(q, r))) = Append(StepsOf(Kept(q)), r.steps)
         /\ ~IsKept(r) => StepsOf(Kept(Append(q, r))) = StepsOf(Kept(q))
<1> DEFINE T == S \cup {r}
<1>1. q \in Seq(T) /\ r \in T
  OBVIOUS
<1> HIDE DEF T
<1>2. Kept(q) \in Seq(T) /\ Kept(Append(q, r)) = IF IsKept(r) THEN Append(Kept(q), r) ELSE Kept(q)
  BY <1>1, KeptOneMore
<1>3. StepsOf(Append(Kept(q), r)) = Append(StepsOf(Kept(q)), r.steps)
  BY <1>1, <1>2, StepsOfOneMore
<1> QED BY <1>2, <1>3
StepsAfter(line) == IF line.step = <<>> THEN Round.steps ELSE Append(Round.steps, line.step)

LEMMA PlayingIs ==
  ASSUME PlayInv, stage = "planning"
  PROVE  /\ Rnd(Round) /\ Follows(Round) /\ Live(Round)
         /\ AllRead(output) \in Parses /\ output \in Seq(Lines)
         /\ AllRead(output).plans = StepsOf(Kept(Front(rounds)))
         /\ AllRead(output).current = Round.steps
         /\ ~AllRead(output).isPlan => world = InitWorld
<1>1. PICK S : rounds \in Seq(S) /\ \A r \in S : Rnd(r) /\ Follows(r)
  BY DEF PlayInv
<1>2. rounds # <<>> /\ output \in Seq(Lines)
  BY DEF PlayInv
<1>3. Round \in S
  BY <1>1, <1>2, Fronts DEF Round
<1>4. AllRead(output) \in Parses
  BY <1>2, LinesAre, ReadOneMore
<1> QED BY <1>1, <1>2, <1>3, <1>4 DEF PlayInv, Playing

\* The last round is replaced by r, and perhaps another one begins.
LEMMA Replaced ==
  ASSUME PlayInv, NEW r, Rnd(r), Follows(r)
  PROVE  LET q == Append(Front(rounds), r)
         IN  /\ q # <<>> /\ \E S : q \in Seq(S) /\ \A x \in S : Rnd(x) /\ Follows(x)
             /\ Front(q) = Front(rounds) /\ Last(q) = r
<1> DEFINE q == Append(Front(rounds), r)
<1>1. PICK S : rounds \in Seq(S) /\ \A x \in S : Rnd(x) /\ Follows(x)
  BY DEF PlayInv
<1>2. rounds # <<>>
  BY DEF PlayInv
<1>3. q \in Seq(S \cup {r}) /\ q # <<>>
  BY <1>1, <1>2, Noted
<1>4. \A x \in S \cup {r} : Rnd(x) /\ Follows(x)
  BY <1>1
<1>5. Front(q) = Front(rounds) /\ Last(q) = r
  BY <1>1, <1>2, Fronts
<1> HIDE DEF q
<1> DEFINE T == S \cup {r}
<1>6. q \in Seq(T) /\ \A x \in T : Rnd(x) /\ Follows(x)
  BY <1>3, <1>4
<1> HIDE DEF T
<1>7. q # <<>> /\ \E U : q \in Seq(U) /\ \A x \in U : Rnd(x) /\ Follows(x)
  BY <1>3, <1>6
<1> QED BY <1>5, <1>7 DEF q

\* A turn writes one line of the plan, and a cut session the line of its round.
LEMMA TurnPlay ==
  ASSUME PlayInv, NEW line \in Lines, NEW outcomes, Turn(line, outcomes), line.plus,
         line.letter = "s" <=> line.step # <<>>,
         ~Round.missed => Follow(StepsAfter(line), Round.tower),
         \A w \in outcomes :
           LET t == Round.tower \o SetToSeq(w.stackloc \ world.stackloc)
           IN  /\ t \in Seq(Objects)
               /\ ~(Round.missed \/ (line.step # <<>> /\ w.stackloc = world.stackloc))
                    => Builds(StepsAfter(line), t)
  PROVE  PlayInv'
<1>1. stage = "planning" /\ goal' = goal
  BY DEF Turn
<1>2. /\ Rnd(Round) /\ Follows(Round) /\ Live(Round)
      /\ AllRead(output) \in Parses /\ output \in Seq(Lines)
      /\ AllRead(output).plans = StepsOf(Kept(Front(rounds)))
      /\ AllRead(output).current = Round.steps
  BY <1>1, PlayingIs
<1>3. /\ StepsAfter(line) \in Seq(Pairs)
      /\ StepsAfter(line) = IF line.letter = "s" THEN Append(Round.steps, line.step) ELSE Round.steps
  <2>1. line.letter = "s" => line.step \in Pairs
    BY LineIs
  <2> QED BY <1>2, <2>1 DEF Rnd, StepsAfter
<1> DEFINE round == [Round EXCEPT !.steps = IF line.step = <<>> THEN @ ELSE Append(@, line.step)]
<1>4. /\ DOMAIN round = DOMAIN Round /\ round.steps = StepsAfter(line)
      /\ round.tower = Round.tower /\ round.missed = Round.missed
  BY <1>2 DEF Rnd, StepsAfter
<1>5. PICK p \in Parses : p = ReadLine(AllRead(output), line)
  BY <1>2, ReadLineType
<1>6. p.plans = StepsOf(Kept(Front(rounds))) /\ p.isPlan /\ p.current = StepsAfter(line)
  BY <1>2, <1>3, <1>5, ReadTurn
<1> HIDE DEF round
<1>7. ASSUME NEW w \in outcomes, world' = w, stage' = stage, output' = Append(output, line),
             Note([round EXCEPT !.tower = @ \o SetToSeq(w.stackloc \ world.stackloc),
                                !.missed = @ \/ (line.step # <<>> /\ w.stackloc = world.stackloc)])
      PROVE  PlayInv'
  <2> DEFINE t == Round.tower \o SetToSeq(w.stackloc \ world.stackloc)
             m == Round.missed \/ (line.step # <<>> /\ w.stackloc = world.stackloc)
  <2>1. PICK r : r = [round EXCEPT !.tower = @ \o SetToSeq(w.stackloc \ world.stackloc),
                        !.missed = @ \/ (line.step # <<>> /\ w.stackloc = world.stackloc)]
    OBVIOUS
  <2>2. r.tower = t /\ r.missed = m /\ r.steps = StepsAfter(line) /\ DOMAIN r = DOMAIN Round
    <3>1. "tower" \in DOMAIN round /\ "missed" \in DOMAIN round /\ "steps" \in DOMAIN round
      BY <1>2, <1>4 DEF Rnd
    <3> QED BY <1>4, <2>1, <3>1
  <2>3. t \in Seq(Objects) /\ m \in BOOLEAN /\ (~m => Builds(StepsAfter(line), t))
    BY <1>2 DEF Rnd
  <2> HIDE DEF t, m
  <2>4. Rnd(r) /\ Live(r) /\ Follows(r)
    BY <1>2, <1>3, <2>2, <2>3 DEF Rnd, Live, Follows, Builds
  <2>5. rounds' = Append(Front(rounds), r)
    BY <1>7, <2>1 DEF Note
  <2>6. /\ rounds' # <<>> /\ \E S : rounds' \in Seq(S) /\ \A x \in S : Rnd(x) /\ Follows(x)
        /\ Front(rounds') = Front(rounds) /\ Last(rounds') = r
    BY <2>4, <2>5, Replaced
  <2>7. output' \in Seq(Lines) /\ AllRead(output') = p
    BY <1>2, <1>5, <1>7, ReadOneMore
  <2>8. /\ AllRead(output').plans = StepsOf(Kept(Front(rounds')))
        /\ AllRead(output').current = Last(rounds').steps
        /\ AllRead(output').isPlan
        /\ Live(Last(rounds'))
    BY <1>6, <2>2, <2>4, <2>6, <2>7
  <2> QED BY <1>1, <1>7, <2>6, <2>7, <2>8 DEF PlayInv, Playing, Round
<1>8. ASSUME output' = output \o <<line, RoundLine>>, Note([round EXCEPT !.end = "cut"]),
             stage' = "parsing"
      PROVE  PlayInv'
  <2>1. PICK r : r = [round EXCEPT !.end = "cut"]
    OBVIOUS
  <2>2. /\ r.tower = Round.tower /\ r.missed = Round.missed /\ r.steps = StepsAfter(line)
        /\ r.end = "cut" /\ DOMAIN r = DOMAIN Round
    <3>1. {"tower", "missed", "steps", "end"} \subseteq DOMAIN round
      BY <1>2, <1>4 DEF Rnd
    <3> QED BY <1>4, <2>1, <3>1
  <2>3. Rnd(r) /\ Follows(r)
    BY <1>2, <1>3, <2>2 DEF Rnd, Follows
  <2>4. rounds' = Append(Front(rounds), r)
    BY <1>8, <2>1 DEF Note
  <2>5. rounds' # <<>> /\ \E S : rounds' \in Seq(S) /\ \A x \in S : Rnd(x) /\ Follows(x)
    BY <2>3, <2>4, Replaced
  <2>6. output' \in Seq(Lines) /\ AllRead(output') = ReadLine(p, RoundLine)
    BY <1>2, <1>5, <1>8, ReadTwo, LinesAre
  <2>7. AllRead(output').plans = Append(StepsOf(Kept(Front(rounds))), r.steps)
    BY <1>6, <2>2, <2>6, ReadRound
  <2>8. PICK S : Front(rounds) \in Seq(S)
    BY Fronts DEF PlayInv
  <2>9. StepsOf(Kept(rounds')) = Append(StepsOf(Kept(Front(rounds))), r.steps)
    <3>1. IsKept(r) /\ {"steps", "end"} \subseteq DOMAIN r
      BY <1>2, <2>2 DEF IsKept, Rnd
    <3> QED BY <2>4, <2>8, <3>1, KeptEnds
  <2> QED BY <1>1, <1>8, <2>5, <2>6, <2>7, <2>9 DEF PlayInv, Playing
<1> QED BY <1>7, <1>8 DEF Turn, round

LEMMA NoRoundIs ==
  Rnd(NoRound) /\ Live(NoRound) /\ Follows(NoRound) /\ NoRound.steps = <<>>
<1>1. /\ NoRound.steps = <<>> /\ NoRound.tower = <<>> /\ NoRound.missed = FALSE
      /\ {"steps", "tower", "missed", "end"} \subseteq DOMAIN NoRound
  BY DEF NoRound
<1>2. <<>> \in Seq(Pairs) /\ <<>> \in Seq(Objects) /\ Len(<<>>) = 0
  OBVIOUS
<1>3. Follow(<<>>, <<>>)
  BY <1>2 DEF Follow
<1> QED BY <1>1, <1>2, <1>3 DEF Rnd, Live, Follows, Builds

\* The end of a round writes lines from which its plan is kept or not.
LEMMA EndRoundPlay ==
  ASSUME PlayInv, NEW lines, NEW end, EndRound(lines, end),
         output \o lines \in Seq(Lines),
         AllRead(output \o lines).current = <<>>,
         AllRead(output \o lines).plans = StepsOf(Kept(Append(Front(rounds), [Round EXCEPT !.end = end])))
  PROVE  PlayInv'
<1>1. stage = "planning" /\ goal' = goal /\ output' = output \o lines
  BY DEF EndRound
<1>2. Rnd(Round) /\ Follows(Round)
  BY <1>1, PlayingIs
<1>3. PICK r : r = [Round EXCEPT !.end = end]
  OBVIOUS
<1>4. Rnd(r) /\ Follows(r)
  BY <1>2, <1>3 DEF Rnd, Follows
<1>5. PICK q : q = Append(Front(rounds), r)
  OBVIOUS
<1>6. q # <<>> /\ \E S : q \in Seq(S) /\ \A x \in S : Rnd(x) /\ Follows(x)
  BY <1>4, <1>5, Replaced
<1>7. CASE rounds' = Append(q, NoRound) /\ world' = InitWorld /\ stage' = stage
  <2>1. PICK S : q \in Seq(S) /\ \A x \in S : Rnd(x) /\ Follows(x)
    BY <1>6
  <2>2. Rnd(NoRound) /\ Live(NoRound) /\ Follows(NoRound) /\ NoRound.steps = <<>>
    BY NoRoundIs
  <2> DEFINE T == S \cup {NoRound}
  <2>3. q \in Seq(T) /\ NoRound \in T /\ \A x \in T : Rnd(x) /\ Follows(x)
    BY <2>1, <2>2
  <2> HIDE DEF T
  <2>4. rounds' \in Seq(T) /\ rounds' # <<>> /\ Last(rounds') = NoRound /\ Front(rounds') = q
    <3>1. /\ rounds' \in Seq(T) /\ Len(q) \in Nat /\ Len(rounds') = Len(q) + 1
          /\ rounds'[Len(q) + 1] = NoRound /\ \A i \in 1..Len(q) : rounds'[i] = q[i]
          /\ q = [i \in 1..Len(q) |-> q[i]]
      BY <1>7, <2>3
    <3>2. Front(rounds') = [i \in 1..Len(q) |-> rounds'[i]]
      BY <3>1 DEF Front
    <3> QED BY <3>1, <3>2 DEF Last
  <2>5. /\ AllRead(output').plans = StepsOf(Kept(Front(rounds')))
        /\ AllRead(output').current = Last(rounds').steps
        /\ Live(Last(rounds'))
    BY <1>1, <1>3, <1>5, <2>2, <2>4
  <2> QED BY <1>1, <1>7, <2>3, <2>4, <2>5 DEF PlayInv, Playing, Round
<1>8. CASE rounds' = q /\ stage' = "parsing"
  BY <1>1, <1>3, <1>5, <1>6, <1>8 DEF PlayInv, Playing
<1> QED BY <1>3, <1>5, <1>7, <1>8 DEF EndRound, Note
LEMMA FollowOne ==
  ASSUME NEW s \in Seq(Pairs), NEW t \in Seq(Objects), t # <<>>, Builds(s, t), NEW a \in Objects
  PROVE  /\ Follow(Append(s, <<Last(t), a>>), t)
         /\ Builds(Append(s, <<Last(t), a>>), t \o <<a>>)
<1> DEFINE x == <<Last(t), a>>
           u == Append(s, x)
           v == t \o <<a>>
<1>1. /\ Len(s) \in Nat /\ Len(t) \in Nat /\ Len(t) = Len(s) + 1
      /\ Follow(s, t) /\ Last(t) = t[Len(t)] /\ x[1] = t[Len(t)] /\ x[2] = a
  BY DEF Builds, Last
<1>2. /\ \A k \in 1..Len(s) : s[k] \in Pairs
      /\ Len(t) \in 1..Len(t) /\ t[Len(t)] \in Objects
  BY <1>1
<1>3. x \in Pairs
  BY <1>1, <1>2 DEF Pairs
<1> HIDE DEF x
<1>4. Len(u) = Len(s) + 1 /\ u[Len(s) + 1] = x /\ \A k \in 1..Len(s) : u[k] = s[k]
  BY <1>3
<1>5. Len(v) = Len(t) + 1 /\ v[Len(t) + 1] = a /\ \A k \in 1..Len(t) : v[k] = t[k]
  OBVIOUS
<1> HIDE DEF u, v
<1>6. ASSUME NEW k \in 1..Len(u)
      PROVE  /\ k <= Len(t) /\ u[k][1] = t[k] /\ (k < Len(t) => u[k][2] = t[k + 1])
  <2>1. CASE k \in 1..Len(s)
    BY <1>1, <1>4, <2>1 DEF Follow
  <2>2. CASE k = Len(s) + 1
    BY <1>1, <1>4, <2>2
  <2> QED BY <1>1, <1>4, <2>1, <2>2
<1>7. ASSUME NEW k \in 1..Len(u)
      PROVE  /\ k <= Len(v) /\ u[k][1] = v[k] /\ (k < Len(v) => u[k][2] = v[k + 1])
  <2>1. k \in 1..Len(t) /\ u[k][1] = v[k]
    BY <1>1, <1>4, <1>5, <1>6
  <2>2. CASE k < Len(t)
    BY <1>1, <1>5, <1>6, <2>1, <2>2
  <2>3. CASE k = Len(t)
    BY <1>1, <1>4, <1>5, <2>1, <2>3
  <2> QED BY <1>1, <1>5, <2>1, <2>2, <2>3
<1>8. Follow(u, t) /\ Follow(u, v) /\ Len(v) = Len(u) + 1
  BY <1>1, <1>4, <1>5, <1>6, <1>7 DEF Follow
<1> QED BY <1>8 DEF u, v, x, Builds

LEMMA StackPlay ==
  ASSUME Sound(world), TopInv, PlayInv,
         NEW b \in Objects, NEW a \in Objects, NEW i \in 1..Len(code), StackOn(i, b, a)
  PROVE  PlayInv'
<1> DEFINE line == StackLine(b, a)
<1>1. /\ stage = "planning" /\ b \in world.stackloc /\ a \in world.pickloc /\ a # b
      /\ Turn(line, StackOutcomes(code[i], b, a))
  BY DEF StackOn, StackEnabled, Turn
<1>2. line \in Lines /\ line.plus /\ line.letter = "s" /\ line.step = <<b, a>> /\ line.step # <<>>
  <2>1. line \in Lines
    BY DEF Lines
  <2>2. <<b, a>> # <<>>
    OBVIOUS
  <2> QED BY <2>1, <2>2 DEF StackLine
<1>3. Rnd(Round) /\ Follows(Round) /\ Live(Round) /\ Tops(world, Round.tower) /\ world \in Worlds
  BY <1>1, PlayingIs DEF TopInv, Sound
<1>4. /\ Round.tower # <<>> /\ world.stackloc = {b} /\ b = Last(Round.tower)
      /\ Round.tower \in Seq(Objects) /\ Round.steps \in Seq(Pairs) /\ Round.missed \in BOOLEAN
  BY <1>1, <1>3 DEF Tops, Rnd
<1>5. StepsAfter(line) = Append(Round.steps, <<b, a>>)
  BY <1>2 DEF StepsAfter
<1>6. ~Round.missed => /\ Follow(StepsAfter(line), Round.tower)
                       /\ Builds(StepsAfter(line), Round.tower \o <<a>>)
  BY <1>3, <1>4, <1>5, FollowOne DEF Live
<1>7. ASSUME NEW w \in StackOutcomes(code[i], b, a)
      PROVE  LET t == Round.tower \o SetToSeq(w.stackloc \ world.stackloc)
             IN  /\ t \in Seq(Objects)
                 /\ ~(Round.missed \/ (line.step # <<>> /\ w.stackloc = world.stackloc))
                      => Builds(StepsAfter(line), t)
  <2>1. w \in {Placed(b, a, TRUE), Placed(b, a, FALSE), Missed(a)}
    BY DEF StackOutcomes
  <2>2. CASE w \in {Placed(b, a, TRUE), Placed(b, a, FALSE)}
    <3>1. w.stackloc = (world.stackloc \ {b}) \cup {a}
      BY <1>3, <2>2 DEF Placed, Worlds
    <3>2. w.stackloc \ world.stackloc = {a}
      BY <1>1, <1>4, <3>1
    <3>3. SetToSeq(w.stackloc \ world.stackloc) = <<a>>
      BY <3>2, OneToSeq
    <3>4. Round.tower \o <<a>> \in Seq(Objects)
      BY <1>4
    <3> HIDE DEF line
    <3> QED BY <1>6, <3>3, <3>4
  <2>3. CASE w = Missed(a)
    <3>1. w.stackloc = world.stackloc
      BY <1>3, <2>3 DEF Missed, Worlds
    <3>2. w.stackloc \ world.stackloc = {}
      BY <3>1
    <3>3. Round.tower \o SetToSeq(w.stackloc \ world.stackloc) = Round.tower
      BY <1>4, <3>2, TowerStays
    <3> HIDE DEF line
    <3> QED BY <1>2, <1>4, <3>1, <3>3
  <2> QED BY <2>1, <2>2, <2>3
<1> HIDE DEF line
<1> QED BY <1>1, <1>2, <1>6, <1>7, TurnPlay

LEMMA OtherIs ==
  /\ OtherLine \in Lines /\ OtherLine.plus /\ OtherLine.letter # "s" /\ OtherLine.step = <<>>
  /\ StepsAfter(OtherLine) = Round.steps
<1>1. OtherLine.plus /\ OtherLine.letter # "s" /\ OtherLine.step = <<>>
  BY DEF OtherLine
<1> QED BY <1>1, LinesAre DEF StepsAfter

LEMMA CountPlay ==
  ASSUME Sound(world), TopInv, PlayInv, NEW i \in 0..Levels - 1, IncreaseHeight(i) \/ IncreaseStack(i)
  PROVE  PlayInv'
<1>1. PICK w, outcomes : /\ w \in {HeightIncreased(i), StackIncreased(i)} /\ outcomes = {w}
                         /\ Turn(OtherLine, outcomes) /\ stage = "planning"
  BY DEF IncreaseHeight, IncreaseStack, Turn
<1>2. Rnd(Round) /\ Live(Round) /\ world \in Worlds
  BY <1>1, PlayingIs DEF Sound
<1>3. w.stackloc = world.stackloc
  BY <1>1, <1>2 DEF HeightIncreased, StackIncreased, Worlds
<1>4. Round.tower \o SetToSeq(w.stackloc \ world.stackloc) = Round.tower
  <2>1. w.stackloc \ world.stackloc = {}
    BY <1>3
  <2> QED BY <1>2, <2>1, TowerStays DEF Rnd
<1>5. ~Round.missed => Builds(Round.steps, Round.tower) /\ Follow(Round.steps, Round.tower)
  BY <1>2 DEF Live, Builds
<1>6. Round.tower \in Seq(Objects) /\ Round.missed \in BOOLEAN
  BY <1>2 DEF Rnd
<1>7. \A v \in outcomes :
        LET t == Round.tower \o SetToSeq(v.stackloc \ world.stackloc)
        IN  /\ t \in Seq(Objects)
            /\ ~(Round.missed \/ (OtherLine.step # <<>> /\ v.stackloc = world.stackloc))
                 => Builds(StepsAfter(OtherLine), t)
  BY <1>1, <1>4, <1>5, <1>6, OtherIs
<1>8. /\ OtherLine \in Lines /\ OtherLine.plus
      /\ OtherLine.letter = "s" <=> OtherLine.step # <<>>
      /\ ~Round.missed => Follow(StepsAfter(OtherLine), Round.tower)
  BY <1>5, OtherIs
<1> QED BY <1>1, <1>7, <1>8, TurnPlay

LEMMA BasePlay ==
  ASSUME Sound(world), TopInv, PlayInv, NEW o \in Objects, MakeBase(o)
  PROVE  PlayInv'
<1> DEFINE w == BaseMade(o)
<1>1. /\ stage = "planning" /\ world.stackloc = {} /\ Turn(OtherLine, {w}) /\ world \in Worlds
  BY DEF MakeBase, Turn, Sound
<1>2. Rnd(Round) /\ Live(Round) /\ Tops(world, Round.tower)
  BY <1>1, PlayingIs DEF TopInv
<1>3. w.stackloc = world.stackloc \cup {o}
  BY <1>1 DEF BaseMade, Worlds
<1> HIDE DEF w
<1>4. w.stackloc \ world.stackloc = {o}
  BY <1>1, <1>3
<1>5. Round.tower = <<>> /\ Round.steps \in Seq(Pairs) /\ Round.missed \in BOOLEAN
  BY <1>1, <1>2 DEF Rnd, Tops
<1>6. Round.tower \o SetToSeq(w.stackloc \ world.stackloc) = <<o>> /\ <<o>> \in Seq(Objects)
  <2>1. <<>> \o <<o>> = <<o>> /\ <<o>> \in Seq(Objects)
    OBVIOUS
  <2> QED BY <1>4, <1>5, <2>1, OneToSeq
<1>7. ~Round.missed => Round.steps = <<>>
  <2>1. Len(<<>>) # Len(Round.steps) + 1
    BY <1>5
  <2> QED BY <1>2, <1>5, <2>1 DEF Live, Builds
<1>8. ~Round.missed => Follow(Round.steps, Round.tower) /\ Builds(Round.steps, <<o>>)
  <2>1. Follow(<<>>, <<>>) /\ Follow(<<>>, <<o>>) /\ Len(<<o>>) = Len(<<>>) + 1
    BY DEF Follow
  <2>2. Builds(<<>>, <<o>>)
    BY <2>1 DEF Builds
  <2> QED BY <1>5, <1>7, <2>1, <2>2
<1>9. \A v \in {w} :
        LET t == Round.tower \o SetToSeq(v.stackloc \ world.stackloc)
        IN  /\ t \in Seq(Objects)
            /\ ~(Round.missed \/ (OtherLine.step # <<>> /\ v.stackloc = world.stackloc))
                 => Builds(StepsAfter(OtherLine), t)
  BY <1>5, <1>6, <1>8, OtherIs
<1> QED BY <1>1, <1>8, <1>9, OtherIs, TurnPlay

\* A round that reaches the goal has had a line: the goal is not reached at the outset.
LEMMA GoalPlay == ASSUME PlayInv, GoalReached PROVE PlayInv'
<1> DEFINE p == AllRead(output)
<1>1. stage = "planning" /\ Reached /\ EndRound(<<RoundLine, RoundLine>>, "goal")
  BY DEF GoalReached, EndRound
<1>2. /\ p \in Parses /\ output \in Seq(Lines) /\ Rnd(Round)
      /\ p.plans = StepsOf(Kept(Front(rounds))) /\ p.current = Round.steps
      /\ ~p.isPlan => world = InitWorld
  BY <1>1, PlayingIs
<1>3. p.isPlan
  <2>1. goal \in (0..Levels) \X (0..Levels) /\ goal # <<0, 0>>
    BY StackingAssumption DEF PlayInv
  <2>2. world = InitWorld => world.H = {0} /\ world.S = {0}
    BY DEF InitWorld
  <2> HIDE DEF p
  <2> QED BY <1>1, <1>2, <2>1, <2>2 DEF Reached
<1> HIDE DEF p
<1>4. output \o <<RoundLine, RoundLine>> \in Seq(Lines)
      /\ AllRead(output \o <<RoundLine, RoundLine>>) = ReadLine(ReadLine(p, RoundLine), RoundLine)
  BY <1>2, ReadTwo, LinesAre DEF p
<1>5. PICK u \in Parses : u = ReadLine(p, RoundLine)
  BY <1>2, ReadLineType, LinesAre
<1>6. u.plans = Append(p.plans, p.current) /\ u.current = <<>> /\ ReadLine(u, RoundLine) = u
  BY <1>2, <1>3, <1>5, ReadRound
<1>7. PICK r : r = [Round EXCEPT !.end = "goal"]
  OBVIOUS
<1>8. IsKept(r) /\ {"steps", "end"} \subseteq DOMAIN r /\ r.steps = Round.steps
  BY <1>2, <1>7 DEF Rnd, IsKept
<1>9. PICK S : Front(rounds) \in Seq(S)
  BY Fronts DEF PlayInv
<1>10. StepsOf(Kept(Append(Front(rounds), r))) = Append(StepsOf(Kept(Front(rounds))), Round.steps)
  BY <1>8, <1>9, KeptEnds
<1> QED BY <1>1, <1>2, <1>4, <1>5, <1>6, <1>7, <1>10, EndRoundPlay

LEMMA DeadEndPlay == ASSUME PlayInv, DeadEnd PROVE PlayInv'
<1> DEFINE p == AllRead(output)
           lines == <<DoneLine, ClientLine, RoundLine>>
<1>1. stage = "planning" /\ EndRound(lines, "dead end")
  BY DEF DeadEnd, EndRound
<1>2. /\ p \in Parses /\ output \in Seq(Lines) /\ Rnd(Round)
      /\ p.plans = StepsOf(Kept(Front(rounds)))
  BY <1>1, PlayingIs
<1> HIDE DEF p
<1>3. DoneLine \in Lines /\ ClientLine \in Lines /\ RoundLine \in Lines
  BY LinesAre
<1>4. output \o <<DoneLine, ClientLine>> \in Seq(Lines)
      /\ AllRead(output \o <<DoneLine, ClientLine>>) = ReadLine(ReadLine(p, DoneLine), ClientLine)
  BY <1>2, <1>3, ReadTwo DEF p
<1>5. output \o lines = Append(output \o <<DoneLine, ClientLine>>, RoundLine)
  BY <1>2, <1>3
<1> HIDE DEF lines
<1>6. output \o lines \in Seq(Lines)
      /\ AllRead(output \o lines) = ReadLine(ReadLine(ReadLine(p, DoneLine), ClientLine), RoundLine)
  <2>1. PICK q \in Seq(Lines) : q = output \o <<DoneLine, ClientLine>>
    BY <1>4
  <2>2. Append(q, RoundLine) \in Seq(Lines) /\ AllRead(Append(q, RoundLine)) = ReadLine(AllRead(q), RoundLine)
    BY <1>3, ReadOneMore
  <2> QED BY <1>4, <1>5, <2>1, <2>2
<1>7. PICK u \in Parses : u = ReadLine(p, DoneLine)
  BY <1>2, <1>3, ReadLineType
<1>8. u.plans = p.plans /\ u.isPlan
  <2>1. DoneLine.plus
    BY DEF DoneLine
  <2> QED BY <1>2, <1>3, <1>7, <2>1, ReadTurn
<1>9. PICK v \in Parses : v = ReadLine(u, ClientLine)
  BY <1>3, ReadLineType
<1>10. v.plans = p.plans /\ v.current = <<>> /\ ReadLine(v, RoundLine) = v
  BY <1>8, <1>9, ReadClient, ReadRound
<1>11. PICK r : r = [Round EXCEPT !.end = "dead end"]
  OBVIOUS
<1>12. ~IsKept(r) /\ {"steps", "end"} \subseteq DOMAIN r
  BY <1>2, <1>11 DEF Rnd, IsKept
<1>13. PICK S : Front(rounds) \in Seq(S)
  BY Fronts DEF PlayInv
<1>14. StepsOf(Kept(Append(Front(rounds), r))) = StepsOf(Kept(Front(rounds)))
  BY <1>12, <1>13, KeptEnds
<1> QED BY <1>1, <1>2, <1>6, <1>7, <1>9, <1>10, <1>11, <1>14, EndRoundPlay
LEMMA StepPlay == ASSUME Sound(world), TopInv, PlayInv, [Next]_vars PROVE PlayInv'
<1>1. CASE Play
  BY <1>1, StackPlay, CountPlay, BasePlay, GoalPlay, DeadEndPlay DEF Play
<1>2. CASE ParsePlan
  <2>1. /\ stage = "parsing" /\ stage' = "executing" /\ goal' = goal
        /\ UNCHANGED <<world, output, rounds>> /\ plans' = AllRead(output).plans
    BY <1>2 DEF ParsePlan, simVars
  <2> QED BY <2>1 DEF PlayInv, Playing
<1>3. CASE Learn \/ Execute \/ UNCHANGED vars
  <2>1. /\ UNCHANGED <<goal, world, output, rounds, plans>>
        /\ \/ stage \in {"learning", "planning"} /\ stage' \in {"learning", "planning"}
           \/ stage \in {"executing"} /\ stage' \in {"executing", "done", "failed"}
           \/ stage' = stage
    BY <1>3 DEF Learn, Execute, ExecuteStep, ExecuteNotFound, ExecuteEnds, vars, simVars, execVars
  <2> QED BY <2>1 DEF PlayInv, Playing, Round
<1> QED BY <1>1, <1>2, <1>3 DEF Next

LEMMA InitPlay == Init => PlayInv
<1> SUFFICES ASSUME Init PROVE PlayInv
  OBVIOUS
<1>1. goal \in Goals /\ stage = "learning" /\ world = InitWorld /\ output = <<>> /\ rounds = <<NoRound>>
  BY DEF Init
<1>2. output \in Seq(Lines) /\ Len(output) = 0
  BY <1>1
<1>3. AllRead(output) = Parsed
  <2>1. PICK f \in [0..Len(output) -> Parses] : Read(f, output)
    BY <1>2, ReadExists
  <2>2. f[0] = Parsed
    BY <1>2, <2>1 DEF Read
  <2> QED BY <1>2, <2>1, <2>2, ReadIs
<1>4. /\ Front(rounds) = <<>> /\ Last(rounds) = NoRound
      /\ rounds # <<>> /\ rounds \in Seq({NoRound})
  BY <1>1 DEF Front, Last
<1>5. StepsOf(Kept(<<>>)) = <<>>
  <2>1. <<>> \in Seq({}) /\ Len(<<>>) = 0
    OBVIOUS
  <2>2. PICK f \in [0..Len(<<>>) -> Seq({})] : Keeps(f, <<>>)
    BY <2>1, KeepsExists
  <2>3. f[0] = <<>>
    BY <2>1, <2>2 DEF Keeps
  <2>4. Kept(<<>>) = <<>>
    BY <2>1, <2>2, <2>3, KeptIs
  <2> QED BY <2>4 DEF StepsOf
<1>6. Parsed.plans = <<>> /\ Parsed.current = <<>>
  BY DEF Parsed
<1>7. \E S : rounds \in Seq(S) /\ \A r \in S : Rnd(r) /\ Follows(r)
  BY <1>4, NoRoundIs
<1> QED BY <1>1, <1>2, <1>3, <1>4, <1>5, <1>6, <1>7, NoRoundIs DEF PlayInv, Playing, Round

\* parse_plan.py finds in the stream of lines the rounds that were played: those that
\* reached the goal or were cut off, in their order, however many rounds there are and
\* whatever happens in them.
THEOREM PlansAreThoseOfRounds == Spec => []PlansAreRounds
<1>1. Init => Sound(world) /\ TopInv /\ PlayInv
  BY InitPlay, InitSound, InitTopInv DEF Init
<1>2. Sound(world) /\ TopInv /\ PlayInv /\ [Next]_vars => (Sound(world) /\ TopInv /\ PlayInv)'
  BY StepSound, StepTops, StepPlay DEF Sound, Counts
<1>3. PlayInv => PlansAreRounds
  BY DEF PlayInv, PlansAreRounds
<1> QED BY <1>1, <1>2, <1>3, PTL DEF Spec
-----------------------------------------------------------------------------
(* The arm.  The sizes of a tower add up object by object.                  *)

Sizes(f, t, k) == f = [n \in 0..k |-> IF n = 0 THEN 0 ELSE f[n - 1] + Size[t[n]]]

LEMMA SizesExist ==
  ASSUME NEW t \in Seq(Objects), NEW k \in 0..Len(t)
  PROVE  \E f \in [0..k -> Nat] : Sizes(f, t, k)
<1> DEFINE F == [p \in (1..k) \X Nat |-> p[2] + Size[t[p[1]]]]
<1>1. k \in Nat /\ \A i \in 1..k : t[i] \in Objects
  OBVIOUS
<1>2. \A i \in 1..k : Size[t[i]] \in Nat
  BY <1>1, StackingAssumption
<1>3. F \in Steps(k, Nat)
  BY <1>2 DEF Steps
<1>4. PICK f : f \in Traces(k, Nat, 0, F)
  <2>1. 0 \in Nat
    OBVIOUS
  <2> HIDE DEF F
  <2> QED BY <1>1, <1>3, <2>1, RecursionExists
<1>5. f \in [0..k -> Nat] /\ f[0] = 0 /\ \A i \in 1..k : f[i] = F[<<i, f[i - 1]>>]
  BY <1>4 DEF Traces
<1>6. ASSUME NEW i \in 0..k PROVE f[i] = IF i = 0 THEN 0 ELSE f[i - 1] + Size[t[i]]
  <2>1. CASE i = 0
    BY <1>5, <2>1
  <2>2. CASE i # 0
    <3>1. i \in 1..k /\ f[i - 1] \in Nat
      BY <1>1, <1>5, <2>2
    <3>2. f[i] = F[<<i, f[i - 1]>>]
      BY <1>5, <3>1
    <3>3. F[<<i, f[i - 1]>>] = f[i - 1] + Size[t[i]]
      BY <3>1
    <3> QED BY <2>2, <3>2, <3>3
  <2> QED BY <2>1, <2>2
<1>7. f = [i \in 0..k |-> f[i]]
  BY <1>5
<1>8. Sizes(f, t, k)
  BY <1>6, <1>7 DEF Sizes
<1> QED BY <1>5, <1>8

LEMMA SizeIs ==
  ASSUME NEW t, NEW k \in Nat, NEW f, Sizes(f, t, k) PROVE SizeOf(t, k) = f[k]
<1> DEFINE g == CHOOSE h : Sizes(h, t, k)
           T == {i \in 0..k : g[i] = f[i]}
<1>1. SizeOf(t, k) = g[k]
  BY DEF SizeOf, Sizes
<1>2. Sizes(g, t, k)
  OBVIOUS
<1> HIDE DEF g
<1>3. ASSUME NEW i \in 0..k
      PROVE  /\ g[i] = IF i = 0 THEN 0 ELSE g[i - 1] + Size[t[i]]
             /\ f[i] = IF i = 0 THEN 0 ELSE f[i - 1] + Size[t[i]]
  BY <1>2 DEF Sizes
<1>4. 0 \in T
  BY <1>3
<1>5. ASSUME NEW i \in 1..k, i - 1 \in T PROVE i \in T
  BY <1>3, <1>5
<1>6. 0..k \subseteq T
  <2> HIDE DEF T
  <2> QED BY <1>4, <1>5, UpTo
<1> QED BY <1>1, <1>6

LEMMA SizeOneMore ==
  ASSUME NEW t \in Seq(Objects), NEW k \in Nat, k < Len(t)
  PROVE  SizeOf(t, k) \in Nat /\ SizeOf(t, k + 1) = SizeOf(t, k) + Size[t[k + 1]]
<1>1. k + 1 \in 0..Len(t) /\ k \in 0..(k + 1) /\ k + 1 \in Nat
  OBVIOUS
<1>2. PICK f \in [0..(k + 1) -> Nat] : Sizes(f, t, k + 1)
  BY <1>1, SizesExist
<1> DEFINE h == [i \in 0..k |-> f[i]]
<1>3. ASSUME NEW i \in 0..(k + 1) PROVE f[i] = IF i = 0 THEN 0 ELSE f[i - 1] + Size[t[i]]
  BY <1>2 DEF Sizes
<1>4. ASSUME NEW i \in 0..k PROVE h[i] = IF i = 0 THEN 0 ELSE h[i - 1] + Size[t[i]]
  <2>1. i \in 0..(k + 1) /\ (i # 0 => i - 1 \in 0..k)
    OBVIOUS
  <2> QED BY <1>3, <2>1
<1>5. Sizes(h, t, k)
  <2>1. h = [i \in 0..k |-> h[i]]
    OBVIOUS
  <2> HIDE DEF h
  <2> QED BY <1>4, <2>1 DEF Sizes
<1>6. SizeOf(t, k) = h[k]
  <2> HIDE DEF h
  <2> QED BY <1>5, SizeIs
<1>7. SizeOf(t, k + 1) = f[k + 1]
  BY <1>1, <1>2, SizeIs
<1>8. f[k + 1] = f[k] + Size[t[k + 1]] /\ f[k] \in Nat
  <2>1. k + 1 \in 0..(k + 1) /\ k + 1 # 0 /\ (k + 1) - 1 = k
    BY <1>1
  <2> QED BY <1>1, <1>2, <1>3, <2>1
<1> QED BY <1>1, <1>6, <1>7, <1>8

LEMMA SizeOfNone == ASSUME NEW t \in Seq(Objects) PROVE SizeOf(t, 0) = 0
<1>1. 0 \in 0..Len(t)
  OBVIOUS
<1>2. PICK f \in [0..0 -> Nat] : Sizes(f, t, 0)
  BY <1>1, SizesExist
<1>3. 0 \in Nat /\ 0 \in 0..0
  OBVIOUS
<1>4. f[0] = 0
  BY <1>2, <1>3 DEF Sizes
<1> QED BY <1>2, <1>3, <1>4, SizeIs

\* The plan executed is what was played in the first of the rounds kept.
First == Kept(rounds)[1]

LEMMA FirstIs ==
  ASSUME PlayInv, stage \in {"executing", "done", "failed"} \/ stage = "parsing",
         NEW q, q = StepsOf(Kept(rounds)), q # <<>>
  PROVE  q[1] = First.steps /\ Rnd(First) /\ Follows(First)
<1>1. PICK S : rounds \in Seq(S) /\ \A r \in S : Rnd(r) /\ Follows(r)
  BY DEF PlayInv
<1>2. rounds # <<>>
  BY DEF PlayInv
<1>3. Kept(rounds) \in Seq(S)
  <2>1. Last(rounds) \in S
    BY <1>1, <1>2, Fronts
  <2> QED BY <1>1, <2>1, KeptOneMore
<1> DEFINE kept == Kept(rounds)
<1>4. Len(kept) \in Nat /\ \A k \in 1..Len(kept) : kept[k] \in S
  BY <1>3
<1> HIDE DEF kept
<1>5. q = [k \in 1..Len(kept) |-> kept[k].steps]
  BY DEF StepsOf, kept
<1>6. Len(kept) # 0
  BY <1>5
<1>7. 1 \in 1..Len(kept)
  BY <1>4, <1>6
<1> QED BY <1>1, <1>4, <1>5, <1>7 DEF First, kept

Arms == [level : Nat, placed : Seq(Objects), locs : [Objects -> Objects]]
NoArm == [level |-> 0, placed |-> <<>>, locs |-> [o \in Objects |-> o]]

\* What has been placed is what the plan said, on the tower of the round.
Stands(tower) ==
  /\ arm.level = SizeOf(tower, Len(arm.placed))
  /\ tower # <<>> => arm.locs[tower[1]] = tower[1]
  /\ \A k \in 1..Len(arm.placed) : arm.locs[arm.placed[k]] = tower[1]

ArmInv ==
  /\ stage \in {"executing", "done", "failed"} \/ (arm = NoArm /\ plans = <<>>)
  /\ plans # <<>> =>
       /\ arm \in Arms /\ Len(arm.placed) <= Len(plans[1])
       /\ steps = SubSeq(plans[1], Len(arm.placed) + 1, Len(plans[1]))
       /\ \A k \in 1..Len(arm.placed) : arm.placed[k] = plans[1][k][2]
       /\ ~First.missed => Stands(First.tower)
LEMMA InitArm == Init => ArmInv
  BY DEF Init, ArmInv, NoArm

\* The first step is on the first of the tower, every other on what the step before put
\* there.
LEMMA ArmStep ==
  ASSUME PlayInv, ArmInv, ExecuteStep, plans # <<>>
  PROVE  ArmInv'
<1>1. /\ stage = "executing" /\ stage' = stage /\ steps # <<>> /\ steps' = Tail(steps)
      /\ UNCHANGED <<rounds, plans>>
      /\ arm' = [level  |-> arm.level + Size[Head(steps)[1]],
                 placed |-> Append(arm.placed, Head(steps)[2]),
                 locs   |-> [arm.locs EXCEPT ![Head(steps)[2]] = arm.locs[Head(steps)[1]]]]
  BY DEF ExecuteStep, simVars
<1>2. plans[1] = First.steps /\ Rnd(First) /\ Follows(First)
  BY <1>1, FirstIs DEF PlayInv
<1>3. PICK plan \in Seq(Pairs) : plan = plans[1]
  BY <1>2 DEF Rnd
<1>4. PICK tower \in Seq(Objects) : tower = First.tower
  BY <1>2 DEF Rnd
<1>5. PICK n \in Nat : n = Len(arm.placed)
  BY DEF ArmInv, Arms
<1>6. /\ arm \in Arms /\ n <= Len(plan) /\ steps = SubSeq(plan, n + 1, Len(plan))
      /\ \A k \in 1..n : arm.placed[k] = plan[k][2]
      /\ ~First.missed => Stands(tower)
  BY <1>3, <1>4, <1>5 DEF ArmInv
<1>7. n < Len(plan)
  BY <1>1, <1>6
<1>8. /\ Head(steps) = plan[n + 1] /\ Tail(steps) = SubSeq(plan, n + 2, Len(plan))
      /\ plan[n + 1] \in Pairs
  BY <1>6, <1>7
<1>9. PICK base \in Objects, target \in Objects : plan[n + 1] = <<base, target>>
  BY <1>8 DEF Pairs
<1>10. Head(steps)[1] = base /\ Head(steps)[2] = target
  BY <1>8, <1>9
<1>11. /\ arm.level \in Nat /\ arm.placed \in Seq(Objects) /\ arm.locs \in [Objects -> Objects]
       /\ Size[base] \in Nat
  BY <1>6, StackingAssumption DEF Arms
<1>12. /\ arm'.level = arm.level + Size[base]
       /\ arm'.placed = Append(arm.placed, target)
       /\ arm'.locs = [arm.locs EXCEPT ![target] = arm.locs[base]]
       /\ arm' \in Arms
  <2>1. arm' = [level  |-> arm.level + Size[base],
                placed |-> Append(arm.placed, target),
                locs   |-> [arm.locs EXCEPT ![target] = arm.locs[base]]]
    BY <1>1, <1>10
  <2>2. /\ arm.level + Size[base] \in Nat /\ Append(arm.placed, target) \in Seq(Objects)
        /\ [arm.locs EXCEPT ![target] = arm.locs[base]] \in [Objects -> Objects]
    BY <1>11
  <2> QED BY <2>1, <2>2 DEF Arms
<1>13. /\ Len(arm'.placed) = n + 1 /\ arm'.placed[n + 1] = target
       /\ \A k \in 1..n : arm'.placed[k] = arm.placed[k] /\ arm.placed[k] \in Objects
  BY <1>5, <1>11, <1>12
<1>14. \A k \in 1..(n + 1) : arm'.placed[k] = plan[k][2]
  <2> SUFFICES ASSUME NEW k \in 1..(n + 1) PROVE arm'.placed[k] = plan[k][2]
    OBVIOUS
  <2>1. CASE k = n + 1
    BY <1>9, <1>13, <2>1
  <2>2. CASE k \in 1..n
    BY <1>6, <1>13, <2>2
  <2> QED BY <2>1, <2>2
<1>15. ASSUME ~First.missed
       PROVE  /\ arm'.level = SizeOf(tower, n + 1)
              /\ tower # <<>> => arm'.locs[tower[1]] = tower[1]
              /\ \A k \in 1..(n + 1) : arm'.locs[arm'.placed[k]] = tower[1]
  <2>1. Follow(plan, tower) /\ Stands(tower)
    BY <1>2, <1>3, <1>4, <1>6, <1>15 DEF Follows
  <2>2. n + 1 <= Len(tower) /\ base = tower[n + 1] /\ tower # <<>> /\ tower[1] \in Objects
    <3>1. n + 1 \in 1..Len(plan)
      BY <1>7
    <3>2. n + 1 <= Len(tower) /\ plan[n + 1][1] = tower[n + 1]
      BY <2>1, <3>1 DEF Follow
    <3> QED BY <1>9, <3>2
  <2>3. arm.locs[base] = tower[1]
    <3>1. CASE n = 0
      BY <2>1, <2>2, <3>1 DEF Stands
    <3>2. CASE n # 0
      <4>1. n \in 1..Len(plan) /\ n < Len(tower) /\ n \in 1..n
        BY <1>7, <2>2, <3>2
      <4>2. arm.placed[n] = tower[n + 1]
        BY <1>6, <2>1, <4>1 DEF Follow
      <4> QED BY <1>5, <2>1, <2>2, <4>1, <4>2 DEF Stands
    <3> QED BY <3>1, <3>2
  <2>4. \A o \in Objects : arm'.locs[o] = IF o = target THEN tower[1] ELSE arm.locs[o]
    BY <1>11, <1>12, <2>3
  <2>5. arm'.level = SizeOf(tower, n + 1)
    BY <1>5, <1>12, <2>1, <2>2, SizeOneMore DEF Stands
  <2>6. arm'.locs[tower[1]] = tower[1]
    BY <2>1, <2>2, <2>4 DEF Stands
  <2>7. ASSUME NEW k \in 1..(n + 1) PROVE arm'.locs[arm'.placed[k]] = tower[1]
    <3>1. CASE k = n + 1
      BY <1>13, <2>4, <3>1
    <3>2. CASE k \in 1..n
      <4>1. arm'.placed[k] = arm.placed[k] /\ arm.placed[k] \in Objects
        BY <1>13, <3>2
      <4>2. arm.locs[arm.placed[k]] = tower[1]
        BY <1>5, <2>1, <3>2 DEF Stands
      <4> QED BY <2>4, <4>1, <4>2
    <3> QED BY <3>1, <3>2
  <2> QED BY <2>5, <2>6, <2>7
<1>16. ~First'.missed => Stands(tower)'
  BY <1>1, <1>13, <1>15 DEF Stands, First
<1>17. /\ First' = First /\ plans'[1] = plan /\ stage' \in {"executing", "done", "failed"}
  BY <1>1, <1>3 DEF First
<1>18. /\ Len(arm'.placed) <= Len(plan) /\ steps' = SubSeq(plan, Len(arm'.placed) + 1, Len(plan))
  <2>1. Len(plan) \in Nat /\ n + 1 <= Len(plan) /\ (n + 1) + 1 = n + 2
    BY <1>7
  <2> QED BY <1>1, <1>8, <1>13, <2>1
<1> QED BY <1>4, <1>12, <1>13, <1>14, <1>16, <1>17, <1>18 DEF ArmInv

LEMMA ParseArm == ASSUME PlayInv, ArmInv, ParsePlan PROVE ArmInv'
<1>1. /\ stage = "parsing" /\ stage' = "executing" /\ UNCHANGED <<rounds, arm>>
      /\ plans' = AllRead(output).plans
      /\ plans' # <<>> => steps' = plans'[1]
      /\ arm = NoArm
  BY DEF ParsePlan, simVars, ArmInv
<1>2. plans' = StepsOf(Kept(rounds))
  BY <1>1 DEF PlayInv
<1>3. ASSUME plans' # <<>>
      PROVE  /\ arm \in Arms /\ Len(arm.placed) <= Len(plans'[1])
             /\ steps' = SubSeq(plans'[1], Len(arm.placed) + 1, Len(plans'[1]))
             /\ \A k \in 1..Len(arm.placed) : arm.placed[k] = plans'[1][k][2]
             /\ Stands(First.tower)
  <2>1. plans'[1] = First.steps /\ Rnd(First)
    BY <1>1, <1>2, <1>3, FirstIs
  <2>2. PICK plan \in Seq(Pairs) : plan = plans'[1]
    BY <2>1 DEF Rnd
  <2>3. PICK tower \in Seq(Objects) : tower = First.tower
    BY <2>1 DEF Rnd
  <2>4. /\ arm.level = 0 /\ arm.placed = <<>> /\ Len(arm.placed) = 0
        /\ arm.locs = [o \in Objects |-> o] /\ arm \in Arms
    <3>1. <<>> \in Seq(Objects) /\ Len(<<>>) = 0 /\ [o \in Objects |-> o] \in [Objects -> Objects]
      OBVIOUS
    <3> QED BY <1>1, <3>1 DEF NoArm, Arms
  <2>5. plan = SubSeq(plan, 1, Len(plan)) /\ Len(plan) \in Nat
    OBVIOUS
  <2>6. tower # <<>> => tower[1] \in Objects
    BY <2>3
  <2>7. Stands(tower)
    BY <2>4, <2>6, SizeOfNone DEF Stands
  <2> QED BY <1>1, <1>3, <2>2, <2>3, <2>4, <2>5, <2>7
<1>4. First' = First
  BY <1>1 DEF First
<1> QED BY <1>1, <1>3, <1>4 DEF ArmInv, Stands

LEMMA StepArm == ASSUME PlayInv, ArmInv, [Next]_vars PROVE ArmInv'
<1>1. CASE Learn \/ Play
  <2>1. stage \in {"learning", "planning"} /\ UNCHANGED execVars
    BY <1>1 DEF Learn, Play, StackOn, IncreaseHeight, IncreaseStack, MakeBase, GoalReached, DeadEnd,
                Turn, EndRound
  <2> QED BY <2>1 DEF ArmInv, execVars
<1>2. CASE ParsePlan
  BY <1>2, ParseArm
<1>3. CASE ExecuteStep
  <2>1. CASE plans # <<>>
    BY <1>3, <2>1, ArmStep
  <2>2. CASE plans = <<>>
    BY <1>3, <2>2 DEF ArmInv, ExecuteStep
  <2> QED BY <2>1, <2>2
<1>4. CASE ExecuteNotFound \/ ExecuteEnds \/ UNCHANGED vars
  <2>1. /\ UNCHANGED <<rounds, plans, steps, arm>>
        /\ stage' = stage \/ stage' \in {"executing", "done", "failed"}
    BY <1>4 DEF ExecuteNotFound, ExecuteEnds, vars, simVars, execVars
  <2> QED BY <2>1 DEF ArmInv, First, Stands
<1> QED BY <1>1, <1>2, <1>3, <1>4 DEF Next, Execute

LEMMA ArmStands == PlayInv /\ ArmInv => ArmBuildsTower
<1> SUFFICES ASSUME PlayInv, ArmInv, plans # <<>>, ~First.missed, Len(arm.placed) > 0
             PROVE  /\ arm.level = SizeOf(First.tower, Len(arm.placed))
                    /\ \A k \in 1..Len(arm.placed) : arm.locs[arm.placed[k]] = First.tower[1]
                    /\ \A k \in 2..Len(First.tower) :
                         k <= Len(arm.placed) + 1 => arm.placed[k - 1] = First.tower[k]
  BY DEF ArmBuildsTower, First
<1>1. stage \in {"executing", "done", "failed"}
  BY DEF ArmInv
<1>2. plans[1] = First.steps /\ Rnd(First) /\ Follows(First)
  BY <1>1, FirstIs DEF PlayInv
<1>3. Follow(plans[1], First.tower) /\ First.tower \in Seq(Objects) /\ plans[1] \in Seq(Pairs)
  BY <1>2 DEF Follows, Rnd
<1>4. /\ arm.placed \in Seq(Objects) /\ Len(arm.placed) <= Len(plans[1]) /\ Stands(First.tower)
      /\ \A k \in 1..Len(arm.placed) : arm.placed[k] = plans[1][k][2]
  BY DEF ArmInv, Arms
<1>5. ASSUME NEW k \in 2..Len(First.tower), k <= Len(arm.placed) + 1
      PROVE  arm.placed[k - 1] = First.tower[k]
  <2>1. k - 1 \in 1..Len(arm.placed) /\ k - 1 \in 1..Len(plans[1]) /\ k - 1 < Len(First.tower)
    BY <1>3, <1>4, <1>5
  <2>2. plans[1][k - 1][2] = First.tower[(k - 1) + 1]
    BY <1>3, <2>1 DEF Follow
  <2> QED BY <1>4, <2>1, <2>2
<1> QED BY <1>4, <1>5 DEF Stands

\* The arm that executes the plan of a round in which nothing missed builds the tower of
\* that round, each object on the sum of the sizes below it and all of them where the
\* base stands, whatever the objects, their sizes and the rounds.
THEOREM ArmBuildsTheTower == Spec => []ArmBuildsTower
<1>1. Init => Sound(world) /\ TopInv /\ PlayInv /\ ArmInv
  BY InitPlay, InitSound, InitTopInv, InitArm DEF Init
<1>2. Sound(world) /\ TopInv /\ PlayInv /\ ArmInv /\ [Next]_vars
        => (Sound(world) /\ TopInv /\ PlayInv /\ ArmInv)'
  BY StepSound, StepTops, StepPlay, StepArm DEF Sound, Counts
<1>3. PlayInv /\ ArmInv => ArmBuildsTower
  BY ArmStands
<1> QED BY <1>1, <1>2, <1>3, PTL DEF Spec
=============================================================================
