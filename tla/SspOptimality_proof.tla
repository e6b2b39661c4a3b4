------------------------- MODULE SspOptimality_proof ------------------------
(***************************************************************************)
(* The one-step lookahead is monotone in the values it looks at, so values *)
(* that do not exceed the optimal ones stay so however they are updated.   *)
(***************************************************************************)
EXTENDS SspOptimality, Recursion_proof

-----------------------------------------------------------------------------
(* The expected value.  Its partial sums are defined by recursion over the  *)
(* outcomes; what is said of them is shown for the least index at which it  *)
(* could fail.                                                              *)

Ordered(o) == /\ Len(o) \in Nat
              /\ \A i \in 1..Len(o) : o[i].state \in States /\ o[i].weight \in Nat

Term(W, o, i) == o[i].weight * W[o[i].state]
Sums(W, o) == CHOOSE sum : sum = [i \in 0..Len(o) |-> IF i = 0 THEN 0
                                              ELSE sum[i - 1] + o[i].weight * W[o[i].state]]

LEMMA QValueIs == ASSUME NEW W, NEW s, NEW a
                  PROVE  QValue(W, s, a) = CostUnit + Sums(W, Outcomes[<<s, a>>])[Len(Outcomes[<<s, a>>])] \div Whole
BY DEF QValue, Sums

LEMMA SumsExist ==
  ASSUME NEW W, NEW o, Len(o) \in Nat
  PROVE  Sums(W, o) = [i \in 0..Len(o) |-> IF i = 0 THEN 0 ELSE Sums(W, o)[i - 1] + Term(W, o, i)]
<1> DEFINE Upto(m, f) == f = [i \in 0..m |-> IF i = 0 THEN 0 ELSE f[i - 1] + Term(W, o, i)]
           bad == {m \in Nat : ~ \E f : Upto(m, f)}
<1>1. bad = {}
  <2> SUFFICES ASSUME bad # {} PROVE FALSE
    OBVIOUS
  <2>1. PICK m \in bad : \A k \in bad : m <= k
    <3>1. bad \in SUBSET Nat
      OBVIOUS
    <3> HIDE DEF bad
    <3> QED BY <3>1, LeastOf
  <2>2. CASE m = 0
    <3>1. Upto(0, [i \in 0..0 |-> 0])
      OBVIOUS
    <3> QED BY <2>2, <3>1
  <2>3. CASE m # 0
    <3>1. m \in Nat /\ m - 1 \in Nat /\ ~(m <= m - 1)
      BY <2>3
    <3>2. PICK f : Upto(m - 1, f)
      <4>1. m - 1 \notin bad
        <5> HIDE DEF bad
        <5> QED BY <2>1, <3>1
      <4> HIDE DEF Upto
      <4> QED BY <3>1, <4>1
    <3> DEFINE g == [i \in 0..m |-> IF i = m THEN f[m - 1] + Term(W, o, m) ELSE f[i]]
    <3>3. ASSUME NEW i \in 0..m
          PROVE  g[i] = IF i = 0 THEN 0 ELSE g[i - 1] + Term(W, o, i)
      <4>1. CASE i = 0
        BY <2>3, <3>1, <3>2, <4>1
      <4>2. CASE i # 0 /\ i = m
        BY <2>3, <3>1, <3>2, <4>2
      <4>3. CASE i # 0 /\ i # m
        BY <2>3, <3>1, <3>2, <4>3
      <4> QED BY <4>1, <4>2, <4>3
    <3>4. Upto(m, g)
      <4>1. g = [i \in 0..m |-> g[i]]
        OBVIOUS
      <4> HIDE DEF g
      <4> QED BY <3>3, <4>1
    <3> QED BY <2>1, <3>4
  <2> QED BY <2>2, <2>3
<1>2. \E f : Upto(Len(o), f)
  <2> HIDE DEF Upto
  <2> QED BY <1>1
<1>3. Sums(W, o) = CHOOSE f : Upto(Len(o), f)
  BY DEF Sums, Term
<1>4. Upto(Len(o), Sums(W, o))
  <2> HIDE DEF Upto
  <2> QED BY <1>2, <1>3
<1> QED BY <1>4

LEMMA TimesMonotone == ASSUME NEW w \in Nat, NEW x \in Nat, NEW y \in Nat, x <= y
                       PROVE  w * x \in Nat /\ w * y \in Nat /\ w * x <= w * y
<1>1. PICK d \in Nat : y = x + d
  <2>1. y - x \in Nat /\ y = x + (y - x)
    OBVIOUS
  <2> QED BY <2>1
<1>2. w * (x + d) = w * x + w * d
  OBVIOUS
<1>3. w * x \in Nat /\ w * d \in Nat
  OBVIOUS
<1> QED BY <1>1, <1>2, <1>3

LEMMA DivMonotone == ASSUME NEW x \in Nat, NEW y \in Nat, x <= y, NEW w \in Nat \ {0}
                     PROVE  x \div w \in Nat /\ x \div w <= y \div w
OBVIOUS

LEMMA SumsMonotone ==
  ASSUME NEW W \in [States -> Nat], NEW X \in [States -> Nat], \A s \in States : W[s] <= X[s],
         NEW o, Ordered(o)
  PROVE  /\ Sums(W, o)[Len(o)] \in Nat
         /\ Sums(X, o)[Len(o)] \in Nat
         /\ Sums(W, o)[Len(o)] <= Sums(X, o)[Len(o)]
<1> DEFINE P(i) == Sums(W, o)[i] \in Nat /\ Sums(X, o)[i] \in Nat /\ Sums(W, o)[i] <= Sums(X, o)[i]
           bad == {i \in 0..Len(o) : ~P(i)}
<1>1. Len(o) \in Nat
  BY DEF Ordered
<1>2. ASSUME NEW i \in 0..Len(o)
      PROVE  /\ Sums(W, o)[i] = IF i = 0 THEN 0 ELSE Sums(W, o)[i - 1] + Term(W, o, i)
             /\ Sums(X, o)[i] = IF i = 0 THEN 0 ELSE Sums(X, o)[i - 1] + Term(X, o, i)
  BY <1>1, SumsExist
<1>3. ASSUME NEW i \in 1..Len(o)
      PROVE  Term(W, o, i) \in Nat /\ Term(X, o, i) \in Nat /\ Term(W, o, i) <= Term(X, o, i)
  BY TimesMonotone DEF Term, Ordered
<1>4. bad = {}
  <2> SUFFICES ASSUME bad # {} PROVE FALSE
    OBVIOUS
  <2>1. PICK i \in bad : \A k \in bad : i <= k
    <3>1. bad \in SUBSET Nat
      BY <1>1
    <3> HIDE DEF bad
    <3> QED BY <3>1, LeastOf
  <2>2. i \in 0..Len(o) /\ ~P(i)
    OBVIOUS
  <2>3. i # 0
    BY <1>2, <2>2
  <2>4. P(i - 1)
    <3>1. i - 1 \in 0..Len(o) /\ ~(i <= i - 1)
      BY <1>1, <2>2, <2>3
    <3>2. i - 1 \notin bad
      <4> HIDE DEF bad
      <4> QED BY <2>1, <3>1
    <3> HIDE DEF P
    <3> QED BY <3>1, <3>2
  <2>5. i \in 1..Len(o)
    BY <1>1, <2>2, <2>3
  <2> QED BY <1>2, <1>3, <2>2, <2>3, <2>4, <2>5
<1>5. P(Len(o))
  <2> HIDE DEF P
  <2> QED BY <1>1, <1>4
<1> QED BY <1>5

\* The lookahead is monotone.
LEMMA QValueMonotone ==
  ASSUME NEW W \in Values, NEW X \in Values, \A s \in States : W[s] <= X[s],
         NEW s \in States, NEW a \in Enabled(s)
  PROVE  /\ QValue(W, s, a) \in Nat
         /\ QValue(X, s, a) \in Nat
         /\ QValue(W, s, a) <= QValue(X, s, a)
<1> DEFINE o == Outcomes[<<s, a>>]
<1>1. W \in [States -> Nat] /\ X \in [States -> Nat]
  BY SspAssumption DEF Values
<1>2. <<s, a>> \in States \X Actions
  BY DEF Enabled
<1>3. Ordered(o)
  <2>1. o \in Seq([state : States, weight : 1..Whole])
    BY <1>2, SspAssumption
  <2> HIDE DEF o
  <2>2. Len(o) \in Nat /\ \A i \in 1..Len(o) : o[i] \in [state : States, weight : 1..Whole]
    BY <2>1, ElementsOf
  <2>3. \A r \in [state : States, weight : 1..Whole] : r.state \in States /\ r.weight \in Nat
    BY SspAssumption
  <2> QED BY <2>2, <2>3 DEF Ordered
<1> DEFINE w == Sums(W, o)[Len(o)]
           x == Sums(X, o)[Len(o)]
<1> HIDE DEF o
<1>4. w \in Nat /\ x \in Nat /\ w <= x
  BY <1>1, <1>3, SumsMonotone
<1>5. w \div Whole \in Nat /\ x \div Whole \in Nat /\ w \div Whole <= x \div Whole
  <2>1. Whole \in Nat \ {0}
    BY SspAssumption
  <2> HIDE DEF w, x
  <2> QED BY <1>4, <2>1, DivMonotone
<1>6. QValue(W, s, a) = CostUnit + w \div Whole /\ QValue(X, s, a) = CostUnit + x \div Whole
  BY QValueIs DEF o
<1> HIDE DEF w, x
<1> QED BY <1>5, <1>6, SspAssumption

-----------------------------------------------------------------------------
(* The best action. *)

\* bestAction finds an enabled action with the least value.
LEMMA BestIsLeast ==
  ASSUME NEW W \in Values, NEW s \in States, Enabled(s) # {}
  PROVE  /\ Best(W, s).action \in Enabled(s)
         /\ s \in GoalStates => Best(W, s).value = 0
         /\ s \notin GoalStates =>
              /\ Best(W, s).value = QValue(W, s, Best(W, s).action)
              /\ \A a \in Enabled(s) :
                   /\ Best(W, s).value <= QValue(W, s, a)
                   /\ Best(W, s).value = QValue(W, s, a) => Best(W, s).action <= a
<1> DEFINE Val(a)  == IF s \in GoalStates THEN 0 ELSE QValue(W, s, a)
           choices == {[action |-> a, value |-> Val(a)] : a \in Enabled(s)}
           Least(c) == \A d \in choices :
                         c.value < d.value \/ (c.value = d.value /\ c.action <= d.action)
<1>1. \A a \in Enabled(s) : a \in Nat /\ Val(a) \in Nat
  <2>1. \A a \in Enabled(s) : QValue(W, s, a) \in Nat
    <3>1. \A t \in States : W[t] <= W[t]
      BY SspAssumption DEF Values
    <3> QED BY <3>1, QValueMonotone
  <2>2. \A a \in Enabled(s) : a \in Nat
    BY SspAssumption DEF Enabled, Actions
  <2> QED BY <2>1, <2>2
<1>2. PICK m \in {Val(a) : a \in Enabled(s)} : \A n \in {Val(a) : a \in Enabled(s)} : m <= n
  <2>1. {Val(a) : a \in Enabled(s)} \in SUBSET Nat /\ {Val(a) : a \in Enabled(s)} # {}
    BY <1>1
  <2> HIDE DEF Val
  <2> QED BY <2>1, LeastOf
<1>3. PICK b \in {a \in Enabled(s) : Val(a) = m} : \A a \in {e \in Enabled(s) : Val(e) = m} : b <= a
  <2>1. {a \in Enabled(s) : Val(a) = m} \in SUBSET Nat /\ {a \in Enabled(s) : Val(a) = m} # {}
    BY <1>1, <1>2
  <2> HIDE DEF Val
  <2> QED BY <2>1, LeastOf
<1>4. \E c \in choices : Least(c)
  <2>1. [action |-> b, value |-> Val(b)] \in choices
    BY <1>3
  <2>2. ASSUME NEW a \in Enabled(s)
        PROVE  Val(b) < Val(a) \/ (Val(b) = Val(a) /\ b <= a)
    BY <1>1, <1>2, <1>3
  <2>3. Least([action |-> b, value |-> Val(b)])
    <3> HIDE DEF Val
    <3> QED BY <2>2
  <2> QED BY <2>1, <2>3
<1>5. Best(W, s) = CHOOSE c \in choices : Least(c)
  BY DEF Best
<1>6. Best(W, s) \in choices /\ Least(Best(W, s))
  <2> HIDE DEF choices, Least
  <2> QED BY <1>4, <1>5
<1>7. PICK e \in Enabled(s) : Best(W, s) = [action |-> e, value |-> Val(e)]
  BY <1>6
<1>8. \A a \in Enabled(s) : /\ Best(W, s).value <= Val(a)
                            /\ Best(W, s).value = Val(a) => Best(W, s).action <= a
  <2>1. ASSUME NEW a \in Enabled(s) PROVE [action |-> a, value |-> Val(a)] \in choices
    OBVIOUS
  <2>2. \A d \in choices : /\ Best(W, s).value <= d.value
                           /\ Best(W, s).value = d.value => Best(W, s).action <= d.action
    <3>1. \A d \in choices : d.value \in Nat
      BY <1>1
    <3> HIDE DEF choices
    <3> QED BY <1>6, <3>1
  <2> HIDE DEF choices, Val
  <2> QED BY <2>1, <2>2
<1> QED BY <1>7, <1>8

\* It is the only such action that comes before the others of the same value.
LEMMA BestIs ==
  ASSUME NEW W \in Values, NEW s \in States \ GoalStates, NEW a \in Enabled(s),
         \A e \in Enabled(s) : \/ QValue(W, s, a) < QValue(W, s, e)
                               \/ QValue(W, s, a) = QValue(W, s, e) /\ a <= e
  PROVE  Best(W, s) = [action |-> a, value |-> QValue(W, s, a)]
<1> DEFINE Q(e) == QValue(W, s, e)
           choices == {[action |-> e, value |-> Q(e)] : e \in Enabled(s)}
           Least(c) == \A d \in choices :
                         c.value < d.value \/ (c.value = d.value /\ c.action <= d.action)
           best == [action |-> a, value |-> Q(a)]
<1>1. Best(W, s) = CHOOSE c \in choices : Least(c)
  BY DEF Best
<1>2. \A e \in Enabled(s) : e \in Nat /\ Q(e) \in Nat
  <2>1. \A t \in States : W[t] <= W[t]
    BY SspAssumption DEF Values
  <2>2. \A e \in Enabled(s) : QValue(W, s, e) \in Nat
    BY <2>1, QValueMonotone
  <2> QED BY <2>2, SspAssumption DEF Enabled, Actions
<1> HIDE DEF Q
<1>3. best \in choices /\ Least(best)
  BY DEF Q
<1>4. ASSUME NEW c \in choices, Least(c) PROVE c = best
  <2>1. PICK e \in Enabled(s) : c = [action |-> e, value |-> Q(e)]
    OBVIOUS
  <2>2. Q(e) < Q(a) \/ (Q(e) = Q(a) /\ e <= a)
    BY <1>3, <1>4, <2>1
  <2>3. Q(a) < Q(e) \/ (Q(a) = Q(e) /\ a <= e)
    BY DEF Q
  <2>4. e = a
    BY <1>2, <2>2, <2>3
  <2> QED BY <2>1, <2>4
<1>5. (CHOOSE c \in choices : Least(c)) = best
  <2> HIDE DEF choices, Least, best
  <2> QED BY <1>3, <1>4
<1> QED BY <1>1, <1>5 DEF Q

\* What the outcomes of the best action are worth decides what it is worth, so it stays
\* the best one while the values of its outcomes stay and the others only rise.
LEMMA QValueAlike ==
  ASSUME NEW W, NEW X, NEW s \in States, NEW a \in Enabled(s),
         \A t \in Successors(s, a) : W[t] = X[t]
  PROVE  QValue(W, s, a) = QValue(X, s, a)
<1> DEFINE o == Outcomes[<<s, a>>]
           T == {i \in 0..Len(o) : Sums(W, o)[i] = Sums(X, o)[i]}
<1>1. Len(o) \in Nat
  BY SspAssumption, ElementsOf DEF Enabled
<1>2. \A i \in 1..Len(o) : W[o[i].state] = X[o[i].state]
  BY DEF Successors
<1> HIDE DEF o
<1>3. ASSUME NEW i \in 0..Len(o)
      PROVE  /\ Sums(W, o)[i] = IF i = 0 THEN 0 ELSE Sums(W, o)[i - 1] + Term(W, o, i)
             /\ Sums(X, o)[i] = IF i = 0 THEN 0 ELSE Sums(X, o)[i - 1] + Term(X, o, i)
  BY <1>1, SumsExist
<1>4. 0 \in T
  BY <1>1, <1>3
<1>5. ASSUME NEW i \in 1..Len(o), i - 1 \in T PROVE i \in T
  <2>1. Term(W, o, i) = Term(X, o, i)
    BY <1>2 DEF Term
  <2> QED BY <1>1, <1>3, <1>5, <2>1
<1>6. 0..Len(o) \subseteq T
  <2> HIDE DEF T
  <2> QED BY <1>1, <1>4, <1>5, UpTo
<1>7. Sums(W, o)[Len(o)] = Sums(X, o)[Len(o)]
  BY <1>1, <1>6
<1> QED BY <1>7, QValueIs DEF o

LEMMA GreedyPersists ==
  ASSUME NEW W \in Values, NEW X \in Values, \A t \in States : W[t] <= X[t],
         NEW s \in States,
         \A t \in Successors(s, Best(W, s).action) : W[t] = X[t]
  PROVE  Best(X, s) = Best(W, s)
<1>1. CASE Enabled(s) = {} \/ s \in GoalStates
  <2>1. CASE Enabled(s) = {}
    BY <2>1 DEF Best
  <2>2. CASE s \in GoalStates
    <3> DEFINE Ranked(U) == {[action |-> a, value |-> IF s \in GoalStates THEN 0
                                                       ELSE QValue(U, s, a)] : a \in Enabled(s)}
    <3>1. Ranked(W) = Ranked(X)
      BY <2>2
    <3>2. ASSUME NEW U, Enabled(s) # {}
          PROVE  Best(U, s) = CHOOSE c \in Ranked(U) : \A d \in Ranked(U) :
                   c.value < d.value \/ (c.value = d.value /\ c.action <= d.action)
      BY <3>2 DEF Best
    <3> HIDE DEF Ranked
    <3> QED BY <2>1, <3>1, <3>2
  <2> QED BY <1>1, <2>1, <2>2
<1>2. CASE Enabled(s) # {} /\ s \notin GoalStates
  <2> DEFINE a == Best(W, s).action
  <2>1. a \in Enabled(s)
    BY <1>2, BestIsLeast
  <2>2. QValue(X, s, a) = QValue(W, s, a)
    BY <2>1, QValueAlike
  <2>3. ASSUME NEW e \in Enabled(s)
        PROVE  \/ QValue(W, s, a) < QValue(W, s, e)
               \/ QValue(W, s, a) = QValue(W, s, e) /\ a <= e
    BY <1>2, BestIsLeast, QValueMonotone, <2>1
  <2>4. \A e \in Enabled(s) : /\ QValue(W, s, e) \in Nat /\ QValue(X, s, e) \in Nat
                              /\ QValue(W, s, e) <= QValue(X, s, e)
    BY QValueMonotone
  <2> HIDE DEF a
  <2>5. Best(W, s) = [action |-> a, value |-> QValue(W, s, a)]
    BY <1>2, <2>1, <2>3, BestIs
  <2>6. ASSUME NEW e \in Enabled(s)
        PROVE  \/ QValue(X, s, a) < QValue(X, s, e)
               \/ QValue(X, s, a) = QValue(X, s, e) /\ a <= e
    BY <2>1, <2>2, <2>3, <2>4
  <2>7. Best(X, s) = [action |-> a, value |-> QValue(X, s, a)]
    BY <1>2, <2>1, <2>6, BestIs
  <2> QED BY <2>2, <2>5, <2>7
<1> QED BY <1>1, <1>2

LEMMA CappedType == ASSUME NEW v \in Nat
                    PROVE  Capped(v) \in 0..DeadEndValue /\ Capped(v) <= v /\ Capped(Capped(v)) = Capped(v)
  BY SspAssumption DEF Capped

\* An action is missing only where none is enabled.
LEMMA NoActionMeansNone ==
  ASSUME NEW W \in Values, NEW s \in States, BestAction(W, s) = NoAction
  PROVE  Enabled(s) = {}
<1>1. Enabled(s) # {} => Best(W, s).action \in 1..NumActions
  BY BestIsLeast DEF Enabled, Actions
<1> QED BY <1>1, SspAssumption DEF BestAction, NoAction

LEMMA GreedyType ==
  ASSUME NEW W \in Values, NEW s \in States, BestAction(W, s) # NoAction
  PROVE  BestAction(W, s) \in Enabled(s)
<1>1. Enabled(s) = {} => Best(W, s).action = NoAction
  BY DEF Best
<1> QED BY <1>1, BestIsLeast DEF BestAction

LEMMA SuccessorsType ==
  ASSUME NEW s \in States, NEW a \in Actions PROVE Successors(s, a) \in SUBSET States
<1> DEFINE o == Outcomes[<<s, a>>]
<1>1. o \in Seq([state : States, weight : 1..Whole])
  BY SspAssumption
<1> HIDE DEF o
<1>2. \A i \in 1..Len(o) : o[i] \in [state : States, weight : 1..Whole]
  BY <1>1, ElementsOf
<1>3. \A i \in 1..Len(o) : o[i].state \in States
  BY <1>2
<1> QED BY <1>3 DEF Successors, o

\* A larger value of any entry makes no lookahead smaller.
LEMMA BestMonotone ==
  ASSUME NEW W \in Values, NEW X \in Values, \A t \in States : W[t] <= X[t], NEW s \in States
  PROVE  /\ Best(W, s).value \in Nat /\ BestValue(W, s) \in 0..DeadEndValue
         /\ BestValue(W, s) <= BestValue(X, s)
<1>1. Best(W, s).value \in Nat /\ Best(X, s).value \in Nat /\ Best(W, s).value <= Best(X, s).value
  <2>1. CASE Enabled(s) = {}
    <3>1. Best(W, s) = Best(X, s) /\ Best(W, s).value \in {0, DeadEndValue}
      BY <2>1 DEF Best
    <3> QED BY <3>1, SspAssumption
  <2>2. CASE Enabled(s) # {} /\ s \in GoalStates
    BY <2>2, BestIsLeast
  <2>3. CASE Enabled(s) # {} /\ s \notin GoalStates
    <3> DEFINE a == Best(W, s).action
               b == Best(X, s).action
    <3>1. /\ a \in Enabled(s) /\ Best(W, s).value = QValue(W, s, a)
          /\ \A e \in Enabled(s) : Best(W, s).value <= QValue(W, s, e)
      BY <2>3, BestIsLeast
    <3>2. b \in Enabled(s) /\ Best(X, s).value = QValue(X, s, b)
      BY <2>3, BestIsLeast
    <3>3. QValue(W, s, b) \in Nat /\ QValue(X, s, b) \in Nat /\ QValue(W, s, b) <= QValue(X, s, b)
      BY <3>2, QValueMonotone
    <3>4. QValue(W, s, a) \in Nat
      BY <3>1, QValueMonotone
    <3> HIDE DEF a, b
    <3> QED BY <3>1, <3>2, <3>3, <3>4
  <2> QED BY <2>1, <2>2, <2>3
<1> QED BY <1>1, SspAssumption DEF BestValue, Capped

\* What the lookahead gives for all states at once.
LEMMA LookaheadType ==
  ASSUME NEW W \in Values
  PROVE  [s \in States |-> BestValue(W, s)] \in Values
<1>1. \A s \in States : W[s] <= W[s]
  BY SspAssumption DEF Values
<1>2. \A s \in States : BestValue(W, s) \in 0..DeadEndValue
  BY <1>1, BestMonotone
<1> QED BY <1>2 DEF Values

LEMMA CostsAre ==
  /\ Cost \in [0..Horizon -> Values]
  /\ \A s \in States : Cost[0][s] = 0
  /\ \A n \in 1..Horizon : \A s \in States : Cost[n][s] = BestValue(Cost[n - 1], s)
<1> DEFINE D == Values
           N == Horizon
           z == [s \in States |-> 0]
           Ahead(W) == [s \in States |-> BestValue(W, s)]
           F == [p \in (1..N) \X D |-> Ahead(p[2])]
           Follows(f) == f = [n \in 0..N |-> IF n = 0 THEN z
                                ELSE IF Ahead(f[n - 1]) = f[n - 1] THEN f[n - 1] ELSE Ahead(f[n - 1])]
<1>1. N \in Nat
  BY OptimalAssumption
<1>2. z \in D
  BY SspAssumption DEF Values
<1>3. \A W \in D : Ahead(W) \in D
  BY LookaheadType
<1>4. Cost = CHOOSE f : Follows(f)
  BY DEF Cost
<1> HIDE DEF D, N, z, Ahead
<1>5. F \in Steps(N, D)
  BY <1>3 DEF Steps
<1>6. PICK f : f \in Traces(N, D, z, F)
  <2> HIDE DEF F
  <2> QED BY <1>1, <1>2, <1>5, RecursionExists
<1>7. f \in [0..N -> D] /\ f[0] = z /\ \A n \in 1..N : f[n] = F[<<n, f[n - 1]>>]
  BY <1>6 DEF Traces
<1>8. \A n \in 1..N : f[n - 1] \in D /\ f[n] = Ahead(f[n - 1])
  <2>1. SUFFICES ASSUME NEW n \in 1..N PROVE f[n - 1] \in D /\ f[n] = Ahead(f[n - 1])
    OBVIOUS
  <2>2. n - 1 \in 0..N
    BY <1>1
  <2> QED BY <1>7, <2>2
<1> HIDE DEF F
<1>9. Follows(f)
  <2>1. ASSUME NEW n \in 0..N
        PROVE  f[n] = IF n = 0 THEN z
                      ELSE IF Ahead(f[n - 1]) = f[n - 1] THEN f[n - 1] ELSE Ahead(f[n - 1])
    <3>1. n # 0 => n \in 1..N
      BY <1>1
    <3> QED BY <1>7, <1>8, <3>1
  <2>2. f = [n \in 0..N |-> f[n]]
    BY <1>7
  <2> QED BY <2>1, <2>2
<1>10. Follows(Cost)
  <2> HIDE DEF Follows
  <2> QED BY <1>4, <1>9
<1>11. \A n \in 0..N : Cost[n] = IF n = 0 THEN z
                                 ELSE IF Ahead(Cost[n - 1]) = Cost[n - 1] THEN Cost[n - 1]
                                 ELSE Ahead(Cost[n - 1])
  BY <1>10
<1>12. Cost = [n \in 0..N |-> Cost[n]]
  BY <1>10
<1> HIDE DEF Follows
<1>13. Cost[0] = z /\ \A n \in 1..N : Cost[n] = Ahead(Cost[n - 1])
  BY <1>1, <1>11
<1>14. 0..N \subseteq {n \in 0..N : Cost[n] \in D}
  <2> DEFINE T == {n \in 0..N : Cost[n] \in D}
  <2>1. 0 \in T
    BY <1>1, <1>2, <1>13
  <2>2. ASSUME NEW n \in 1..N, n - 1 \in T PROVE n \in T
    BY <1>1, <1>3, <1>13, <2>2
  <2> HIDE DEF T
  <2>3. 0..N \subseteq T
    BY <1>1, <2>1, <2>2, UpTo
  <2> QED BY <2>3 DEF T
<1>15. Cost \in [0..N -> D]
  BY <1>12, <1>14
<1>16. Cost \in [0..Horizon -> Values]
  BY <1>15 DEF D, N
<1>17. \A s \in States : Cost[0][s] = 0
  BY <1>13 DEF z
<1>18. ASSUME NEW n \in 1..Horizon, NEW s \in States
       PROVE  Cost[n][s] = BestValue(Cost[n - 1], s)
  <2>1. Cost[n] = Ahead(Cost[n - 1])
    BY <1>13 DEF N
  <2> QED BY <2>1 DEF Ahead
<1> QED BY <1>16, <1>17, <1>18

\* The optimal costs are values, those of their own lookahead, and no more than any
\* values that are at least their lookahead.
LEMMA OptimalCosts == VStar \in Values /\ \A s \in States : VStar[s] = BestValue(VStar, s)
<1>1. Horizon \in 0..Horizon
  BY OptimalAssumption
<1> QED BY <1>1, CostsAre, OptimalAssumption

LEMMA LeastCosts ==
  ASSUME NEW W \in Values, \A s \in States : BestValue(W, s) <= W[s]
  PROVE  \A s \in States : VStar[s] <= W[s]
<1> DEFINE T == {n \in 0..Horizon : \A s \in States : Cost[n][s] <= W[s]}
<1>1. Horizon \in Nat /\ DeadEndValue \in Nat
  BY OptimalAssumption, SspAssumption
<1>2. 0 \in T
  <2>1. \A s \in States : Cost[0][s] <= W[s]
    BY CostsAre DEF Values
  <2> QED BY <1>1, <2>1
<1>3. ASSUME NEW n \in 1..Horizon, n - 1 \in T PROVE n \in T
  <2>1. n - 1 \in 0..Horizon /\ Cost[n - 1] \in Values /\ \A s \in States : Cost[n - 1][s] <= W[s]
    BY <1>3, CostsAre
  <2>2. ASSUME NEW s \in States PROVE Cost[n][s] <= W[s]
    <3>1. BestValue(Cost[n - 1], s) \in 0..DeadEndValue /\ BestValue(Cost[n - 1], s) <= BestValue(W, s)
      BY <2>1, BestMonotone
    <3>2. \A t \in States : W[t] <= W[t]
      BY <1>1 DEF Values
    <3>3. BestValue(W, s) \in 0..DeadEndValue /\ W[s] \in 0..DeadEndValue
      BY <3>2, BestMonotone DEF Values
    <3>4. Cost[n][s] = BestValue(Cost[n - 1], s)
      BY CostsAre
    <3> QED BY <1>1, <3>1, <3>3, <3>4
  <2> QED BY <2>2
<1> HIDE DEF T
<1>4. 0..Horizon \subseteq T
  BY <1>1, <1>2, <1>3, UpTo
<1>5. Horizon \in T
  BY <1>1, <1>4
<1> QED BY <1>5, OptimalAssumption DEF T

\* Values that never exceed the optimal costs are optimal in a set of states that no
\* greedy action leaves and where each value is that of its lookahead.
LEMMA OptimalWhenClosed ==
  ASSUME NEW W \in Values, \A s \in States : W[s] <= VStar[s], NEW S \in SUBSET States,
         \A s \in S : \/ s \in GoalStates \/ W[s] = DeadEndValue
                      \/ /\ W[s] = BestValue(W, s) /\ BestAction(W, s) # NoAction
                         /\ Successors(s, BestAction(W, s)) \subseteq S
  PROVE  \A s \in S : W[s] = VStar[s]
<1>1. PICK X : X = [s \in States |-> IF s \in S THEN W[s] ELSE DeadEndValue]
  OBVIOUS
<1>2. DeadEndValue \in Nat /\ X \in Values /\ VStar \in Values
  BY <1>1, SspAssumption, OptimalCosts DEF Values
<1>3. \A s \in States : W[s] \in 0..DeadEndValue /\ X[s] \in 0..DeadEndValue /\ VStar[s] \in 0..DeadEndValue
  BY <1>2 DEF Values
<1>4. \A s \in States : BestValue(X, s) \in 0..DeadEndValue
  BY <1>2, <1>3, BestMonotone
<1>5. ASSUME NEW s \in S PROVE BestValue(X, s) <= W[s]
  <2>1. CASE W[s] = DeadEndValue
    BY <1>2, <1>4, <2>1
  <2>2. CASE s \in GoalStates /\ W[s] # DeadEndValue
    <3>1. Best(X, s).value = 0
      <4>1. CASE Enabled(s) = {}
        BY <2>2, <4>1 DEF Best
      <4>2. CASE Enabled(s) # {}
        BY <1>2, <2>2, <4>2, BestIsLeast
      <4> QED BY <4>1, <4>2
    <3>2. BestValue(X, s) = 0
      BY <1>2, <3>1 DEF BestValue, Capped
    <3> QED BY <1>3, <3>2
  <2>3. CASE /\ s \notin GoalStates
             /\ W[s] = BestValue(W, s) /\ BestAction(W, s) # NoAction
             /\ Successors(s, BestAction(W, s)) \subseteq S
    <3>1. PICK a : a = BestAction(W, s)
      OBVIOUS
    <3>2. a \in Enabled(s)
      BY <2>3, <3>1, GreedyType
    <3>3. \A t \in Successors(s, a) : X[t] = W[t]
      BY <1>1, <2>3, <3>1
    <3>4. QValue(X, s, a) = QValue(W, s, a)
      BY <3>2, <3>3, QValueAlike
    <3>5. Best(X, s).value <= QValue(X, s, a) /\ Best(W, s).value = QValue(W, s, a)
      BY <1>2, <2>3, <3>1, <3>2, BestIsLeast DEF BestAction
    <3>6. Best(X, s).value \in Nat /\ Best(W, s).value \in Nat
      BY <1>2, <1>3, BestMonotone
    <3> QED BY <1>2, <2>3, <3>4, <3>5, <3>6 DEF BestValue, Capped
  <2> QED BY <2>1, <2>2, <2>3
<1>6. \A s \in States : BestValue(X, s) <= X[s]
  BY <1>1, <1>2, <1>4, <1>5
<1>7. \A s \in States : VStar[s] <= X[s]
  BY <1>2, <1>6, LeastCosts
<1> QED BY <1>1, <1>3, <1>7

-----------------------------------------------------------------------------
(* Updates with the value of the lookahead. *)

\* All the planners do to the hash table: an entry gets the value of its lookahead.
BackedUp(W, X) ==
  \/ X = W
  \/ \E s \in States, v \in Nat : Capped(v) = BestValue(W, s) /\ X = Update(W, s, v)

\* Whatever is not in the table is not updated.
LEMMA UpdateElsewhere == ASSUME NEW W \in Values, NEW s, s \notin States, NEW v
                         PROVE  Update(W, s, v) = W
BY DEF Update, Values

LEMMA LookaheadWritten ==
  ASSUME NEW W \in Values, NEW s
  PROVE  BackedUp(W, Update(W, s, Best(W, s).value)) /\ BackedUp(W, Update(W, s, BestValue(W, s)))
<1>1. CASE s \in States
  <2>1. \A t \in States : W[t] <= W[t]
    BY SspAssumption DEF Values
  <2>2. Best(W, s).value \in Nat /\ BestValue(W, s) \in Nat
    BY <1>1, <2>1, BestMonotone, SspAssumption
  <2>3. Capped(Best(W, s).value) = BestValue(W, s) /\ Capped(BestValue(W, s)) = BestValue(W, s)
    BY <2>2, CappedType DEF BestValue
  <2> QED BY <1>1, <2>2, <2>3 DEF BackedUp
<1> QED BY <1>1, UpdateElsewhere DEF BackedUp

\* A state that is no goal and has no action is given what the lookahead is there.
LEMMA DeadEndWritten ==
  ASSUME NEW W \in Values, NEW s, BestAction(W, s) = NoAction,
         s \in GoalStates => Enabled(s) # {}
  PROVE  BackedUp(W, Update(W, s, DeadEndValue))
<1>1. CASE s \in States
  <2>1. Enabled(s) = {} /\ s \notin GoalStates
    BY <1>1, NoActionMeansNone
  <2>2. Best(W, s).value = DeadEndValue
    BY <2>1 DEF Best
  <2> QED BY <1>1, <2>2, SspAssumption DEF BackedUp, BestValue
<1> QED BY <1>1, UpdateElsewhere DEF BackedUp

LEMMA UpdateAt ==
  ASSUME NEW W \in Values, NEW s \in States, NEW v \in Nat
  PROVE  /\ Update(W, s, v) \in Values
         /\ \A t \in States : Update(W, s, v)[t] = IF t = s THEN Capped(v) ELSE W[t]
BY CappedType DEF Update, Values

LEMMA UpdatedAt ==
  ASSUME NEW W \in Values, NEW s \in States, NEW v \in Nat, NEW X, X = Update(W, s, v)
  PROVE  X[s] = Capped(v) /\ \A t \in States \ {s} : X[t] = W[t]
BY UpdateAt

\* Values at most the optimal ones stay so.
Below(W) == W \in Values /\ \A s \in States : W[s] <= VStar[s]

LEMMA AdmissibleBelow == ASSUME NEW h \in Heuristics PROVE Below(h)
  BY SspAssumption, AdmissibleAssumption DEF Below, Values

LEMMA BackedUpBelow ==
  ASSUME NEW W, Below(W), NEW X, BackedUp(W, X)
  PROVE  Below(X)
<1>1. ASSUME NEW s \in States, NEW v \in Nat, Capped(v) = BestValue(W, s), X = Update(W, s, v)
      PROVE  Below(X)
  <2>1. BestValue(W, s) <= VStar[s]
    BY OptimalCosts, BestMonotone DEF Below
  <2> QED BY <1>1, <2>1, UpdateAt DEF Below
<1> QED BY <1>1 DEF BackedUp

LEMMA BackedUpValues == ASSUME NEW W \in Values, NEW X, BackedUp(W, X) PROVE X \in Values
  BY UpdateAt DEF BackedUp

\* Values at most their lookahead only rise, and stay at most their lookahead.
LEMMA BackedUpConsistent ==
  ASSUME NEW W \in Values, \A s \in States : W[s] <= BestValue(W, s), NEW X, BackedUp(W, X)
  PROVE  \A s \in States : W[s] <= X[s] /\ X[s] <= BestValue(X, s)
<1>1. CASE X = W
  BY <1>1, SspAssumption DEF Values
<1>2. ASSUME NEW s \in States, NEW v \in Nat, Capped(v) = BestValue(W, s), X = Update(W, s, v),
             NEW t \in States
      PROVE  W[t] <= X[t] /\ X[t] <= BestValue(X, t)
  <2>1. X \in Values /\ \A u \in States : X[u] = IF u = s THEN BestValue(W, s) ELSE W[u]
    BY <1>2, UpdateAt
  <2>2. \A u \in States : W[u] \in Int /\ W[u] <= W[u]
    BY SspAssumption DEF Values
  <2>3. \A u \in States : W[u] <= X[u]
    BY <2>1, <2>2
  <2>4. BestValue(W, t) \in 0..DeadEndValue /\ BestValue(W, t) <= BestValue(X, t)
    BY <2>1, <2>3, BestMonotone
  <2>5. BestValue(X, t) \in 0..DeadEndValue
    <3>1. \A u \in States : X[u] <= X[u]
      BY <2>1, SspAssumption DEF Values
    <3> QED BY <2>1, <3>1, BestMonotone
  <2>6. X[t] <= BestValue(W, t)
    BY <2>1, <2>4, SspAssumption
  <2>7. X[t] \in 0..DeadEndValue
    BY <2>1 DEF Values
  <2> QED BY <2>3, <2>4, <2>5, <2>6, <2>7, SspAssumption
<1> QED BY <1>1, <1>2 DEF BackedUp
=============================================================================
