-------------------------------- MODULE Mtbdd --------------------------------
(***************************************************************************)
(* The planner of mtbdd.cc, on the problem as the simulator grounds it:    *)
(* every action becomes a dynamic Bayesian network and that a matrix of    *)
(* probabilities, and value iteration over them leaves a policy.           *)
(*                                                                         *)
(* A decision diagram is the function it stands for.  A state is the set   *)
(* of the state variables that are true, a BDD over states is a set of     *)
(* states; a BDD over states and auxiliary variables, which stand for the  *)
(* draws of the uncertain effects, is a set of pairs <<state, draw>>, the  *)
(* draw being the set of the auxiliary variables that are true.            *)
(***************************************************************************)
EXTENDS Pddl

CONSTANTS Gamma, Epsilon   \* the discount factor and the error tolerance

Sim == INSTANCE Simulator

SumOver(S, q(_)) == FoldFunctionOnSet(Plus, Zero, [x \in S |-> q(x)], S)

REWARD      == <<"reward">>
Rewarded(p) == REWARD \in DOMAIN p.values   \* the domain declares the reward function

-----------------------------------------------------------------------------
(* State variables, and what is refused *)

RECURSIVE FormulaVariables(_)
FormulaVariables(f) ==
  CASE f.op = "atom"          -> {f.atom}
    [] f.op = "not"           -> FormulaVariables(f.arg)
    [] f.op \in {"and", "or"} -> UNION {FormulaVariables(g) : g \in ToSet(f.args)}
    [] OTHER                  -> {}

\* The additions, deletions and updates an effect is made of.
RECURSIVE Leaves(_)
Leaves(e) ==
  CASE e.op = "and"  -> UNION {Leaves(d) : d \in ToSet(e.args)}
    [] e.op = "when" -> Leaves(e.effect)
    [] e.op = "prob" -> UNION {Leaves(o.e) : o \in ToSet(e.outcomes)}
    [] OTHER         -> {e}

\* The conditions of effects are not looked at: they may test atoms that are no variables.
EffectVariables(e) == {l.atom : l \in {k \in Leaves(e) : k.op # "update"}}

\* The parts of a problem are given as solve_problem finds them: its actions, and its goal
\* grounded.
InstGoal(p) == Sim!Inst(p, Sim!Goal(p), <<>>, p.init, FALSE)
AllEffects(p, actions) ==
  {a.effect : a \in actions} \cup {Sim!ReadEffect(p, e) : e \in ToSet(p.initEffects)}
StateVariables(p, actions, goal) ==
  FormulaVariables(goal) \cup UNION {EffectVariables(e) : e \in AllEffects(p, actions)}

\* "unexpected formula": comparisons are not understood.
RECURSIVE Unexpected(_)
Unexpected(f) ==
  CASE f.op = "not"           -> Unexpected(f.arg)
    [] f.op \in {"and", "or"} -> \E g \in ToSet(f.args) : Unexpected(g)
    [] OTHER                  -> f.op = "cmp"

\* "numeric state variables not supported": of the values only the reward may change.
NumericVariable(p, e) ==
  \E l \in Leaves(e) : /\ l.op = "update"
                       /\ l.app[1] \notin {Sim!TOTAL_TIME[1], Sim!GOAL_ACHIEVED[1]}
                       /\ Rewarded(p) => l.app[1] # REWARD[1]

\* formula_bdd: an atom that is no state variable counts as false.
RECURSIVE FormulaBdd(_, _)
FormulaBdd(V, f) ==
  CASE f.op = "true"  -> SUBSET V
    [] f.op = "false" -> {}
    [] f.op = "atom"  -> {s \in SUBSET V : f.atom \in s}
    [] f.op = "not"   -> SUBSET V \ FormulaBdd(V, f.arg)
    [] f.op = "and"   -> {s \in SUBSET V : \A g \in ToSet(f.args) : s \in FormulaBdd(V, g)}
    [] f.op = "or"    -> UNION {FormulaBdd(V, g) : g \in ToSet(f.args)}

\* effect_dbn gives up on an effect when it comes to it, which it does not where the
\* condition can never hold.
RECURSIVE GivesUp(_, _, _, _)
GivesUp(p, V, states, e) ==
  /\ states # {}
  /\ CASE e.op = "update" -> ~Rewarded(p) \/ e.app[1] # REWARD[1]
       [] e.op = "and"    -> \E d \in ToSet(e.args) : GivesUp(p, V, states, d)
       [] e.op = "prob"   -> \E o \in ToSet(e.outcomes) : GivesUp(p, V, states, o.e)
       [] e.op = "when"   -> \/ Unexpected(e.cond)
                             \/ GivesUp(p, V, states \cap FormulaBdd(V, e.cond), e.effect)
       [] OTHER           -> FALSE

-----------------------------------------------------------------------------
(* Auxiliary variables *)

Rest(e)  == Minus(One, Total(e.outcomes))
Codes(e) == Len(e.outcomes) + (IF Lt(Zero, Rest(e)) THEN 1 ELSE 0)

CeilLog2(n) == Min({k \in 0..n : 2 ^ k >= n})

RECURSIVE AuxVariables(_)
AuxVariables(e) ==
  CASE e.op = "and"  -> FoldLeft(LAMBDA n, d : n + AuxVariables(d), 0, e.args)
    [] e.op = "when" -> AuxVariables(e.effect)
    [] e.op = "prob" -> FoldLeft(LAMBDA n, o : n + AuxVariables(o.e), CeilLog2(Codes(e)),
                                 e.outcomes)
    [] OTHER         -> 0

\* The most any action needs; the variables are numbered from 0.
MaxAux(actions) == Max({AuxVariables(a.effect) : a \in actions} \cup {0})
Draws(actions)  == SUBSET (0..MaxAux(actions) - 1)

\* The i-th outcome in binary, its last digit in the last variable.
Code(i, bits) == {b \in bits : ((i - 1) \div 2 ^ (Max(bits) - b)) % 2 = 1}

\* The table of the variables of a probabilistic effect: a code that is not in use has
\* no probability.
AuxTable(e, bits) ==
  LET p(i) == IF i = Codes(e) /\ Lt(Zero, Rest(e)) THEN Rest(e) ELSE e.outcomes[i].p
  IN  [draw \in SUBSET bits |-> SumOver({i \in 1..Codes(e) : Code(i, bits) = draw}, p)]

-----------------------------------------------------------------------------
(* The network of an effect: when each variable is set (cpts) and when it  *)
(* is cleared (ncpts), the tables of the auxiliary variables (acpts), the  *)
(* first of these that is free, and the reward of every state.             *)

NoReward(V) == [s \in SUBSET V |-> Zero]
NoDbn(V) == [cpts |-> [v \in V |-> {}], ncpts |-> [v \in V |-> {}], acpts |-> <<>>,
             next |-> 0, reward |-> NoReward(V)]
Unpaid(V, dbn) == [dbn EXCEPT !.reward = NoReward(V)]

\* The reward of the last effect is weighted as that of the outcome in which nothing
\* happens, when there is one.
Weight(e, i) ==
  IF i = Len(e.outcomes) /\ Lt(Zero, Rest(e)) THEN Rest(e) ELSE e.outcomes[i].p

UpdateReward(V, states, e) ==
  [s \in SUBSET V |-> IF s \in states THEN Updated(e, e.app :> Zero)[e.app] ELSE Zero]

\* effect_dbn, which adds the network of effect e to dbn; the reward that comes with the
\* result is that of e alone.  The condition that holds is given twice: the states in
\* which it does, and (cond) with the draws in which e is the outcome.
RECURSIVE EffectDbn(_, _, _, _, _)
RECURSIVE AndDbn(_, _, _, _, _)
RECURSIVE WhenDbn(_, _, _, _, _)
RECURSIVE ProbDbn(_, _, _, _, _)
RECURSIVE WithEffect(_, _, _, _, _, _)

\* The network of one effect more, whose reward counts with weight q.
WithEffect(V, dbn, states, cond, e, q) ==
  [EffectDbn(V, dbn, states, cond, e) EXCEPT
     !.reward = [s \in SUBSET V |-> Plus(dbn.reward[s], Prod(q, @[s]))]]

AndDbn(V, dbn, states, cond, e) ==
  FoldLeft(LAMBDA d, arg : WithEffect(V, d, states, cond, arg, One), dbn, e.args)

WhenDbn(V, dbn, states, cond, e) ==
  LET holds == FormulaBdd(V, e.cond)
  IN  EffectDbn(V, dbn, states \cap holds, {c \in cond : c[1] \in holds}, e.effect)

ProbDbn(V, dbn, states, cond, e) ==
  LET bits == dbn.next..(dbn.next + CeilLog2(Codes(e)) - 1)
      Outcome(d, i) ==
        WithEffect(V, d, states, {c \in cond : c[2] \cap bits = Code(i, bits)},
                   e.outcomes[i].e, Weight(e, i))
      drawn == [dbn EXCEPT !.next = @ + Cardinality(bits), !.acpts = Append(@, AuxTable(e, bits))]
  IN  FoldLeft(Outcome, drawn, [i \in DOMAIN e.outcomes |-> i])

EffectDbn(V, before, states, cond, e) ==
  CASE states = {} \/ e = Sim!Empty -> Unpaid(V, before)
    [] OTHER ->
         CASE e.op = "add"    -> [Unpaid(V, before) EXCEPT !.cpts[e.atom] = @ \cup cond]
           [] e.op = "delete" -> [Unpaid(V, before) EXCEPT !.ncpts[e.atom] = @ \cup cond]
           [] e.op = "update" -> [before EXCEPT !.reward = UpdateReward(V, states, e)]
           [] e.op = "and"    -> AndDbn(V, Unpaid(V, before), states, cond, e)
           [] e.op = "when"   -> WhenDbn(V, before, states, cond, e)
           [] e.op = "prob"   -> ProbDbn(V, Unpaid(V, before), states, cond, e)

-----------------------------------------------------------------------------
(* The matrix of an action *)

RawDbn(V, draws, a) == EffectDbn(V, NoDbn(V), SUBSET V, (SUBSET V) \X draws, a.effect)

\* "inconsistent effects": a variable is set and cleared.
Inconsistent(dbn) == \E v \in DOMAIN dbn.cpts : dbn.cpts[v] \cap dbn.ncpts[v] # {}

\* action_dbn: a variable that is neither set nor cleared stays as it is.
After(dbn, s, draw) ==
  {v \in DOMAIN dbn.cpts : \/ <<s, draw>> \in dbn.cpts[v]
                           \/ v \in s /\ <<s, draw>> \notin dbn.ncpts[v]}

\* The auxiliary variables in use are summed out.
Likelihood(dbn, draw) ==
  FoldLeft(LAMBDA q, table : Prod(q, table[draw \cap UNION DOMAIN table]), One, dbn.acpts)
Transition(dbn, s) ==
  LET ways == {w \in {[by |-> d, to |-> After(dbn, s, d), odds |-> Likelihood(dbn, d)] :
                         d \in SUBSET (0..dbn.next - 1)} : w.odds # Zero}
  IN  [t \in {w.to : w \in ways} |-> SumOver({w \in ways : w.to = t}, LAMBDA w : w.odds)]

GoalReward(p) ==
  CASE ~Rewarded(p)                        -> One
    [] Rewarded(p) /\ p.goalReward = <<>>  -> Zero
    [] Rewarded(p) /\ p.goalReward # <<>>  -> Updated(p.goalReward[1], REWARD :> Zero)[REWARD]

\* An action as value iteration sees it: where it may be taken, where it leads, what it
\* brings.  The reward of the goal comes on top of that of the effect.
WithGoalReward(goals, q, matrix) ==
  LET ToGoal(P) == SumOver(DOMAIN P \cap goals, LAMBDA t : P[t])
  IN  [matrix EXCEPT !.reward =
         [s \in DOMAIN @ |-> Plus(@[s], Prod(q, ToGoal(matrix.transition[s])))]]

\* Mutant: an action is worth something at a goal, too.
MatrixPastGoals(V, goals, a, dbn) ==
  [name |-> a.name,
   filter |-> FormulaBdd(V, a.prec),
   transition |-> [s \in SUBSET V |-> Transition(dbn, s)],
   reward |-> dbn.reward]

Matrix(V, goals, a, dbn) ==
  [name |-> a.name,
   filter |-> FormulaBdd(V, a.prec) \ goals,
   transition |-> [s \in SUBSET V |-> Transition(dbn, s)],
   reward |-> dbn.reward]

Matrices(p, actions, V, goals) ==
  {WithGoalReward(goals, GoalReward(p), Matrix(V, goals, a, RawDbn(V, Draws(actions), a))) :
     a \in actions}

\* solve_problem ends with an exception on a problem that it does not understand.
Understood(p, actions, goal, V) ==
  /\ ~Unexpected(goal)
  /\ \A e \in AllEffects(p, actions) : ~NumericVariable(p, e)
  /\ \A a \in actions : /\ ~Unexpected(a.prec)
                        /\ ~GivesUp(p, V, SUBSET V, a.effect)
                        /\ ~Inconsistent(RawDbn(V, Draws(actions), a))

-----------------------------------------------------------------------------
(* Value iteration *)

Worth(matrix, values, s) ==
  LET P == matrix.transition[s]
  IN  Plus(matrix.reward[s],
           Prod(Gamma, SumOver(DOMAIN P, LAMBDA t : Prod(P[t], values[t]))))

QUIT == <<>>

\* One state in a pass over the actions in the order of their addresses: an action takes
\* it from those before it if it is worth more than they are, and more than nothing.
Best(matrices, values, s) ==
  FoldLeft(LAMBDA best, m : IF s \in m.filter /\ Lt(best.value, Worth(m, values, s))
                              THEN [value |-> Worth(m, values, s), action |-> m.name]
                              ELSE best,
           [value |-> Zero, action |-> QUIT], matrices)

Tolerance == Quot(Prod(Epsilon, Minus(One, Gamma)), Prod(<<2, 1>>, Gamma))
Distance(q, r) == IF Lt(q, r) THEN Minus(r, q) ELSE Minus(q, r)
Converged(before, after) == \A s \in DOMAIN before : Lt(Distance(before[s], after[s]), Tolerance)

\* What a state is looked at for: its variables.
StateBdd(V, atoms) == atoms \cap V
DecideAction(V, policy, atoms) == policy[StateBdd(V, atoms)]
=============================================================================
