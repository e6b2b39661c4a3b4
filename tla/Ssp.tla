-------------------------------- MODULE Ssp ---------------------------------
(***************************************************************************)
(* The stochastic shortest-path problem mini-gpt's planners solve, and the *)
(* one-step lookahead of its hash table (hash_t::bestAction): what is the  *)
(* value of a state, given the values of its successors, and by which      *)
(* action is it reached.                                                   *)
(*                                                                         *)
(* The program's doubles are integers here: a value counts units of which  *)
(* an action costs CostUnit, probabilities are weights that add up to      *)
(* Whole, and an expectation is rounded down.  Like the doubles, the       *)
(* values form a finite ordered set on which the lookahead is monotone.    *)
(***************************************************************************)
EXTENDS Integers, Sequences, SequencesExt

CONSTANTS
  States,
  NumActions,    \* problem.actionsT() is indexed 1..NumActions
  Outcomes,      \* <<state, action>> |-> problem.expand: a sequence of
                 \* [state, weight] records, empty when the action is not enabled
  Whole,         \* the weight of certainty
  CostUnit,      \* action_t::cost, in units of value
  GoalStates,    \* states in which the goal formula holds
  InitStates,    \* states a round may start in
  Heuristics,    \* what heuristic_t::value, the value of a fresh hash entry, may be
  DeadEndValue,  \* gpt::dead_end_value
  Epsilon        \* gpt::epsilon

Actions == 1..NumActions
NoAction == 0

ASSUME SspAssumption ==
  /\ NumActions \in Nat /\ Whole \in Nat \ {0} /\ CostUnit \in Nat
  /\ GoalStates \subseteq States /\ InitStates \subseteq States \ GoalStates
  /\ InitStates # {}
  /\ Outcomes \in [States \X Actions -> Seq([state : States, weight : 1..Whole])]
  /\ DeadEndValue \in Nat /\ Epsilon \in Nat
  /\ Heuristics \subseteq [States -> 0..DeadEndValue] /\ Heuristics # {}

Values == [States -> 0..DeadEndValue]

Enabled(s)       == {a \in Actions : Outcomes[<<s, a>>] # <<>>}
Successors(s, a) == {Outcomes[<<s, a>>][i].state : i \in 1..Len(Outcomes[<<s, a>>])}

\* The expected value of the outcomes of a in s, plus its cost.
QValue(V, s, a) ==
  LET o == Outcomes[<<s, a>>]
      sum[i \in 0..Len(o)] == IF i = 0 THEN 0
                              ELSE sum[i - 1] + o[i].weight * V[o[i].state]
  IN  CostUnit + sum[Len(o)] \div Whole

\* What bestAction returns and what it leaves in val: the first of the actions with
\* the least value; in a goal state the first enabled one, and nothing left to pay.
Best(V, s) ==
  IF Enabled(s) = {}
  THEN [action |-> NoAction, value |-> IF s \in GoalStates THEN 0 ELSE DeadEndValue]
  ELSE LET choices == {[action |-> a, value |-> IF s \in GoalStates THEN 0
                                                ELSE QValue(V, s, a)] : a \in Enabled(s)}
       IN  CHOOSE c \in choices : \A d \in choices :
             c.value < d.value \/ (c.value = d.value /\ c.action <= d.action)

Capped(v) == IF v < DeadEndValue THEN v ELSE DeadEndValue

BestAction(V, s) == Best(V, s).action
BestValue(V, s)  == Capped(Best(V, s).value)

\* hashEntry_t::update
Update(V, s, v) == [V EXCEPT ![s] = Capped(v)]
=============================================================================
