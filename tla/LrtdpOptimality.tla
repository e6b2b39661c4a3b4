-------------------------- MODULE LrtdpOptimality ---------------------------
(***************************************************************************)
(* What lrtdp's labels and answers mean when the heuristic is admissible   *)
(* (it never exceeds the optimal expected cost), as the zero and min-min   *)
(* heuristics are.                                                         *)
(***************************************************************************)
EXTENDS Lrtdp, SspOptimality

\* A goal state has an enabled action: without one, checkSolved gives its entry the
\* dead-end value.
ASSUME GoalAssumption == \A s \in GoalStates : Enabled(s) # {}

\* No entry ever holds more than the optimal cost of its state, between any two
\* updates of any trial: the values stay a lower bound for every later trial.
NeverOverestimates == \A s \in States : V[s] <= VStar[s]

\* Once no value exceeds its lookahead (the heuristic is consistent, or has become so),
\* it stays that way and no update ever lowers a value again, whatever the order in
\* which trials, checks and backups write the entries.
Consistent == \A s \in States : V[s] <= BestValue(V, s)
ConsistencyKept ==
  [][Consistent => Consistent' /\ \A s \in States : V'[s] >= V[s]]_V

\* A label is never premature but for one case: if no value exceeded its lookahead at
\* the start, a labelled state has a value its successors confirm, and its greedy action
\* leads to labelled states only -- unless an outcome of it is a state without actions,
\* which a check itself may have found to be a dead end after it had looked at its
\* parent.  Without the condition a trial may lower an entry next to a labelled one, and
\* the labelled state's greedy action changes to it.
FoundDeadEnd(s) == \E a \in Enabled(s) : \E t \in Successors(s, a) : Enabled(t) = {}
Settled(s) ==
  \/ s \in GoalStates \/ V[s] = DeadEndValue \/ FoundDeadEnd(s)
  \/ /\ Residual(s) <= Epsilon
     /\ BestAction(V, s) # NoAction
     /\ Successors(s, BestAction(V, s)) \subseteq solved
SolvedIsClosed == Consistent => [](\A s \in solved : Settled(s))

\* If the heuristic is consistent and knows the dead ends, and epsilon is 0, then in every
\* round an action sent to the simulator is optimal, the value it was chosen by is the
\* optimal cost, and the planner gives up on a state only when its optimal cost is the
\* dead-end value.  (A residual that is tolerated may add up along the way to the goal.)
KnowsDeadEnds ==
  \A s \in States \ GoalStates : Enabled(s) = {} => V[s] = DeadEndValue
Optimal(s, a) == a # NoAction /\ Capped(QValue(VStar, s, a)) = VStar[s]
AnswersAreOptimal ==
  Consistent /\ KnowsDeadEnds /\ Epsilon = 0 =>
    [](pc = "idle" =>
         IF V[asked] = DeadEndValue THEN VStar[asked] = DeadEndValue
         ELSE asked \in solved => V[asked] = VStar[asked] /\ Optimal(asked, BestAction(V, asked)))

\* Every state the simulator sends is answered: trials and checks come to an end.
Answered == []<>(pc = "idle")
=============================================================================
