------------------------ MODULE AlgorithmsOptimality ------------------------
(***************************************************************************)
(* What the values, marks and answers of vi, asp and hdp mean when the     *)
(* heuristic is admissible.                                                *)
(***************************************************************************)
EXTENDS Algorithms, SspOptimality

\* No update of a sweep, a trial or a search, in whatever order they meet the entries,
\* leaves more than the optimal cost in an entry.
NeverOverestimates == \A s \in States : V[s] <= VStar[s]

\* When the first round begins, vi has found every state that can be reached, each of
\* them once if the initial states are told apart, and if epsilon is 0 their values are
\* optimal, and stay so: the order in which the space was generated and the early updates
\* of a sweep make no difference.
Reachable(T) == \A s \in T : \A a \in Actions : Successors(s, a) \subseteq T
ViOptimal ==
  planner = "vi" /\ pc \notin {"generate", "sweep"} =>
    /\ InitStates \subseteq ToSet(space) /\ Reachable(ToSet(space))
    /\ IsInjective(InitOrder) => IsInjective(space)
    /\ Epsilon = 0 => \A s \in ToSet(space) : V[s] = VStar[s]

\* A mark is never premature but for one case: an entry is marked only when its value
\* is confirmed by its successors and every likely outcome of its greedy action is
\* marked too -- unless an outcome is a state without actions, whose value the search
\* may have raised after it had looked at the parent -- as long as the solve has not
\* visited so many entries that the index came round.  (Later the value of an unlikely
\* outcome may still change: hdp accepts that.)
FoundDeadEnd(s) == \E a \in Enabled(s) : \E t \in Successors(s, a) : Enabled(t) = {}
Closed(s) ==
  \/ s \in GoalStates \/ V[s] = DeadEndValue \/ FoundDeadEnd(s)
  \/ Residual(s) <= Epsilon /\ ToSet(Likely(s, BestAction(V, s))) \subseteq marked
MarkedWhenClosed == [][~spent' => \A s \in marked' \ marked : Closed(s)']_vars

\* If the heuristic knows the dead ends, no planner looks for the action at index -1.
KnowsDeadEnds ==
  \A s \in States \ GoalStates : Enabled(s) = {} => V[s] = DeadEndValue
AnswersDefined == KnowsDeadEnds => [](pc # "undefined")

\* Every state is answered: sweeps, trials, searches and the updates within them end,
\* unless a solve of hdp visits so many entries that the index comes round.
Answered == []<>(pc \in {"idle", "undefined"} \/ spent)
=============================================================================
