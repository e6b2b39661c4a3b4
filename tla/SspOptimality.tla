--------------------------- MODULE SspOptimality ----------------------------
(***************************************************************************)
(* The optimal expected costs of a problem, and the heuristics that never  *)
(* exceed them.                                                            *)
(***************************************************************************)
EXTENDS Ssp

CONSTANTS
  VStar,     \* the optimal expected cost of each state, cut off at DeadEndValue
  Horizon    \* what comes after so many steps makes no difference to it

\* The optimal expected cost of n steps, cut off at DeadEndValue: every step looks ahead
\* to the costs of the steps that are left, until they do not change any more.
Cost[n \in 0..Horizon] ==
  IF n = 0 THEN [s \in States |-> 0]
  ELSE LET W == Cost[n - 1]
           X == [s \in States |-> BestValue(W, s)]
       IN  IF X = W THEN W ELSE X

\* The optimal expected costs are the least fixed point of the lookahead.
ASSUME OptimalAssumption ==
  /\ Horizon \in Nat /\ VStar = Cost[Horizon]
  /\ \A s \in States : VStar[s] = BestValue(VStar, s)

ASSUME AdmissibleAssumption ==
  \A h \in Heuristics : \A s \in States : h[s] <= VStar[s]
=============================================================================
