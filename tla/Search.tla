------------------------------- MODULE Search -------------------------------
(***************************************************************************)
(* The min-min heuristics of mini-gpt (algorithms.cc, atom_states.cc): the *)
(* value of a state is its distance to the goal in the weak relaxation,    *)
(* found by IDA* without or with a table that is kept from one question to *)
(* the next, or by a bounded Dijkstra search backwards from the goals, and *)
(* IDA* from the states that are not closed when it ends.                  *)
(*                                                                         *)
(* Costs are one for every action.  The table is a function of all states  *)
(* of the relaxation; a fresh entry has the value of the heuristic the     *)
(* search is given.  No state space has been generated before.             *)
(***************************************************************************)
EXTENDS Heuristics, PriorityQueue

CONSTANTS
  Algorithms,   \* "ida", "ida-tt" and "dijkstra", to choose from
  Bounds,       \* size_ of boundedDijkstra_t, 0 for no bound
  Guides        \* the heuristics to choose from: "zero" and "atom-min-1"

ASSUME SearchAssumption == MaxIndex >= DeadEndValue

VARIABLES
  problem, algorithm, bound, guide,   \* what was chosen
  operators,  \* of the weak relaxation
  V,          \* hashEntry_t::value_
  bits,       \* "clear", "open", or "closed" (also SOLVED of IDA_t)
  space,      \* the states of the relaxation, all in the table
  queue, count,  \* of the Dijkstra search
  pc,         \* "search" or "ready"
  answer      \* the last state asked for, and its value

chosen == <<problem, algorithm, bound, guide, operators, space>>
vars   == <<chosen, V, bits, queue, count, pc, answer>>

IsGoal(s)       == AnyHolds(problem.goal, s, FALSE)
Enabled(ops, s) == SelectSeq(ops, LAMBDA o : Holds(o.prec, s, FALSE))
Capped(v)       == IF v < DeadEndValue THEN v ELSE DeadEndValue
Lesser(x, y)    == IF x < y THEN x ELSE y
Greater(x, y)   == IF x > y THEN x ELSE y

\* state_t::generate_state_space
RECURSIVE Reachable(_, _)
Reachable(ops, states) ==
  LET more == states \cup UNION {{Affect(s, o.eff) : o \in ToSet(Enabled(ops, s))} : s \in states}
  IN  IF more = states THEN states ELSE Reachable(ops, more)

Init ==
  /\ problem \in Problems
  /\ algorithm \in Algorithms
  /\ bound \in IF algorithm = "dijkstra" THEN Bounds ELSE {0}
  /\ guide \in Guides
  /\ operators = Weak(problem).actions
  /\ space = Reachable(operators, {problem.init})
  /\ LET strong == Strong(Medium(Weak(problem)))
         start  == [s \in space |-> IF guide = "zero" THEN 0 ELSE AtomMin1(strong, s)]
         goals  == IF algorithm = "dijkstra" THEN {s \in space : IsGoal(s)} ELSE {}
     IN  /\ V = [s \in space |-> IF s \in goals THEN 0 ELSE start[s]]
         /\ bits = [s \in space |-> IF s \in goals THEN "open" ELSE "clear"]
         /\ queue = FoldSet(LAMBDA s, q : Push(q, s, V), EmptyQueue, goals)
  /\ count = 0
  /\ pc = IF algorithm = "dijkstra" THEN "search" ELSE "ready"
  /\ answer = <<>>

-----------------------------------------------------------------------------
(* boundedDijkstra_t::boundedDijkstra_t *)

\* Mutant: the atoms an operator deletes may be true after it.
RegressesDeleted(o, s) == o.eff.add \cap s # {}

Regresses(o, s) ==
  /\ o.eff.add \cap s # {}
  /\ o.eff.del \cap s = {}
  /\ \A l \in o.prec : ~Even(l) => l - 1 \notin (s \ o.eff.add) \cup {k \in o.prec : Even(k) /\ k < l}

\* The state before an operator: what it adds was false, what it needs was true.
Regression(o, s) == (s \ o.eff.add) \cup (o.prec \cap Evens)

Relax(x, t, cost) ==
  IF t \in space /\ (x.bits[t] = "clear" \/ (x.bits[t] = "open" /\ cost < x.V[t]))
  THEN LET W == [x.V EXCEPT ![t] = Capped(cost)]
       IN  [V |-> W, bits |-> [x.bits EXCEPT ![t] = "open"],
            queue |-> Push(IF x.bits[t] = "open" THEN RemoveEntry(x.queue, t, x.V) ELSE x.queue, t, W)]
  ELSE x

\* The entry on top is closed; unless the bound is reached, its predecessors are entered.
Expand ==
  /\ pc = "search" /\ ~IsEmpty(queue)
  /\ LET s == Top(queue)
         x == [V |-> V, bits |-> [bits EXCEPT ![s] = "closed"], queue |-> Pop(queue, V)]
         y == FoldLeft(LAMBDA z, o : Relax(z, Regression(o, s), z.V[s] + 1), x,
                       SelectSeq(operators, LAMBDA o : Regresses(o, s)))
     IN  IF count + 1 = bound
           THEN V' = V /\ bits' = x.bits /\ queue' = x.queue /\ pc' = "ready"
           ELSE V' = y.V /\ bits' = y.bits /\ queue' = y.queue /\ pc' = pc
  /\ count' = IF bound = 0 THEN count ELSE count + 1  \* of no use without a bound
  /\ UNCHANGED <<chosen, answer>>

Finish ==
  /\ pc = "search" /\ IsEmpty(queue)
  /\ pc' = "ready"
  /\ UNCHANGED <<chosen, V, bits, queue, count, answer>>

-----------------------------------------------------------------------------
(* IDA_t: an iteration with a threshold returns the cost of the goal it has    *)
(* found, or the least threshold by which it was cut off.                      *)

RECURSIVE Ida(_, _, _)
Ida(s, cost, threshold) ==
  CASE IsGoal(s)               -> [found |-> TRUE, cost |-> cost]
    [] ~IsGoal(s) /\ cost + V[s] > threshold -> [found |-> FALSE, cost |-> cost + V[s]]
    [] OTHER ->
         FoldLeft(LAMBDA r, o : IF r.found THEN r
                                ELSE LET next == Ida(Affect(s, o.eff), cost + 1, threshold)
                                     IN  IF next.found THEN next
                                         ELSE [r EXCEPT !.cost = Lesser(@, next.cost)],
                  [found |-> FALSE, cost |-> DeadEndValue], Enabled(operators, s))

RECURSIVE Solve(_, _)
Solve(s, threshold) ==
  IF threshold >= DeadEndValue THEN threshold
  ELSE LET r == Ida(s, 0, threshold) IN IF r.found THEN r.cost ELSE Solve(s, r.cost)

\* Mutant: an entry is given the cost of the whole path.
LearnCost(x, s, cost, r) ==
  [x EXCEPT !.V[s] = Capped(Greater(x.V[s], r.cost)),
            !.bits[s] = IF r.found THEN "closed" ELSE @,
            !.found = r.found, !.cost = r.cost]

\* What is learnt about an entry when it has been expanded.
Learn(x, s, cost, r) ==
  [x EXCEPT !.V[s] = Capped(Greater(x.V[s], r.cost - cost)),
            !.bits[s] = IF r.found THEN "closed" ELSE @,
            !.found = r.found, !.cost = r.cost]

\* With the table: x is the table, and what the iteration returns.
RECURSIVE IdaTable(_, _, _, _)
IdaTable(x, s, cost, threshold) ==
  CASE IsGoal(s) -> [x EXCEPT !.found = TRUE, !.cost = cost]
    [] ~IsGoal(s) /\ cost + x.V[s] > threshold -> [x EXCEPT !.found = FALSE, !.cost = cost + x.V[s]]
    [] ~IsGoal(s) /\ cost + x.V[s] <= threshold /\ cost + x.V[s] >= DeadEndValue ->
         [x EXCEPT !.found = FALSE, !.cost = DeadEndValue]
    [] OTHER ->
         LET y == FoldLeft(LAMBDA r, o : IF r.found THEN r
                                         ELSE LET next == IdaTable(r, Affect(s, o.eff), cost + 1, threshold)
                                              IN  IF next.found THEN next
                                                  ELSE [next EXCEPT !.cost = Lesser(r.cost, next.cost)],
                           [x EXCEPT !.found = FALSE, !.cost = DeadEndValue], Enabled(operators, s))
         IN  Learn(y, s, cost, y)

RECURSIVE SolveTable(_, _)
SolveTable(x, s) ==
  IF x.found \/ x.cost >= DeadEndValue
  THEN [x EXCEPT !.V[s] = Capped(x.cost), !.bits[s] = IF algorithm = "dijkstra" THEN @ ELSE "closed"]
  ELSE SolveTable(IdaTable(x, s, 0, x.cost), s)

\* IDA_t::value and boundedDijkstra_t::value
Ask(s) ==
  /\ pc = "ready"
  /\ IF algorithm = "ida"
       THEN answer' = <<s, Solve(s, V[s])>> /\ UNCHANGED <<V, bits>>
       ELSE LET x == SolveTable([V |-> V, bits |-> bits, found |-> FALSE, cost |-> V[s]], s)
                y == IF bits[s] = "closed" THEN [V |-> V, bits |-> bits] ELSE x
            IN  V' = y.V /\ bits' = y.bits /\ answer' = <<s, y.V[s]>>
  /\ UNCHANGED <<chosen, queue, count, pc>>

Next == Expand \/ Finish \/ \E s \in space : Ask(s)

\* The constructor is one computation.
Spec == Init /\ [][Next]_vars /\ WF_vars(Expand \/ Finish)

-----------------------------------------------------------------------------
(* Properties *)

\* The queue's heap has the index of every bucket in use, once and in order, and the
\* entries of a bucket are the open ones with that value: what remove relies on when
\* it looks for an entry.
QueueSound ==
  pc = "search" =>
    /\ \A i, j \in DOMAIN queue.heap : i < j => queue.heap[i] < queue.heap[j]
    /\ \A b \in 0..MaxIndex : (b \in ToSet(queue.heap)) <=> (queue.buckets[b] # <<>>)
    /\ \A b \in 0..MaxIndex : ToSet(queue.buckets[b]) = {s \in space : bits[s] = "open" /\ V[s] = b}

RECURSIVE Nearest(_, _, _)
Nearest(closed, open, n) ==
  IF \E s \in open : IsGoal(s) THEN n
  ELSE IF open = {} THEN DeadEndValue
  ELSE Nearest(closed \cup open,
               UNION {{Affect(s, o.eff) : o \in ToSet(Enabled(operators, s))} : s \in open} \ (closed \cup open),
               n + 1)
Distance(s) == Nearest({}, {s}, 0)

\* Regression undoes every operator: the state it makes out of the one after a step is
\* the one before, and the operator leads back from it.
Invertible ==
  \A s \in space : \A o \in ToSet(operators) :
    /\ Holds(o.prec, s, FALSE) /\ Affect(s, o.eff) # s =>
         Regresses(o, Affect(s, o.eff)) /\ Regression(o, Affect(s, o.eff)) = s
    /\ Regresses(o, s) /\ Regression(o, s) \in space =>
         Holds(o.prec, Regression(o, s), FALSE) /\ Affect(Regression(o, s), o.eff) = s

\* Whatever was asked before, the answer is the distance to the goal, if it is below the
\* dead-end value, and:  the guide is admissible (a disjunctive goal makes atom-min-1 one
\* too high);  with entries that are kept, it is 0 in the goals only, because the goal is
\* tested before the threshold and is accepted a step beyond it;  and, for the Dijkstra
\* search, regression undoes the operators.
AnswersExact ==
  /\ answer # <<>>
  /\ guide = "atom-min-1" => Len(problem.goal) = 1
  /\ guide = "zero" => algorithm = "ida" \/ (algorithm = "dijkstra" /\ bound = 0)
  /\ algorithm = "dijkstra" => Invertible
  => answer[2] = Distance(answer[1])

\* The Dijkstra search ends.
SearchEnds == <>(pc = "ready")
=============================================================================
