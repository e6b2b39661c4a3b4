--------------------------- MODULE PddlAgreement ----------------------------
(***************************************************************************)
(* The simulator and its two planners read the same problem file and each  *)
(* has its own idea of what the problem means.  mini-gpt flattens the      *)
(* problem once (problem_t::flatten) and from then on keeps in display_    *)
(* the states it expects to be sent: the initial states at the start of a  *)
(* round, and the outcomes of its action after that (XMLClient_t, where    *)
(* NDEBUG is not set).  mtbddclient solves the problem once, in its first  *)
(* round, and looks its actions up.  The simulator samples its own states. *)
(***************************************************************************)
EXTENDS Pddl

Sim == INSTANCE Simulator
Gpt == INSTANCE Planner

CONSTANTS
  Problems,        \* the problems they may be given (Pddl)
  Gamma, Epsilon   \* the discount factor and the error tolerance of mtbddclient

Dd == INSTANCE Mtbdd

ASSUME FactorsAssumption ==
  /\ Gamma \in Int \X (Nat \ {0}) /\ Lt(Zero, Gamma) /\ Lt(Gamma, One)
  /\ Epsilon \in Int \X (Nat \ {0}) /\ Lt(Zero, Epsilon)

\* The initial atoms are of objects, and the simulator has set its own two values.
ASSUME ProblemsAssumption ==
  \A p \in Problems : /\ \A a \in p.init : Ground(p, a)
                      /\ {Sim!TOTAL_TIME, Sim!GOAL_ACHIEVED} \subseteq DOMAIN p.values

VARIABLES
  problem,   \* the problem of all
  actions,   \* the grounded actions of the simulator
  operators, \* actionsT: the lists the planner has made of its own
  goalT,     \* and of its goal
  starts,    \* the states the simulator may start in
  initials,  \* the states the planner expects to start in
  goals,     \* the goals of mtbddclient,
  matrices,  \* and its actions, by address; none if it gives up
  values,    \* its value function,
  policy,    \* and what it does in each state
  client,    \* the client that plays the round
  state,     \* the state of the simulation
  display,   \* display_: the states the planner expects
  action,    \* the name of the action that was sent
  turn       \* "solve", "round", "client" or "server": what comes next

given == <<problem, actions, operators, goalT, starts, initials, goals, matrices>>
play  == <<client, state, display, action>>
vars  == <<given, values, policy, play, turn>>

StatesOf(outcomes) == {o.state : o \in {q \in ToSet(outcomes) : q.p # Zero}}

\* The turns and the reward so far are no part of the problem.
Timeless(s) ==
  LET forgotten == {Sim!TOTAL_TIME, Dd!REWARD}
  IN  [s EXCEPT !.values = [a \in DOMAIN @ |-> IF a \in forgotten THEN Zero ELSE @[a]]]

\* XMLClient_t::getState: the atoms that are sent are the state.
Seen(s) == Sim!Sent(problem, s).atoms

\* The state variables of mtbddclient.
V == UNION DOMAIN policy

Init ==
  /\ problem \in {p \in Problems : Gpt!Accepted(p)}
  /\ actions = Sim!Actions(problem)
  /\ operators = Gpt!ActionsT(problem)
  /\ goalT = Gpt!GoalT(problem)
  /\ starts = {Timeless(s) : s \in StatesOf(Sim!StartStates(problem))}
  /\ initials = StatesOf(Gpt!InitialStates(problem))
  /\ \E goal \in {Dd!InstGoal(problem)} :
       /\ policy = [s \in SUBSET Dd!StateVariables(problem, actions, goal) |-> Dd!QUIT]
       /\ IF Dd!Understood(problem, actions, goal, V)
            THEN /\ goals = Dd!FormulaBdd(V, goal)
                 /\ matrices \in SetToSeqs(Dd!Matrices(problem, actions, V, goals))
            ELSE goals = {} /\ matrices = <<>>
  /\ values = [s \in SUBSET V |-> Zero]
  /\ client = "mini-gpt"
  /\ state = <<>>
  /\ display = {}
  /\ action = <<>>
  /\ turn = IF matrices = <<>> THEN "round" ELSE "solve"

\* mtbddclient passes over all states until the values hardly change any more.
Iterate ==
  /\ turn = "solve"
  /\ values' = [s \in SUBSET V |-> Dd!Best(matrices, values, s).value]
  /\ policy' = [s \in SUBSET V |-> Dd!Best(matrices, values, s).action]
  /\ turn' = IF Dd!Converged(values, values') THEN "round" ELSE "solve"
  /\ UNCHANGED <<given, play>>

\* A round is requested: the simulator starts it somewhere, mini-gpt expects it to.
StartRound ==
  /\ turn = "round"
  /\ client' \in {"mini-gpt"} \cup (IF matrices = <<>> THEN {} ELSE {"mtbdd"})
  /\ state' \in starts
  /\ display' = IF client' = "mini-gpt" THEN initials ELSE {}
  /\ turn' = "client"
  /\ UNCHANGED <<given, values, policy, action>>

EnabledOperators == {o \in operators : Gpt!ListsHold(o.prec, Seen(state))}
EnabledActions   == {a \in actions : Sim!Holds(problem, a.prec, state)}

\* mini-gpt finds the state among those expected, sends an action and expands it.
SendAction ==
  /\ turn = "client" /\ client = "mini-gpt"
  /\ ~state.goal
  /\ Seen(state) \in display
  /\ \E o \in EnabledOperators :
       /\ action' = o.name
       /\ display' = StatesOf(Gpt!Expand(o.effect, Seen(state)))
  /\ turn' = "server"
  /\ UNCHANGED <<given, values, policy, client, state>>

\* getAtom and getState of client.cc: an atom is left out unless its predicate is declared
\* and its terms are objects of the types of the parameters.
Legible(a) ==
  /\ a[1] \in DOMAIN problem.predicates
  /\ Len(problem.predicates[a[1]]) = Len(a) - 1
  /\ \A i \in DOMAIN problem.predicates[a[1]] :
       /\ a[i + 1] \in ToSet(problem.constants \o problem.objects)
       /\ Subtype(problem.types, problem.typeof[a[i + 1]], problem.predicates[a[1]][i])
Received == {a \in Seen(state) : Legible(a)}

\* mtbddclient sends the action of its policy.
Decided == Dd!DecideAction(V, policy, Received)
SendDecided ==
  /\ turn = "client" /\ client = "mtbdd"
  /\ ~state.goal
  /\ Decided # Dd!QUIT
  /\ action' = Decided
  /\ turn' = "server"
  /\ UNCHANGED <<given, values, policy, client, state, display>>

\* No action is enabled, or none is worth it: <done/> is sent, and the round ends; or it
\* ends as the simulator has reached a goal, before the client sees it.
Quits == CASE client = "mini-gpt" -> Seen(state) \in display /\ EnabledOperators = {}
           [] client = "mtbdd"    -> Decided = Dd!QUIT
EndRound ==
  /\ turn = "client"
  /\ state.goal \/ Quits
  /\ state' = <<>>
  /\ display' = {}
  /\ action' = <<>>
  /\ turn' = "round"
  /\ UNCHANGED <<given, values, policy, client>>

\* The simulator applies the action, if it is enabled there too.
Sample ==
  /\ turn = "server"
  /\ \E a \in EnabledActions :
       /\ a.name = action
       /\ state' \in {Timeless(s) : s \in StatesOf(Sim!NextStates(problem, a, state))}
  /\ turn' = "client"
  /\ UNCHANGED <<given, values, policy, client, display, action>>

Next == Iterate \/ StartRound \/ SendAction \/ SendDecided \/ EndRound \/ Sample

Spec == Init /\ [][Next]_vars

-----------------------------------------------------------------------------

Odds(outcomes) ==
  [t \in StatesOf(outcomes) |-> Total(SelectSeq(outcomes, LAMBDA o : o.state = t))]

\* Grounding, flattening and decision diagrams change the form of a formula and never its
\* meaning: all three programs take the same actions for enabled, so that no planner
\* overlooks one or sends one that is answered by an error; and all three take the same
\* states for goals, so that none is reached in vain or walked through.
FormulasAlike ==
  turn = "client" =>
    LET enabled == {a.name : a \in EnabledActions}
    IN  /\ {o.name : o \in EnabledOperators} = enabled
        /\ state.goal = Gpt!ListsHold(goalT, Seen(state))
        /\ matrices # <<>> =>
             /\ state.goal = (Seen(state) \cap V \in goals)
             /\ {m.name : m \in {n \in ToSet(matrices) : Seen(state) \cap V \in n.filter}}
                  = IF state.goal THEN {} ELSE enabled

\* What the planners reckon with is what the simulator does: an action has the same
\* outcomes with the same probabilities, whether it is expanded or multiplied out of
\* the tables of its draws.
SameOdds ==
  turn = "client" => \A a \in EnabledActions :
    \E odds \in {Odds(Each(LAMBDA o : [p |-> o.p, state |-> Seen(o.state)],
                           Sim!NextStates(problem, a, state)))} :
      /\ \A o \in EnabledOperators :
           o.name = a.name => Odds(Gpt!Expand(o.effect, Seen(state))) = odds
      /\ \A m \in ToSet(matrices) : m.name = a.name =>
           \E P \in {m.transition[Seen(state) \cap V]} :
             odds = [t \in {u \cup (Seen(state) \ V) : u \in DOMAIN P} |-> P[t \cap V]]

\* The state the simulator sends is one of those mini-gpt expects; otherwise it stops
\* ("unexpected state 1111").
StateExpected == turn = "client" /\ client = "mini-gpt" => Seen(state) \in display

\* What an action gains in the simulation: reward, or the first sight of a goal.
Gained(s, t) ==
  IF Dd!Rewarded(problem) THEN Minus(t.values[Dd!REWARD], s.values[Dd!REWARD])
  ELSE t.values[Sim!GOAL_ACHIEVED]
Promise(a, s) ==
  FoldLeft(LAMBDA q, o : Plus(q, Prod(o.p, Plus(Gained(s, o.state),
                                                Prod(Gamma, values[o.state.atoms \cap V])))),
           Zero, Sim!NextStates(problem, a, s))

\* The actions enabled in a state that is no goal.
Able(s) ==
  {a \in actions : ~Sim!Holds(problem, Sim!Goal(problem), s) /\ Sim!Holds(problem, a.prec, s)}

\* Every pass of value iteration looks one step ahead as the simulation would go: a state
\* becomes worth what the best action that is enabled in it gains and leads to, the policy
\* takes such an action, and it quits only at a goal or where there is nothing to gain.
PassIsGreedy ==
  [][turn = "solve" => \A visible \in SUBSET V :
       LET s == [atoms |-> visible \cup {a \in problem.init : a[1] \in problem.static},
                 values |-> problem.values, goal |-> FALSE]
       IN  \E bids \in {{<<Dd!QUIT, Zero>>} \cup {<<a.name, Promise(a, s)>> : a \in Able(s)}} :
             /\ <<policy'[visible], values'[visible]>> \in bids
             /\ \A bid \in bids : Le(bid[2], values'[visible])
             /\ values'[visible] = Zero => policy'[visible] = Dd!QUIT]_vars
=============================================================================
